------------------------------- MODULE MCArtTool -------------------------------
(***************************************************************************)
(* An instance of the art tool for TLC, its two halves apart: the decoders *)
(* with files of their own on one side, and on the other the pipeline,     *)
(* which is given the picture that was decoded.                            *)
(***************************************************************************)
EXTENDS MCArtwork, MCPng, MCJpeg, StbImage

decoderVars == <<pngVars, inflateVars, jpegVars>>

\* Beside a decoder, a pipeline that has refused its arguments.
PipelineIdle ==
  /\ job = Job(Flat(1, 1, 9), 0, 0, 0, Old) /\ step = "failed"
  /\ disk = Len(job.file) /\ loading = [size |-> 0, read |-> 0]
  /\ img = [source |-> <<>>, low |-> <<>>, backdrop |-> <<>>, front |-> <<>>]
  /\ ring = <<>> /\ turn = 0 /\ chunk = <<>>
  /\ temp = job.before /\ target = job.before

ArtToolInit ==
  \/ Init /\ PngIdle /\ JpegIdle
  \/ PipelineIdle /\ StbInit

ArtToolNext ==
  \/ Next /\ UNCHANGED decoderVars
  \/ StbNext /\ UNCHANGED artVars

ArtToolSpec == ArtToolInit /\ [][ArtToolNext]_<<artVars, decoderVars>>
================================================================================
