------------------------------- MODULE StbImage -------------------------------
(***************************************************************************)
(* The image reader of the art tool (stb_image.h, stbi__load_main and      *)
(* stbi__info_main): a file is a PNG or a JPEG by its first bytes, and is  *)
(* read by the one decoder or the other.                                   *)
(***************************************************************************)
EXTENDS Png, Jpeg

StbInit ==
  \/ PngInit /\ JpegIdle
  \/ JpegInit /\ PngIdle

StbNext ==
  \/ PngNext /\ UNCHANGED jpegVars
  \/ JpegNext /\ UNCHANGED <<pngVars, inflateVars>>

StbSpec == StbInit /\ [][StbNext]_<<pngVars, inflateVars, jpegVars>>
=============================================================================
