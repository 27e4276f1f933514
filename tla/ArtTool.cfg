SPECIFICATION ArtToolSpec
CONSTANTS
  MaxTotalPixels = 600
  ChunkPixels = 7
  BlurDivisor = 1
  NoFile = NoFile
  Old = Old
  Jobs <- AllJobs
  Shapes <- AllShapes
  Dims = {0, 400, 1000}
  FastBits = 3
  MaxDimension = 300
  Unset = Unset
  MaxChunks = 4
  PictureSizes = {1, 2, 3, 5, 9}
  PngFiles <- AllFiles
  FastCode = 4
  MaxSide = 300
  Unwritten = Unwritten
  Sides = {1, 2, 9, 17}
  CodedBlocks <- AllBlocks
  JpegFiles <- AllJpegFiles
INVARIANTS FramingIsExact ShapeKept OldOrWhole StreamsDecode PicturesDecode OrdersAccepted InfoAgrees ScansDecode RowsShown
PROPERTIES RowsAreKernels BlurIsMean LaidWithoutSeam
CHECK_DEADLOCK FALSE
