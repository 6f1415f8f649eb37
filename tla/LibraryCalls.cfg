\* Addresses of 14 bits instead of 32, fixed-point numbers of 16 bits instead of 32,
\* two rows of two words in each vector.
CONSTANTS
  Quarter = 2
  Samples8 <- MCSamples8
  Samples16 <- MCSamples16
  RowSteps <- MCRowSteps
  AddressBits = 14
  PpuBit = 7
  SramBits = 3
  ExtMemBits = 4
  DramBits = 8
  MaxSum = 9
  DramSamples <- MCDramSamples
  WordBits = 4
  CyclesPerBit = 12
  Warm = 3
  Late = 1
  UartConfigurations <- MCUartConfigurations
  UartTexts <- MCUartTexts
  FracBits = 8
  Seeds32 <- MCSeeds32
  Cutoffs <- MCCutoffs
  TimeBits = 5
  Measurements <- MCMeasurements
  Arrays <- MCArrays
  VectorBytes = 8
  ChipRows = 2
  ChipVectors <- MCChipVectors
  Moments <- MCMoments
SPECIFICATION CallsSpec
INVARIANTS
  ArithmeticIsExact
  RoundingIsFair
  SelectionFollowsNumbers
  RowsKeepElements
  WordsArrive
  AddressesAreExact
  ExponentialLaws
  NumbersKeepLaws
  ChipAccessesAgree
