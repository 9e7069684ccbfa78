CONSTANTS
  MemUppers = {10200, 10260, 10300, 32768}
  Segments <- SomeSegments
  DiskCalls <- SomeCalls
  MaxDiskCalls = 2
  Buses = 1
  Devices = 2
  Functions = 2
  DeviceKinds <- SomeKinds
  Nobody = Nobody
  Ports = {1, 2, 3}
  CardKiB = 37
  NoDriver = NoDriver
  KeysAtBoot = 1
  SectorBytes = 8
  ByteRange = 2
  PartitionEntries = 2
  DirectoryEntries = 2
  Lbas = {1}
  Blocks <- SomeBlocks
  Clusters = {6, 100}
  Sizes = {5, 20}
  SectorRange = 256

SPECIFICATION Spec

CHECK_DEADLOCK FALSE

INVARIANT SectorAddressed
