------------------------- MODULE FileAllocationTable -------------------------
(***************************************************************************)
(* The partition table and the file system (src/src/filesystem:            *)
(* msdospart.cpp, fat.cpp): a walk over the partitions, the entries of     *)
(* each root directory and the clusters of each file.                      *)
(*                                                                         *)
(* Read28 gives nothing back, so every record the walk looks at is what    *)
(* was in memory: any value.                                               *)
(***************************************************************************)
EXTENDS AdvancedTechnologyAttachment, Sequences

CONSTANTS
  PartitionEntries, DirectoryEntries,  \* (4, 16)
  Lbas,          \* start_lba of a partition
  Blocks,        \* BIOS parameter blocks: the fields ReadBiosBlock uses
  Clusters,      \* numbers of clusters
  Sizes,         \* sizes of files, as int32_t
  SectorRange    \* a uint32_t counts up to this (2^32)

ASSUME FatAssumption ==
  Sizes \subseteq Int /\ \A bpb \in Blocks : bpb.sectorsPerCluster \in Nat

VARIABLE fat  \* the walk; chain: the clusters of the file so far (history)

fatVars == <<ataVars, fat>>

FatInit ==
  fat = [at |-> "start", master |-> TRUE, partition |-> 0, entry |-> 0, lba |-> 0,
         fatStart |-> 0, dataStart |-> 0, sectorsPerCluster |-> 0,
         size |-> 0, SIZE |-> 0, cluster |-> 0, offset |-> 0, chain |-> <<>>]

Uint(n) == n % SectorRange

FatAt(where) == Idle /\ fat.at = where

Read(sector, count) == Read28(fat.master, Uint(sector), count)

NoRead == UNCHANGED ataVars

ReadPartition(master) ==
  /\ FatAt("start")
  /\ fat' = [fat EXCEPT !.at = "table", !.master = master]
  /\ Read28(master, 0, SectorBytes)

(* The magic number is right or not. *)
Table ==
  /\ FatAt("table")
  /\ \E where \in {"partition", "done"} : fat' = [fat EXCEPT !.at = where]
  /\ NoRead

EmptyPartition ==
  /\ FatAt("partition") /\ fat.partition < PartitionEntries
  /\ fat' = [fat EXCEPT !.partition = @ + 1]
  /\ NoRead

(* The call of ReadBiosBlock.  A block is 90 bytes. *)
ReadBiosBlock ==
  /\ FatAt("partition") /\ fat.partition < PartitionEntries
  /\ \E lba \in Lbas :
       /\ fat' = [fat EXCEPT !.at = "block", !.partition = @ + 1, !.lba = lba]
       /\ Read(lba, SectorBytes \div 4)

LastPartition ==
  /\ FatAt("partition") /\ fat.partition = PartitionEntries
  /\ fat' = [fat EXCEPT !.at = "done"]
  /\ NoRead

ReadRoot ==
  /\ FatAt("block")
  /\ \E bpb \in Blocks :
       LET fatStart  == fat.lba + bpb.reservedSectors
           dataStart == fatStart + bpb.tableSize * bpb.fatCopies
       IN  /\ fat' = [fat EXCEPT !.at = "entry", !.entry = 0,
                                 !.fatStart = Uint(fatStart), !.dataStart = Uint(dataStart),
                                 !.sectorsPerCluster = bpb.sectorsPerCluster]
           /\ Read(dataStart + bpb.sectorsPerCluster * (bpb.rootCluster - 2), SectorBytes)

Forget(f) == [f EXCEPT !.size = 0, !.SIZE = 0, !.cluster = 0, !.offset = 0, !.chain = <<>>]

(* There are no more entries; the model forgets the block. *)
LastEntry ==
  /\ FatAt("entry")
  /\ fat' = [fat EXCEPT !.at = "partition", !.entry = 0, !.lba = 0, !.fatStart = 0,
                        !.dataStart = 0, !.sectorsPerCluster = 0]
  /\ NoRead

(* Part of a long name, or a directory. *)
SkipEntry ==
  /\ FatAt("entry") /\ fat.entry < DirectoryEntries
  /\ fat' = [fat EXCEPT !.entry = @ + 1]
  /\ NoRead

File ==
  /\ FatAt("entry") /\ fat.entry < DirectoryEntries
  /\ \E cluster \in Clusters, size \in Sizes :
       fat' = [fat EXCEPT !.at = "cluster", !.entry = @ + 1, !.cluster = cluster,
                          !.chain = <<cluster>>, !.size = size, !.SIZE = size]
  /\ NoRead

(* Round the while loop: the first sector of the cluster. *)
Cluster ==
  /\ FatAt("cluster")
  /\ fat' = IF fat.SIZE > 0 THEN [fat EXCEPT !.at = "sector", !.offset = 0]
                            ELSE Forget([fat EXCEPT !.at = "entry"])
  /\ NoRead

FileSectorFromZero == fat.dataStart + fat.sectorsPerCluster * fat.cluster

FileSector == fat.dataStart + fat.sectorsPerCluster * (fat.cluster - 2)

LeavesAtEnd(offset) == offset >= fat.sectorsPerCluster

Leaves(offset) == offset > fat.sectorsPerCluster

(* Round the for loop.  A break does not take 512 off SIZE. *)
ReadSector ==
  /\ FatAt("sector") /\ fat.SIZE > 0
  /\ fat' = IF Leaves(fat.offset + 1)
              THEN [fat EXCEPT !.at = "next", !.offset = @ + 1]
              ELSE [fat EXCEPT !.offset = @ + 1, !.SIZE = @ - SectorBytes]
  /\ Read(FileSector + fat.offset, SectorBytes)

FileEnds ==
  /\ FatAt("sector") /\ fat.SIZE <= 0
  /\ fat' = [fat EXCEPT !.at = "next"]
  /\ NoRead

(* The entry of the table that follows is what was in memory, too; an      *)
(* entry has four bytes.  Empty clusters are not remembered.               *)
NextCluster ==
  /\ FatAt("next")
  /\ \E cluster \in Clusters :
       fat' = [fat EXCEPT !.at = "cluster", !.cluster = cluster, !.offset = 0,
                          !.chain = IF fat.sectorsPerCluster = 0 THEN <<cluster>>
                                                                 ELSE Append(@, cluster)]
  /\ Read(fat.fatStart + fat.cluster \div (SectorBytes \div 4), SectorBytes)

FatStep ==
  \/ Table \/ EmptyPartition \/ ReadBiosBlock \/ LastPartition
  \/ ReadRoot \/ LastEntry \/ SkipEntry \/ File
  \/ Cluster \/ ReadSector \/ FileEnds \/ NextCluster

-----------------------------------------------------------------------------
(* Properties *)

SectorOf(cluster, offset) ==
  Uint(fat.dataStart + fat.sectorsPerCluster * (cluster - 2) + offset)

Printed == fat.size - fat.SIZE

(* The sector asked for is the last one of those SIZE says are printed:    *)
(* that one of the n-th cluster of the file.                               *)
ReadsNextOfFile ==
  \E n \in 1..Len(fat.chain), offset \in 0..(fat.sectorsPerCluster - 1) :
    /\ Printed = SectorBytes * ((n - 1) * fat.sectorsPerCluster + (offset + 1))
    /\ ata.sector = SectorOf(fat.chain[n], offset)

(* It is the one behind the last cluster, of which all are printed.        *)
ReadsBehindCluster ==
  LET clusters == Len(fat.chain)
  IN  /\ Printed = SectorBytes * (clusters * fat.sectorsPerCluster)
      /\ ata.sector = SectorOf(fat.chain[clusters], fat.sectorsPerCluster)

(* The sectors the disk is asked for are those of the file, in the order   *)
(* of its clusters, none left out and none twice; but behind each cluster  *)
(* the loop reads (and prints) one sector more before it is left, which    *)
(* does not count, though "if the file is greater than a cluster we break  *)
(* the loop" (fat.cpp:78).                                                 *)
SectorsFollowFile ==
  ata.op = "READ" /\ fat.sectorsPerCluster # 0 =>
    /\ fat.at = "sector" => ReadsNextOfFile
    /\ fat.at = "next" => ReadsBehindCluster

(* A file of a block with empty clusters is read for ever. *)
Endless == fat.sectorsPerCluster = 0 /\ fat.SIZE > 0

=============================================================================
