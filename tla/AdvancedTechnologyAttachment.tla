-------------------- MODULE AdvancedTechnologyAttachment ---------------------
(***************************************************************************)
(* The disk driver (src/src/drivers/ata.cpp) and a bus with a master and a *)
(* slave.  A call writes the registers and the command, looks at the       *)
(* status until the disk is no longer busy, and moves one sector word by   *)
(* word.  What is read is printed, and nobody gets it.                     *)
(***************************************************************************)
EXTENDS Integers

CONSTANTS
  SectorBytes,  \* (512)
  ByteRange     \* a byte of a sector number counts up to this (256)

ASSUME AtaAssumption == {SectorBytes, ByteRange} \subseteq Nat \ {0} /\ SectorBytes % 2 = 0

SectorLimit == 16 * ByteRange^3   \* 28 bits

VARIABLES
  ata,    \* the driver's call: where it is, what was asked, the byte it moves next
  disk,   \* the registers and the state of the selected drive
  drives,    \* the drives there are
  hurried \* the disk got a command or a word it was not ready for (history)

ataVars == <<ata, disk, drives, hurried>>

AtaInit ==
  /\ ata = [at |-> "idle", op |-> "none", sector |-> 0, count |-> 0, i |-> 0]
  /\ disk = [master |-> TRUE, top |-> 0, hi |-> 0, mid |-> 0, low |-> 0,
             command |-> "none", state |-> "idle", words |-> 0]
  /\ drives = {}
  /\ hurried = FALSE

DrivesFound == drives' \in SUBSET {"master", "slave"} /\ UNCHANGED <<ata, disk, hurried>>

Idle == ata.at = "idle"

-----------------------------------------------------------------------------
(* The disk (external) *)

Present(d) == (IF d.master THEN "master" ELSE "slave") \in drives

(* A disk that is at work ignores a command. *)
Commanded(d, command) ==
  IF Present(d) /\ d.state \in {"idle", "error"}
    THEN [d EXCEPT !.command = command, !.state = "busy"]
    ELSE d

DiskReady ==
  /\ disk.state = "busy"
  /\ \E failed \in BOOLEAN :
       disk' = IF failed THEN [disk EXCEPT !.state = "error", !.words = 0]
               ELSE IF disk.command \in {"FLUSH", "STORE"} THEN [disk EXCEPT !.state = "idle"]
               ELSE [disk EXCEPT !.state = "data", !.words = SectorBytes \div 2]
  /\ UNCHANGED <<ata, drives, hurried>>

(* A word read that the disk has not offered counts below zero. *)
WordRead(d) ==
  [d EXCEPT !.words = @ - 1,
            !.state = IF d.state = "data" /\ d.words = 1 THEN "idle" ELSE @]

(* The last word written makes the disk store the sector. *)
WordWritten(d) ==
  IF d.state # "data" THEN d
  ELSE IF d.words > 1 THEN [d EXCEPT !.words = @ - 1]
  ELSE [d EXCEPT !.words = 0, !.state = "busy", !.command = "STORE"]

Sector(d) == ((d.top * ByteRange + d.hi) * ByteRange + d.mid) * ByteRange + d.low

-----------------------------------------------------------------------------
(* The driver *)

Calling(op, sector, count, at) ==
  ata' = [at |-> at, op |-> op, sector |-> sector, count |-> count, i |-> 0]

(* The number of the sector goes into four registers, or so it seems: the  *)
(* third byte overwrites the first one.                                    *)
Addressed(d, master, sector) ==
  [d EXCEPT !.master = master,
            !.top = (sector \div ByteRange^3) % 16,
            !.mid = (sector \div ByteRange) % ByteRange,
            !.low = (sector \div ByteRange^2) % ByteRange]

Command(d, command) ==
  /\ disk' = Commanded(d, command)
  /\ hurried' = (hurried \/ (Present(d) /\ d.state \in {"busy", "data"}))
  /\ UNCHANGED drives

(* No drive at all: the status is 255. *)
Identify(master) ==
  /\ Idle
  /\ IF drives = {} THEN UNCHANGED ataVars
     ELSE /\ Calling("IDENTIFY", 0, 0, "answer")
          /\ Command([disk EXCEPT !.master = master, !.top = 0, !.hi = 0, !.mid = 0,
                               !.low = 0], "IDENTIFY")

Read28(master, sector, count) ==
  /\ Idle
  /\ IF sector >= SectorLimit THEN UNCHANGED ataVars
     ELSE /\ Calling("READ", sector, count, "status")
          /\ Command(Addressed(disk, master, sector), "READ")

(* The words are written at once. *)
Write28(master, sector, count) ==
  /\ Idle
  /\ IF sector >= SectorLimit \/ count > SectorBytes THEN UNCHANGED ataVars
     ELSE /\ Calling("WRITE", sector, count, "transfer")
          /\ Command(Addressed(disk, master, sector), "WRITE")

Flush(master) ==
  /\ Idle
  /\ Calling("FLUSH", ata.sector, 0, "answer")
  /\ Command([disk EXCEPT !.master = master, !.top = 0], "FLUSH")

Return == ata' = [ata EXCEPT !.at = "idle", !.op = "none"]

(* Identify and Flush return if there is no status. *)
Answer ==
  /\ ata.at = "answer"
  /\ IF Present(disk) THEN ata' = [ata EXCEPT !.at = "status"] ELSE Return
  /\ UNCHANGED <<disk, drives, hurried>>

SettledWithoutError == Present(disk) => disk.state \notin {"busy", "error"}

(* The loop goes on while the disk is busy and reports no error.  Without  *)
(* any drive both bits are set, without this one neither is.               *)
Settled == Present(disk) => disk.state # "busy"

Status ==
  /\ ata.at = "status" /\ Settled
  /\ IF drives = {} \/ (Present(disk) /\ disk.state = "error") \/ ata.op = "FLUSH"
       THEN Return
       ELSE ata' = [ata EXCEPT !.at = "transfer"]
  /\ UNCHANGED <<disk, drives, hurried>>

MoreUnrounded == ata.i < ata.count \/ ata.i - (ata.count % 2) < SectorBytes

(* The first loop moves what was asked for, the second one what is left of *)
(* the sector, from the next even byte on.                                 *)
More == ata.i < ata.count \/ ata.i < SectorBytes

Transfer ==
  /\ ata.at = "transfer"
  /\ IF More
       THEN /\ ata' = [ata EXCEPT !.i = @ + 2]
            /\ IF ata.op = "WRITE"
                 THEN /\ disk' = IF Present(disk) THEN WordWritten(disk) ELSE disk
                      /\ hurried' = (hurried \/ (Present(disk) /\ disk.state # "data"))
                 ELSE /\ disk' = IF Present(disk) THEN WordRead(disk) ELSE disk
                      /\ UNCHANGED hurried
       ELSE Return /\ UNCHANGED <<disk, hurried>>
  /\ UNCHANGED drives

AtaStep == Answer \/ Status \/ Transfer

-----------------------------------------------------------------------------
(* Properties *)

(* Between two calls the disk has no word left to give and waits for none, *)
(* whatever number of bytes was asked for and whatever failed, unless it   *)
(* was hurried: Write28 and Flush do not wait until it is ready.           *)
SectorsTransferredWhole == Idle /\ ~hurried => disk.words = 0

(* The disk works on the sector that was asked for ("split the sector      *)
(* number and puts it into the three ports").                              *)
SectorAddressed ==
  ata.op \in {"READ", "WRITE"} => Sector(disk) = ata.sector

=============================================================================
