-------------------------- MODULE KernelMainProofs ---------------------------
(***************************************************************************)
(* kernelMain, whatever hardware it meets.                                 *)
(*                                                                         *)
(* Segments: what src/src/gdt.cpp packs into a descriptor comes out of it  *)
(* again, for every base and every limit of 32 bits.                       *)
(* Buses: the first card found is the first there is, and is where         *)
(* kernelMain looks for it; every card found has its port and its line.    *)
(* Keyboard and mouse: an invariant that follows the accesses of the two   *)
(* activations one by one shows that neither undoes what the other did.    *)
(* Graphics: what is written stays written, and crtc stays open.           *)
(* Disk: the drive has just the words left that the driver will move.      *)
(* Files: the sectors asked for are those of the clusters, in order.       *)
(***************************************************************************)
EXTENDS KernelMain, SequenceTheorems, FiniteSetTheorems, TLAPS

-----------------------------------------------------------------------------
(* A descriptor *)

(* A byte is a byte. *)
LEMMA ByteTyped ==
  ASSUME NEW n \in Nat, NEW i \in Int
  PROVE  Byte(n, i) \in 0..255
BY SMT DEF Byte

(* Four bytes make a base again. *)
LEMMA BytesMakeWord ==
  ASSUME NEW n, IsWord(n)
  PROVE  n = Byte(n, 3) * 16777216 + Byte(n, 2) * 65536 + Byte(n, 1) * 256 + Byte(n, 0)
BY SMT DEF IsWord, Byte

(* Two bytes and the low half of a third make a limit of 20 bits again. *)
LEMMA BytesMakePage ==
  ASSUME NEW n \in Nat, n \div 65536 < 16
  PROVE  n = (Byte(n, 2) % 16) * 65536 + Byte(n, 1) * 256 + Byte(n, 0)
<1>1. ((n \div 65536) % 256) % 16 = n \div 65536
  BY SMT
<1>2. n = (n \div 65536) * 65536 + ((n \div 256) % 256) * 256 + (n % 256)
  BY SMT
<1> QED
  BY <1>1, <1>2, SMT DEF Byte

(* A limit, as it is packed, has no more than 20 bits: taking one page off  *)
(* does not take it below zero.                                            *)
LEMMA PackedFits ==
  ASSUME NEW limit, IsWord(limit)
  PROVE  Packed(limit) \in Nat /\ Packed(limit) \div 65536 < 16
<1>1. limit \in Nat /\ limit \div 65536 < 65536
  BY SMT DEF IsWord
<1>2. CASE Granular(limit)
  <2>1. limit \div 4096 \in Nat /\ limit \div 4096 >= 16 /\ (limit \div 4096) \div 65536 < 16
    BY <1>1, <1>2, SMT DEF Granular
  <2>2. ((limit \div 4096) - 1) \div 65536 < 16
    BY <2>1, SMT
  <2> QED
    BY <1>2, <2>1, <2>2, SMT DEF Packed, Pages
<1>3. CASE ~Granular(limit)
  BY <1>1, <1>3, SMT DEF Granular, Packed
<1> QED
  BY <1>2, <1>3, SMT

(* Base() returns what SegmentDescriptor was given, Limit() no more than    *)
(* that and at most 4095 less, as the comment in the constructor says.     *)
THEOREM DescriptorDescribes ==
  ASSUME NEW base, IsWord(base), NEW limit, IsWord(limit), NEW type
  PROVE  Describes(SegmentDescriptor(base, limit, type), base, limit)
<1> DEFINE target == SegmentDescriptor(base, limit, type)
           packed == Packed(limit)
           flags  == IF Granular(limit) THEN 192 ELSE 64
<1>1. /\ target[0] = Byte(packed, 0) /\ target[1] = Byte(packed, 1)
      /\ target[2] = Byte(base, 0) /\ target[3] = Byte(base, 1) /\ target[4] = Byte(base, 2)
      /\ target[6] = flags + (Byte(packed, 2) % 16)
      /\ target[7] = Byte(base, 3)
  BY SMT DEF SegmentDescriptor
<1>2. Base(target) = base
  <2> HIDE DEF target
  <2> QED
    BY <1>1, BytesMakeWord, ByteTyped, SMT DEF Base
<1>3. packed \in Nat /\ packed \div 65536 < 16
  BY PackedFits, SMT
<1>4. Byte(packed, 2) \in 0..255
  <2> HIDE DEF packed
  <2> QED
    BY <1>3, SMT DEF Byte
<1>5. /\ target[6] % 16 = Byte(packed, 2) % 16
      /\ Granular(limit) => target[6] \div 64 = 3
      /\ ~Granular(limit) => target[6] \div 64 = 1
  <2> HIDE DEF packed, target
  <2> QED
    BY <1>1, <1>4, SMT
<1>6. packed = (target[6] % 16) * 65536 + target[1] * 256 + target[0]
  <2> HIDE DEF packed, target
  <2> QED
    BY <1>1, <1>3, <1>5, BytesMakePage, SMT
<1>7. Limit(target) = IF Granular(limit) THEN packed * 4096 + 4095 ELSE packed
  <2> HIDE DEF packed, target
  <2> QED
    BY <1>5, <1>6, SMT DEF Limit
<1>8. limit - 4095 <= Limit(target) /\ Limit(target) <= limit
  <2> HIDE DEF target
  <2> QED
    BY <1>7, SMT DEF Packed, Pages, Granular, IsWord
<1> QED
  BY <1>2, <1>8, SMT DEF Describes

-----------------------------------------------------------------------------
(* The table *)

(* The table, while kernelMain has done nothing but make it.                *)
TableMade ==
  place = "start" => gdt = [s \in Segments |-> SegmentDescriptor(s.base, s.limit, s.type)]

(* Nothing that comes later returns to that place or changes the table there. *)
LEMMA TableIsMade == Spec => []TableMade
<1>1. Init => TableMade
  BY SMT DEF Init, TableMade
<1>2. TableMade /\ [Next]_vars => TableMade'
  <2> SUFFICES ASSUME TableMade, [Next]_vars
               PROVE  TableMade'
    OBVIOUS
  <2>1. CASE UNCHANGED vars
    BY <2>1, Zenon DEF TableMade, vars
  <2>2. CASE LoadSegments
    BY <2>2, Zenon DEF LoadSegments, MakeDescriptors, TableMade
  <2>3. CASE AddDrivers
    BY <2>3, SMT DEF AddDrivers, Go, TableMade
  <2>4. CASE SelectDrivers
    <3>1. CASE Searched
      BY <2>4, <3>1, SMT DEF SelectDrivers, Go, TableMade
    <3>2. CASE ~Searched
      BY <2>4, <3>2, Zenon DEF SelectDrivers, TableMade
    <3> QED
      BY <3>1, <3>2
  <2>5. CASE Activate \/ ActivateDevice
    BY <2>5, Zenon DEF Activate, ActivateDevice, TableMade
  <2>6. CASE AllActive
    BY <2>6, SMT DEF AllActive, Go, TableMade
  <2>7. CASE SetMode
    <3>1. CASE ModeSet
      BY <2>7, <3>1, SMT DEF SetMode, Go, TableMade
    <3>2. CASE ~ModeSet
      BY <2>7, <3>2, Zenon DEF SetMode, TableMade
    <3> QED
      BY <3>1, <3>2
  <2>8. CASE UseDisk \/ ReadPartitions
    BY <2>8, Zenon DEF UseDisk, ReadPartitions, TableMade
  <2>9. CASE TakeCard
    BY <2>9, SMT DEF TakeCard, Go, TableMade
  <2>10. CASE ControllerStep \/ DiskStep
    BY <2>10, Zenon DEF ControllerStep, DiskStep, TableMade
  <2> QED
    BY <2>1, <2>2, <2>3, <2>4, <2>5, <2>6, <2>7, <2>8, <2>9, <2>10 DEF Next, Kernel
<1> QED
  BY <1>1, <1>2, PTL DEF Spec

(* Every descriptor of the table says what it was made for (gdt.cpp).       *)
THEOREM TableDescribes == Spec => []DescriptorsDescribe
<1>1. TableMade => DescriptorsDescribe
  <2> SUFFICES ASSUME TableMade, place = "start", NEW s \in Segments
               PROVE  Describes(gdt[s], s.base, s.limit)
    BY DEF DescriptorsDescribe, At
  <2>1. gdt[s] = SegmentDescriptor(s.base, s.limit, s.type)
    BY DEF TableMade
  <2>2. IsWord(s.base) /\ IsWord(s.limit)
    BY SegmentsAssumption
  <2> QED
    BY <2>1, <2>2, DescriptorDescribes, Zenon
<1> QED
  BY <1>1, TableIsMade, PTL

-----------------------------------------------------------------------------
(* Sequences *)

(* What is left of a list of accesses from the k-th on.                    *)
Rest(program, k) == SubSeq(program, k, Len(program))

(* The next access, and what is left after it.                             *)
LEMMA RestOfProgram ==
  ASSUME NEW T, NEW program \in Seq(T), NEW k \in 1..Len(program)
  PROVE  /\ Rest(program, k) # <<>> /\ Head(Rest(program, k)) = program[k]
         /\ Tail(Rest(program, k)) = Rest(program, k + 1)
<1>1. PICK n \in Nat : n = Len(program) /\ n \in k..n
  BY LenProperties, SMT
<1>2. /\ Head(Rest(program, k)) = program[k]
      /\ Tail(Rest(program, k)) = Rest(program, k + 1)
  BY <1>1, HeadTailOfSubSeq, Zenon DEF Rest
<1>3. Len(Rest(program, k)) = n - k + 1
  <2>1. \A i \in k..n : program[i] \in T
    BY <1>1, ElementOfSeq, SMT
  <2> QED
    BY <1>1, <2>1, SubSeqProperties, SMT DEF Rest
<1>4. Rest(program, k) # <<>>
  BY <1>1, <1>3, EmptySeq, SMT
<1> QED
  BY <1>2, <1>4, Zenon

(* Nothing is left behind the last access; at first all of them are.       *)
LEMMA RestEnds ==
  ASSUME NEW T, NEW program \in Seq(T)
  PROVE  Rest(program, Len(program) + 1) = <<>> /\ Rest(program, 1) = program
<1>1. Len(program) \in Nat
  BY LenProperties
<1>2. SubSeq(program, Len(program) + 1, Len(program)) = <<>>
  BY <1>1, SubSeqEmpty, SMT
<1> QED
  BY <1>2, SubSeqFull, Zenon DEF Rest

(* The accesses of KeyboardDriver::Activate, one by one.                   *)
LEMMA KeyboardProgram ==
  /\ \E T : KeyboardActivate \in Seq(T)
  /\ Len(KeyboardActivate) = 7
  /\ KeyboardActivate[1] = [port |-> "drain"]
  /\ KeyboardActivate[2] = Do("enable keyboard")
  /\ KeyboardActivate[3] = Do("read control byte")
  /\ KeyboardActivate[4] = [port |-> "read", of |-> "controller", set |-> {KeyboardInterrupt},
                            clear |-> {KeyboardOff}]
  /\ KeyboardActivate[5] = Do("write control byte")
  /\ KeyboardActivate[6] = [port |-> "write status"]
  /\ KeyboardActivate[7] = [port |-> "write"]
<1>1. ASSUME NEW a1, NEW a2, NEW a3, NEW a4, NEW a5, NEW a6, NEW a7
      PROVE  <<a1, a2, a3, a4, a5, a6, a7>> \in Seq({a1, a2, a3, a4, a5, a6, a7})
  BY SMT
<1>2. \E T : KeyboardActivate \in Seq(T)
  BY <1>1, Zenon DEF KeyboardActivate
<1>3. ASSUME NEW a1, NEW a2, NEW a3, NEW a4, NEW a5, NEW a6, NEW a7, NEW s,
             s = <<a1, a2, a3, a4, a5, a6, a7>>
      PROVE  /\ Len(s) = 7 /\ s[1] = a1 /\ s[2] = a2 /\ s[3] = a3 /\ s[4] = a4 /\ s[5] = a5
             /\ s[6] = a6 /\ s[7] = a7
  BY <1>3, SMT
<1> QED
  BY <1>2, <1>3, Zenon DEF KeyboardActivate

(* The accesses of MouseDriver::Activate, one by one.                      *)
LEMMA MouseProgram ==
  /\ \E T : MouseActivate \in Seq(T)
  /\ Len(MouseActivate) = 8
  /\ MouseActivate[1] = Do("enable mouse")
  /\ MouseActivate[2] = Do("read control byte")
  /\ MouseActivate[3] = [port |-> "read", of |-> "controller", set |-> {MouseInterrupt},
                         clear |-> {}]
  /\ MouseActivate[4] = Do("write control byte")
  /\ MouseActivate[5] = [port |-> "write status"]
  /\ MouseActivate[6] = Do("write to mouse")
  /\ MouseActivate[7] = [port |-> "write"]
  /\ MouseActivate[8] = [port |-> "read", of |-> "mouse", set |-> {}, clear |-> {}]
<1>1. ASSUME NEW a1, NEW a2, NEW a3, NEW a4, NEW a5, NEW a6, NEW a7, NEW a8
      PROVE  <<a1, a2, a3, a4, a5, a6, a7, a8>> \in Seq({a1, a2, a3, a4, a5, a6, a7, a8})
  BY SMT
<1>2. \E T : MouseActivate \in Seq(T)
  BY <1>1, Zenon DEF MouseActivate
<1>3. ASSUME NEW a1, NEW a2, NEW a3, NEW a4, NEW a5, NEW a6, NEW a7, NEW a8, NEW s,
             s = <<a1, a2, a3, a4, a5, a6, a7, a8>>
      PROVE  /\ Len(s) = 8 /\ s[1] = a1 /\ s[2] = a2 /\ s[3] = a3 /\ s[4] = a4 /\ s[5] = a5
             /\ s[6] = a6 /\ s[7] = a7 /\ s[8] = a8
  BY <1>3, SMT
<1> QED
  BY <1>2, <1>3, Zenon DEF MouseActivate

(* Append adds one element behind the others.                              *)
LEMMA AppendedTo ==
  ASSUME NEW T, NEW s \in Seq(T), NEW e
  PROVE  /\ Append(s, e) \in Seq(T \cup {e}) /\ Len(Append(s, e)) = Len(s) + 1
         /\ \A i \in 1..Len(s) : Append(s, e)[i] = s[i]
         /\ Append(s, e)[Len(s) + 1] = e
<1>1. s \in Seq(T \cup {e}) /\ e \in T \cup {e}
  BY SeqMonotonic, Zenon
<1> QED
  BY <1>1, AppendProperties, LenProperties, SMT

-----------------------------------------------------------------------------
(* Keyboard and mouse *)

(* The keyboard's and the mouse's bits, after so many activations.         *)
On(byte, n) ==
  /\ n >= 1 => KeyboardInterrupt \in byte /\ KeyboardOff \notin byte
  /\ n >= 2 => MouseInterrupt \in byte /\ MouseOff \notin byte

(* The devices told to report, after so many activations.                  *)
Told(n) ==
  /\ n >= 1 => "keyboard" \in reporting
  /\ n >= 2 => "mouse" \in reporting

(* The data port's byte is one of the controller's.                        *)
Shown == unread /\ output.of = "controller"

(* No control byte is on its way to the drivers.                           *)
NoneAsked == "controller" \notin answering /\ ~Shown

(* One control byte is on its way, and it is the one there is.             *)
OneAsked ==
  IF "controller" \in answering THEN ~Shown ELSE Shown /\ output.byte = controlByte

(* KeyboardDriver::Activate before its k-th access: what it may count on.  *)
InKeyboard(k) ==
  /\ ops = Rest(KeyboardActivate, k) /\ active >= 1 /\ active # 2
  /\ On(controlByte, IF k <= 6 THEN active - 1 ELSE active) /\ Told(active - 1)
  /\ IF k = 4 THEN OneAsked ELSE NoneAsked
  /\ k = 5 \/ k = 6 => On(status, active)
  /\ expects = IF k = 6 THEN "controller" ELSE "keyboard"

(* The same for MouseDriver::Activate, which must not undo the keyboard's. *)
InMouse(k) ==
  /\ ops = Rest(MouseActivate, k) /\ active >= 2
  /\ On(controlByte, IF k <= 5 THEN active - 1 ELSE active)
  /\ Told(IF k <= 7 THEN active - 1 ELSE active)
  /\ k = 2 \/ k = 3 => MouseOff \notin controlByte
  /\ IF k = 3 THEN OneAsked ELSE NoneAsked
  /\ k = 4 \/ k = 5 => On(status, active)
  /\ expects = IF k = 5 THEN "controller" ELSE IF k = 7 THEN "mouse" ELSE "keyboard"

(* No activation is under way.                                             *)
BetweenTwo ==
  ops = <<>> /\ On(controlByte, active) /\ Told(active) /\ NoneAsked /\ expects = "keyboard"

(* Where ActivateAll is.                                                   *)
Phase ==
  BetweenTwo \/ (\E k \in 1..7 : InKeyboard(k)) \/ (\E k \in 1..8 : InMouse(k))

(* ------- what a step of Activate does, by the access it has come to      *)
LEMMA PortDrains ==
  ASSUME Port, Head(ops) = [port |-> "drain"]
  PROVE  Drain
<1>1. PICK op : op = Head(ops) /\ op = [port |-> "drain"]
  BY Zenon
<1>2. op.port = "drain"
  BY <1>1, SMT
<1>3. op.port # "command" /\ op.port # "write" /\ op.port # "write status" /\ op.port # "read"
  BY <1>2, SMT
<1> QED
  BY <1>1, <1>2, <1>3, Zenon DEF Port, ReadData

(* A command to the controller.                                            *)
LEMMA PortCommands ==
  ASSUME Port, NEW code, Head(ops) = Do(code)
  PROVE  ops' = Tail(ops) /\ ControllerCommand(code)
<1>1. PICK op : op = Head(ops) /\ op = Do(code)
  BY Zenon
<1>2. op.port = "command" /\ op.code = code
  BY <1>1, SMT DEF Do
<1>3. op.port # "drain" /\ op.port # "write" /\ op.port # "write status" /\ op.port # "read"
  BY <1>2, SMT
<1> QED
  BY <1>1, <1>2, <1>3, Zenon DEF Port, ReadData, Drain

(* A byte to a device.                                                     *)
LEMMA PortWrites ==
  ASSUME Port, Head(ops) = [port |-> "write"]
  PROVE  ops' = Tail(ops) /\ Data(EnableReporting)
<1>1. PICK op : op = Head(ops) /\ op = [port |-> "write"]
  BY Zenon
<1>2. op.port = "write"
  BY <1>1, SMT
<1>3. op.port # "drain" /\ op.port # "command" /\ op.port # "write status" /\ op.port # "read"
  BY <1>2, SMT
<1> QED
  BY <1>1, <1>2, <1>3, Zenon DEF Port, ReadData, Drain

(* The field of a record that has no other.                                *)
LEMMA PortOf ==
  ASSUME NEW value
  PROVE  [port |-> value].port = value
  BY SMT

(* The control byte, changed.                                              *)
LEMMA PortWritesStatus ==
  ASSUME Port, Head(ops) = [port |-> "write status"]
  PROVE  ops' = Tail(ops) /\ Data(status)
<1>1. PICK op : op = Head(ops) /\ op = [port |-> "write status"]
  BY Zenon
<1>2. op.port = "write status"
  BY <1>1, PortOf, Zenon
<1>3. op.port # "drain" /\ op.port # "command" /\ op.port # "write" /\ op.port # "read"
  BY <1>2, Zenon
<1> QED
  BY <1>1, <1>2, <1>3, Zenon DEF Port, ReadData, Drain

(* A byte is read from the data port, whosever it is.                      *)
LEMMA PortReads ==
  ASSUME Port, NEW source, NEW set, NEW clear,
         Head(ops) = [port |-> "read", of |-> source, set |-> set, clear |-> clear]
  PROVE  /\ ops' = Tail(ops) /\ status' = (output.byte \ clear) \cup set
         /\ unread' = FALSE /\ mistaken' = (mistaken \/ ~unread \/ output.of # source)
         /\ UNCHANGED <<controlByte, reporting, expects, answering, output>>
<1>1. PICK op : /\ op = Head(ops)
                /\ op = [port |-> "read", of |-> source, set |-> set, clear |-> clear]
  BY Zenon
<1>2. op.port = "read" /\ op.of = source /\ op.set = set /\ op.clear = clear
  BY <1>1, SMT
<1>3. op.port # "drain" /\ op.port # "command" /\ op.port # "write" /\ op.port # "write status"
  BY <1>2, SMT
<1>4. ops' = Tail(ops) /\ ReadData
  BY <1>1, <1>3, Zenon DEF Port, Drain
<1> QED
  BY <1>1, <1>2, <1>4, Zenon DEF ReadData

(* Commands that answer nothing and do not touch the control byte's bits.  *)
LEMMA NoneAskedByData ==
  ASSUME NoneAsked, expects # "controller", NEW byte, Data(byte)
  PROVE  NoneAsked' /\ controlByte' = controlByte /\ expects' = "keyboard" /\ status' = status
         /\ mistaken' = mistaken
<1>1. /\ controlByte' = controlByte /\ answering' = answering \cup {expects}
      /\ expects' = "keyboard" /\ UNCHANGED <<status, output, unread, mistaken>>
  BY Zenon DEF Data
<1> QED
  BY <1>1, SMT DEF NoneAsked, Shown

(* The byte goes to the controller, if that expects it.                    *)
LEMMA ControlWritten ==
  ASSUME NoneAsked, expects = "controller", NEW byte, Data(byte)
  PROVE  NoneAsked' /\ controlByte' = byte /\ expects' = "keyboard" /\ mistaken' = mistaken
  BY Zenon DEF Data, NoneAsked, Shown

(* A command but the one that asks for the control byte.                   *)
LEMMA Commanding ==
  ASSUME NoneAsked, NEW code, ControllerCommand(code), code # "read control byte"
  PROVE  NoneAsked' /\ status' = status /\ mistaken' = mistaken
  BY Zenon DEF ControllerCommand, NoneAsked, Shown

(* The controller is asked for its control byte.                           *)
LEMMA ControlAsked ==
  ASSUME NoneAsked, NEW code, code = "read control byte", ControllerCommand(code)
  PROVE  OneAsked' /\ controlByte' = controlByte /\ expects' = "keyboard" /\ mistaken' = mistaken
<1>1. /\ code # "enable keyboard" /\ code # "enable mouse" /\ code # "write control byte"
      /\ code # "write to mouse"
  BY Zenon
<1>2. /\ controlByte' = controlByte /\ expects' = "keyboard"
      /\ answering' = answering \cup {"controller"}
      /\ UNCHANGED <<status, output, unread, mistaken>>
  BY <1>1, Zenon DEF ControllerCommand
<1>3. "controller" \in answering' /\ ~Shown'
  BY <1>2, Zenon DEF NoneAsked, Shown
<1> QED
  BY <1>2, <1>3, Zenon DEF OneAsked

(* An answer that is the one that was wanted.                              *)
LEMMA ControlRead ==
  ASSUME OneAsked, NEW set, NEW clear,
         status' = (output.byte \ clear) \cup set,
         unread' = FALSE, mistaken' = (mistaken \/ ~unread \/ output.of # "controller"),
         UNCHANGED <<controlByte, expects, answering, output>>, ~mistaken'
  PROVE  NoneAsked' /\ status' = (controlByte \ clear) \cup set
  BY Zenon DEF NoneAsked, OneAsked, Shown

(* An access of a driver never makes a device stop reporting.              *)
LEMMA ReportingGrows ==
  ASSUME Port
  PROVE  reporting \subseteq reporting'
<1>1. CASE Drain \/ ReadData
  BY <1>1, Zenon DEF Drain, ReadData
<1>2. ASSUME NEW code, ControllerCommand(code)
      PROVE  reporting' = reporting
  BY <1>2, Zenon DEF ControllerCommand
<1>3. ASSUME NEW byte, Data(byte)
      PROVE  reporting \subseteq reporting'
  BY <1>3, SMT DEF Data
<1> QED
  BY <1>1, <1>2, <1>3, Zenon DEF Port

(* So what has been told stays told.                                       *)
LEMMA ToldKept ==
  ASSUME NEW n, Told(n), active' = active, reporting \subseteq reporting'
  PROVE  (n >= 1 => "keyboard" \in reporting') /\ (n >= 2 => "mouse" \in reporting')
  BY SMT DEF Told

(* The byte 0xF4 reaches the device that the next byte is for.             *)
LEMMA ReportingWritten ==
  ASSUME expects # "controller", Data(EnableReporting)
  PROVE  reporting' = reporting \cup {expects}
  BY Zenon DEF Data

(* The keyboard's k-th access is the next.                                 *)
LEMMA KeyboardGoesOn ==
  ASSUME NEW k \in 1..7, InKeyboard(k)
  PROVE  /\ Head(ops) = KeyboardActivate[k] /\ Tail(ops) = Rest(KeyboardActivate, k + 1)
         /\ Rest(KeyboardActivate, 8) = <<>>
<1>1. PICK T : KeyboardActivate \in Seq(T)
  BY KeyboardProgram, Zenon
<1>2. Len(KeyboardActivate) = 7
  BY KeyboardProgram, Zenon
<1>3. k \in 1..Len(KeyboardActivate) /\ Len(KeyboardActivate) + 1 = 8
  BY <1>2, SMT
<1> QED
  BY <1>1, <1>3, RestOfProgram, RestEnds, ZenonT(40) DEF InKeyboard

(* The mouse's k-th access is the next.                                    *)
LEMMA MouseGoesOn ==
  ASSUME NEW k \in 1..8, InMouse(k)
  PROVE  /\ Head(ops) = MouseActivate[k] /\ Tail(ops) = Rest(MouseActivate, k + 1)
         /\ Rest(MouseActivate, 9) = <<>>
<1>1. PICK T : MouseActivate \in Seq(T)
  BY MouseProgram, Zenon
<1>2. Len(MouseActivate) = 8
  BY MouseProgram, Zenon
<1>3. k \in 1..Len(MouseActivate) /\ Len(MouseActivate) + 1 = 9
  BY <1>2, SMT
<1> QED
  BY <1>1, <1>3, RestOfProgram, RestEnds, ZenonT(40) DEF InMouse

(* Each access of the keyboard's activation leads to its next, or ends it. *)
LEMMA KeyboardStep ==
  ASSUME NEW k \in 1..7, InKeyboard(k), Port, active \in Nat, active' = active, ~mistaken'
  PROVE  Phase'
<1>1. PICK n : n = k + 1
  BY Zenon
<1>2. /\ Head(ops) = KeyboardActivate[k] /\ Tail(ops) = Rest(KeyboardActivate, n)
      /\ Rest(KeyboardActivate, 8) = <<>>
  BY <1>1, KeyboardGoesOn, Zenon
<1>3. /\ ops = Rest(KeyboardActivate, k) /\ active >= 1 /\ active # 2
      /\ On(controlByte, IF k <= 6 THEN active - 1 ELSE active)
      /\ IF k = 4 THEN OneAsked ELSE NoneAsked
      /\ k = 5 \/ k = 6 => On(status, active)
      /\ expects = IF k = 6 THEN "controller" ELSE "keyboard"
      /\ Told(active - 1)
  BY Zenon DEF InKeyboard
<1>13. Told(active - 1)'
  <2>1. active - 1 \in Int /\ reporting \subseteq reporting'
    BY ReportingGrows, SMT
  <2> QED
    BY <1>3, <2>1, SMT DEF Told
<1>4. k = 1 \/ k = 2 \/ k = 3 \/ k = 4 \/ k = 5 \/ k = 6 \/ k = 7
  BY SMT
<1>5. ASSUME NEW j \in 1..7, InKeyboard(j)'
      PROVE  Phase'
  BY <1>5, Zenon DEF Phase
<1>6. CASE k = 1
  <2>1. Drain
    BY <1>2, <1>6, KeyboardProgram, PortDrains, Zenon
  <2>2. /\ ops' = ops \/ ops' = Tail(ops)
        /\ unread' = FALSE /\ UNCHANGED <<controlByte, expects, answering>>
    BY <2>1, Zenon DEF Drain
  <2>3. NoneAsked /\ expects = "keyboard" /\ On(controlByte, active - 1)
    BY <1>3, <1>6, SMT
  <2>4. NoneAsked' /\ On(controlByte, active - 1)' /\ expects' = "keyboard"
    BY <2>2, <2>3, SMT DEF NoneAsked, Shown, On
  <2>5. n = 2
    BY <1>1, <1>6
  <2>6. ops' = Rest(KeyboardActivate, 1) \/ ops' = Rest(KeyboardActivate, 2)
    BY <1>2, <1>3, <1>6, <2>2, <2>5, Zenon
  <2>7. InKeyboard(1)' \/ InKeyboard(2)'
    BY <1>3, <1>13, <2>4, <2>6, SMT DEF InKeyboard
  <2> QED
    BY <1>5, <2>7, SMT
<1>7. CASE k = 2
  <2>1. ops' = Tail(ops) /\ ControllerCommand("enable keyboard")
    BY <1>2, <1>7, KeyboardProgram, PortCommands, Zenon
  <2>2. NoneAsked /\ On(controlByte, active - 1)
    BY <1>3, <1>7, SMT
  <2>3. NoneAsked' /\ status' = status
    <3>1. "enable keyboard" # "read control byte"
      BY SMT
    <3> QED
      BY <2>1, <2>2, <3>1, Commanding, Zenon
  <2>4. controlByte' = controlByte \ {KeyboardOff} /\ expects' = "keyboard"
    BY <2>1, SMT DEF ControllerCommand
  <2>5. On(controlByte, active - 1)'
    BY <1>3, <2>2, <2>4, SMT DEF On, KeyboardOff, KeyboardInterrupt, MouseOff, MouseInterrupt
  <2>6. n = 3
    BY <1>1, <1>7
  <2>7. ops' = Rest(KeyboardActivate, 3)
    BY <1>2, <2>1, <2>6, Zenon
  <2>8. InKeyboard(3)'
    BY <1>3, <1>13, <2>3, <2>4, <2>5, <2>7, SMT DEF InKeyboard
  <2> QED
    BY <1>5, <2>8, SMT
<1>8. CASE k = 3
  <2>1. ops' = Tail(ops) /\ ControllerCommand("read control byte")
    BY <1>2, <1>8, KeyboardProgram, PortCommands, Zenon
  <2>2. NoneAsked /\ On(controlByte, active - 1)
    BY <1>3, <1>8, SMT
  <2>3. OneAsked' /\ controlByte' = controlByte /\ expects' = "keyboard"
    BY <2>1, <2>2, ControlAsked, Zenon
  <2>4. On(controlByte, active - 1)'
    BY <2>2, <2>3, SMT
  <2>5. n = 4
    BY <1>1, <1>8
  <2>6. ops' = Rest(KeyboardActivate, 4)
    BY <1>2, <2>1, <2>5, Zenon
  <2>7. InKeyboard(4)'
    BY <1>3, <1>13, <2>3, <2>4, <2>6, SMT DEF InKeyboard
  <2> QED
    BY <1>5, <2>7, SMT
<1>9. CASE k = 4
  <2>1. /\ ops' = Tail(ops)
        /\ status' = (output.byte \ {KeyboardOff}) \cup {KeyboardInterrupt}
        /\ unread' = FALSE /\ mistaken' = (mistaken \/ ~unread \/ output.of # "controller")
        /\ UNCHANGED <<controlByte, expects, answering, output>>
    <3>1. Head(ops) = [port |-> "read", of |-> "controller", set |-> {KeyboardInterrupt},
                       clear |-> {KeyboardOff}]
      BY <1>2, <1>9, KeyboardProgram, Zenon
    <3> QED
      BY <3>1, PortReads, Zenon
  <2>2. OneAsked /\ On(controlByte, active - 1) /\ expects = "keyboard"
    BY <1>3, <1>9, SMT
  <2>3. NoneAsked' /\ status' = (controlByte \ {KeyboardOff}) \cup {KeyboardInterrupt}
    BY <2>1, <2>2, ControlRead, Zenon
  <2>4. On(status, active)' /\ On(controlByte, active - 1)' /\ expects' = "keyboard"
    <3>1. On(status, active)'
      BY <1>3, <2>2, <2>3, SMT DEF On, KeyboardOff, KeyboardInterrupt, MouseOff, MouseInterrupt
    <3> QED
      BY <2>1, <2>2, <3>1, SMT
  <2>5. n = 5
    BY <1>1, <1>9
  <2>6. ops' = Rest(KeyboardActivate, 5)
    BY <1>2, <2>1, <2>5, Zenon
  <2>7. InKeyboard(5)'
    BY <1>3, <1>13, <2>3, <2>4, <2>6, SMT DEF InKeyboard
  <2> QED
    BY <1>5, <2>7, SMT
<1>10. CASE k = 5
  <2>1. ops' = Tail(ops) /\ ControllerCommand("write control byte")
    BY <1>2, <1>10, KeyboardProgram, PortCommands, Zenon
  <2>2. NoneAsked /\ On(controlByte, active - 1) /\ On(status, active)
    BY <1>3, <1>10, SMT
  <2>3. NoneAsked' /\ status' = status
    <3>1. "write control byte" # "read control byte"
      BY SMT
    <3> QED
      BY <2>1, <2>2, <3>1, Commanding, Zenon
  <2>4. controlByte' = controlByte /\ expects' = "controller"
    BY <2>1, SMT DEF ControllerCommand
  <2>5. On(controlByte, active - 1)' /\ On(status, active)'
    BY <2>2, <2>3, <2>4, SMT
  <2>6. n = 6
    BY <1>1, <1>10
  <2>7. ops' = Rest(KeyboardActivate, 6)
    BY <1>2, <2>1, <2>6, Zenon
  <2>8. InKeyboard(6)'
    BY <1>3, <1>13, <2>3, <2>4, <2>5, <2>7, SMT DEF InKeyboard
  <2> QED
    BY <1>5, <2>8, SMT
<1>11. CASE k = 6
  <2>1. ops' = Tail(ops) /\ Data(status)
    BY <1>2, <1>11, KeyboardProgram, PortWritesStatus, Zenon
  <2>2. NoneAsked /\ On(status, active) /\ expects = "controller"
    BY <1>3, <1>11, SMT
  <2>3. NoneAsked' /\ controlByte' = status /\ expects' = "keyboard"
    BY <2>1, <2>2, ControlWritten, Zenon
  <2>4. On(controlByte, active)'
    BY <2>2, <2>3, SMT
  <2>5. n = 7
    BY <1>1, <1>11
  <2>6. ops' = Rest(KeyboardActivate, 7)
    BY <1>2, <2>1, <2>5, Zenon
  <2>7. InKeyboard(7)'
    BY <1>3, <1>13, <2>3, <2>4, <2>6, SMT DEF InKeyboard
  <2> QED
    BY <1>5, <2>7, SMT
<1>12. CASE k = 7
  <2>1. ops' = Tail(ops) /\ Data(EnableReporting)
    BY <1>2, <1>12, KeyboardProgram, PortWrites, Zenon
  <2>2. NoneAsked /\ On(controlByte, active) /\ expects = "keyboard"
    BY <1>3, <1>12, SMT
  <2>3. expects # "controller"
    BY <2>2, SMT
  <2>4. NoneAsked' /\ controlByte' = controlByte /\ expects' = "keyboard"
    BY <2>1, <2>2, <2>3, NoneAskedByData, Zenon
  <2>5. On(controlByte, active)'
    BY <2>2, <2>4, SMT
  <2>6. n = 8
    BY <1>1, <1>12
  <2>7. ops' = <<>>
    BY <1>2, <2>1, <2>6, Zenon
  <2>8. reporting' = reporting \cup {"keyboard"}
    BY <2>1, <2>2, <2>3, ReportingWritten, Zenon
  <2>9. Told(active)'
    BY <1>3, <2>8, SMT DEF Told
  <2>10. BetweenTwo'
    BY <2>4, <2>5, <2>7, <2>9, Zenon DEF BetweenTwo
  <2> QED
    BY <2>10, Zenon DEF Phase
<1> QED
  BY <1>4, <1>6, <1>7, <1>8, <1>9, <1>10, <1>11, <1>12, Zenon

(* Each access of the mouse's activation leads to its next, or ends it.    *)
LEMMA MouseStep ==
  ASSUME NEW k \in 1..8, InMouse(k), Port, active \in Nat, active' = active, ~mistaken'
  PROVE  Phase'
<1>1. PICK n : n = k + 1
  BY Zenon
<1>2. /\ Head(ops) = MouseActivate[k] /\ Tail(ops) = Rest(MouseActivate, n)
      /\ Rest(MouseActivate, 9) = <<>>
  BY <1>1, MouseGoesOn, Zenon
<1>3. /\ active >= 2
      /\ On(controlByte, IF k <= 5 THEN active - 1 ELSE active)
      /\ k = 2 \/ k = 3 => MouseOff \notin controlByte
      /\ IF k = 3 THEN OneAsked ELSE NoneAsked
      /\ k = 4 \/ k = 5 => On(status, active)
      /\ expects = IF k = 5 THEN "controller" ELSE IF k = 7 THEN "mouse" ELSE "keyboard"
      /\ Told(IF k <= 7 THEN active - 1 ELSE active)
  BY Zenon DEF InMouse
<1>14. k <= 7 => Told(active - 1)'
  <2>1. active - 1 \in Int /\ reporting \subseteq reporting'
    BY ReportingGrows, SMT
  <2> QED
    BY <1>3, <2>1, SMT DEF Told
<1>4. k = 1 \/ k = 2 \/ k = 3 \/ k = 4 \/ k = 5 \/ k = 6 \/ k = 7 \/ k = 8
  BY SMT
<1>5. ASSUME NEW j \in 1..8, InMouse(j)'
      PROVE  Phase'
  BY <1>5, Zenon DEF Phase
<1>6. CASE k = 1
  <2>1. ops' = Tail(ops) /\ ControllerCommand("enable mouse")
    BY <1>2, <1>6, MouseProgram, PortCommands, Zenon
  <2>2. NoneAsked /\ On(controlByte, active - 1)
    BY <1>3, <1>6, SMT
  <2>3. NoneAsked' /\ status' = status
    <3>1. "enable mouse" # "read control byte"
      BY SMT
    <3> QED
      BY <2>1, <2>2, <3>1, Commanding, Zenon
  <2>4. controlByte' = controlByte \ {MouseOff} /\ expects' = "keyboard"
    BY <2>1, SMT DEF ControllerCommand
  <2>5. On(controlByte, active - 1)' /\ MouseOff \notin controlByte'
    BY <1>3, <2>2, <2>4, SMT DEF On, KeyboardOff, KeyboardInterrupt, MouseOff, MouseInterrupt
  <2>6. n = 2
    BY <1>1, <1>6
  <2>7. ops' = Rest(MouseActivate, 2)
    BY <1>2, <2>1, <2>6, Zenon
  <2>8. InMouse(2)'
    BY <1>3, <1>14, <1>6, <2>3, <2>4, <2>5, <2>7, SMT DEF InMouse
  <2> QED
    BY <1>5, <2>8, SMT
<1>7. CASE k = 2
  <2>1. ops' = Tail(ops) /\ ControllerCommand("read control byte")
    BY <1>2, <1>7, MouseProgram, PortCommands, Zenon
  <2>2. NoneAsked /\ On(controlByte, active - 1) /\ MouseOff \notin controlByte
    BY <1>3, <1>7, SMT
  <2>3. OneAsked' /\ controlByte' = controlByte /\ expects' = "keyboard"
    BY <2>1, <2>2, ControlAsked, Zenon
  <2>4. On(controlByte, active - 1)' /\ MouseOff \notin controlByte'
    BY <2>2, <2>3, SMT
  <2>5. n = 3
    BY <1>1, <1>7
  <2>6. ops' = Rest(MouseActivate, 3)
    BY <1>2, <2>1, <2>5, Zenon
  <2>7. InMouse(3)'
    BY <1>3, <1>14, <1>7, <2>3, <2>4, <2>6, SMT DEF InMouse
  <2> QED
    BY <1>5, <2>7, SMT
<1>8. CASE k = 3
  <2>1. /\ ops' = Tail(ops)
        /\ status' = (output.byte \ {}) \cup {MouseInterrupt}
        /\ unread' = FALSE /\ mistaken' = (mistaken \/ ~unread \/ output.of # "controller")
        /\ UNCHANGED <<controlByte, expects, answering, output>>
    <3>1. Head(ops) = [port |-> "read", of |-> "controller", set |-> {MouseInterrupt}, clear |-> {}]
      BY <1>2, <1>8, MouseProgram, Zenon
    <3> QED
      BY <3>1, PortReads, Zenon
  <2>2. /\ OneAsked /\ On(controlByte, active - 1) /\ expects = "keyboard"
        /\ MouseOff \notin controlByte
    BY <1>3, <1>8, SMT
  <2>3. NoneAsked' /\ status' = (controlByte \ {}) \cup {MouseInterrupt}
    BY <2>1, <2>2, ControlRead, Zenon
  <2>4. On(status, active)' /\ On(controlByte, active - 1)' /\ expects' = "keyboard"
    <3>1. On(status, active)'
      BY <1>3, <2>2, <2>3, SMT DEF On, KeyboardOff, KeyboardInterrupt, MouseOff, MouseInterrupt
    <3> QED
      BY <2>1, <2>2, <3>1, SMT
  <2>5. n = 4
    BY <1>1, <1>8
  <2>6. ops' = Rest(MouseActivate, 4)
    BY <1>2, <2>1, <2>5, Zenon
  <2>7. InMouse(4)'
    BY <1>3, <1>14, <1>8, <2>3, <2>4, <2>6, SMT DEF InMouse
  <2> QED
    BY <1>5, <2>7, SMT
<1>9. CASE k = 4
  <2>1. ops' = Tail(ops) /\ ControllerCommand("write control byte")
    BY <1>2, <1>9, MouseProgram, PortCommands, Zenon
  <2>2. NoneAsked /\ On(controlByte, active - 1) /\ On(status, active)
    BY <1>3, <1>9, SMT
  <2>3. NoneAsked' /\ status' = status
    <3>1. "write control byte" # "read control byte"
      BY SMT
    <3> QED
      BY <2>1, <2>2, <3>1, Commanding, Zenon
  <2>4. controlByte' = controlByte /\ expects' = "controller"
    BY <2>1, SMT DEF ControllerCommand
  <2>5. On(controlByte, active - 1)' /\ On(status, active)'
    BY <2>2, <2>3, <2>4, SMT
  <2>6. n = 5
    BY <1>1, <1>9
  <2>7. ops' = Rest(MouseActivate, 5)
    BY <1>2, <2>1, <2>6, Zenon
  <2>8. InMouse(5)'
    BY <1>3, <1>14, <1>9, <2>3, <2>4, <2>5, <2>7, SMT DEF InMouse
  <2> QED
    BY <1>5, <2>8, SMT
<1>10. CASE k = 5
  <2>1. ops' = Tail(ops) /\ Data(status)
    BY <1>2, <1>10, MouseProgram, PortWritesStatus, Zenon
  <2>2. NoneAsked /\ On(status, active) /\ expects = "controller"
    BY <1>3, <1>10, SMT
  <2>3. NoneAsked' /\ controlByte' = status /\ expects' = "keyboard"
    BY <2>1, <2>2, ControlWritten, Zenon
  <2>4. On(controlByte, active)'
    BY <2>2, <2>3, SMT
  <2>5. n = 6
    BY <1>1, <1>10
  <2>6. ops' = Rest(MouseActivate, 6)
    BY <1>2, <2>1, <2>5, Zenon
  <2>7. InMouse(6)'
    BY <1>3, <1>14, <1>10, <2>3, <2>4, <2>6, SMT DEF InMouse
  <2> QED
    BY <1>5, <2>7, SMT
<1>11. CASE k = 6
  <2>1. ops' = Tail(ops) /\ ControllerCommand("write to mouse")
    BY <1>2, <1>11, MouseProgram, PortCommands, Zenon
  <2>2. NoneAsked /\ On(controlByte, active)
    BY <1>3, <1>11, SMT
  <2>3. NoneAsked' /\ status' = status
    <3>1. "write to mouse" # "read control byte"
      BY SMT
    <3> QED
      BY <2>1, <2>2, <3>1, Commanding, Zenon
  <2>4. controlByte' = controlByte /\ expects' = "mouse"
    BY <2>1, SMT DEF ControllerCommand
  <2>5. On(controlByte, active)'
    BY <2>2, <2>4, SMT
  <2>6. n = 7
    BY <1>1, <1>11
  <2>7. ops' = Rest(MouseActivate, 7)
    BY <1>2, <2>1, <2>6, Zenon
  <2>8. InMouse(7)'
    BY <1>3, <1>14, <1>11, <2>3, <2>4, <2>5, <2>7, SMT DEF InMouse
  <2> QED
    BY <1>5, <2>8, SMT
<1>12. CASE k = 7
  <2>1. ops' = Tail(ops) /\ Data(EnableReporting)
    BY <1>2, <1>12, MouseProgram, PortWrites, Zenon
  <2>2. NoneAsked /\ On(controlByte, active) /\ expects = "mouse"
    BY <1>3, <1>12, SMT
  <2>3. expects # "controller"
    BY <2>2, SMT
  <2>4. NoneAsked' /\ controlByte' = controlByte /\ expects' = "keyboard"
    BY <2>1, <2>2, <2>3, NoneAskedByData, Zenon
  <2>5. On(controlByte, active)'
    BY <2>2, <2>4, SMT
  <2>6. n = 8
    BY <1>1, <1>12
  <2>7. ops' = Rest(MouseActivate, 8)
    BY <1>2, <2>1, <2>6, Zenon
  <2>8. reporting' = reporting \cup {"mouse"}
    BY <2>1, <2>2, <2>3, ReportingWritten, Zenon
  <2>9. Told(active)'
    BY <1>3, <1>12, <2>8, SMT DEF Told
  <2>10. InMouse(8)'
    BY <1>3, <2>4, <2>5, <2>7, <2>9, SMT DEF InMouse
  <2> QED
    BY <1>5, <2>10, SMT
<1>13. CASE k = 8
  <2>1. /\ ops' = Tail(ops) /\ unread' = FALSE
        /\ UNCHANGED <<controlByte, reporting, expects, answering, output>>
    <3>1. Head(ops) = [port |-> "read", of |-> "mouse", set |-> {}, clear |-> {}]
      BY <1>2, <1>13, MouseProgram, Zenon
    <3> QED
      BY <3>1, PortReads, Zenon
  <2>2. NoneAsked /\ On(controlByte, active) /\ expects = "keyboard"
    BY <1>3, <1>13, SMT
  <2>3. NoneAsked' /\ On(controlByte, active)' /\ expects' = "keyboard"
    BY <2>1, <2>2, SMT DEF NoneAsked, Shown
  <2>4. n = 9
    BY <1>1, <1>13
  <2>5. ops' = <<>>
    BY <1>2, <2>1, <2>4, Zenon
  <2>6. Told(active)'
    BY <1>3, <1>13, <2>1, SMT DEF Told
  <2>7. BetweenTwo'
    BY <2>3, <2>5, <2>6, Zenon DEF BetweenTwo
  <2> QED
    BY <2>7, Zenon DEF Phase
<1> QED
  BY <1>4, <1>6, <1>7, <1>8, <1>9, <1>10, <1>11, <1>12, <1>13, Zenon

(* Between the accesses the controller hands over what it has, and keys are*)
(* pressed: what was asked for stays on its way, and nothing else comes    *)
(* from the controller.                                                    *)
LEMMA ControllerSteps ==
  ASSUME Controller
  PROVE  /\ UNCHANGED <<ops, status, controlByte, reporting, expects, mistaken>>
         /\ (NoneAsked => NoneAsked') /\ (OneAsked => OneAsked')
<1>1. CASE PressKey
  <2>1. /\ answering' = answering \cup {"key"}
        /\ UNCHANGED <<ops, status, controlByte, reporting, expects, output, unread, mistaken>>
    BY <1>1, Zenon DEF PressKey
  <2>2. "controller" \in answering' <=> "controller" \in answering
    BY <2>1, SMT
  <2>3. Shown' <=> Shown
    BY <2>1, Zenon DEF Shown
  <2> QED
    BY <2>1, <2>2, <2>3, Zenon DEF NoneAsked, OneAsked
<1>2. ASSUME NEW source \in {"controller", "keyboard", "mouse", "key"}, Deliver(source)
      PROVE  /\ UNCHANGED <<ops, status, controlByte, reporting, expects, mistaken>>
             /\ (NoneAsked => NoneAsked') /\ (OneAsked => OneAsked')
  <2>1. /\ source \in answering /\ ~unread
        /\ output' = [of |-> source, byte |-> AnswerOf(source)] /\ unread' = TRUE
        /\ answering' = answering \ {source}
        /\ UNCHANGED <<ops, status, controlByte, reporting, expects, keys, mistaken>>
    BY <1>2, Zenon DEF Deliver
  <2>2. ~Shown /\ (Shown' <=> source = "controller")
    BY <2>1, SMT DEF Shown
  <2>3. CASE source = "controller"
    <3>1. output'.byte = controlByte'
      BY <2>1, <2>3, SMT DEF AnswerOf
    <3>2. "controller" \in answering /\ "controller" \notin answering'
      BY <2>1, <2>3, SMT
    <3> QED
      BY <2>1, <2>2, <2>3, <3>1, <3>2, Zenon DEF NoneAsked, OneAsked
  <2>4. CASE source # "controller"
    <3>1. "controller" \in answering' <=> "controller" \in answering
      BY <2>1, <2>4, SMT
    <3> QED
      BY <2>1, <2>2, <2>4, <3>1, Zenon DEF NoneAsked, OneAsked
  <2> QED
    BY <2>3, <2>4
<1> QED
  BY <1>1, <1>2, Zenon DEF Controller

(* An activation does not notice what does not touch its bits.             *)
LEMMA PhaseKept ==
  ASSUME Phase, active' = active, UNCHANGED <<ops, status, controlByte, reporting, expects>>,
         (NoneAsked => NoneAsked') /\ (OneAsked => OneAsked')
  PROVE  Phase'
<1>1. CASE BetweenTwo
  <2>1. BetweenTwo'
    BY <1>1, Zenon DEF BetweenTwo, Told
  <2> QED
    BY <2>1, Zenon DEF Phase
<1>2. ASSUME NEW k \in 1..7, InKeyboard(k)
      PROVE  Phase'
  <2>1. InKeyboard(k)'
    BY <1>2, Zenon DEF InKeyboard, Told
  <2> QED
    BY <2>1, Zenon DEF Phase
<1>3. ASSUME NEW k \in 1..8, InMouse(k)
      PROVE  Phase'
  <2>1. InMouse(k)'
    BY <1>3, Zenon DEF InMouse, Told
  <2> QED
    BY <2>1, Zenon DEF Phase
<1> QED
  BY <1>1, <1>2, <1>3, Zenon DEF Phase

(* Drivers that are there before the buses are searched.                   *)
DriversNamed ==
  place \in {"search", "activate"} =>
    /\ \E T : drivers \in Seq(T)
    /\ Len(drivers) >= 2
    /\ drivers[1] = [driver |-> "keyboard", portBase |-> 0]
    /\ drivers[2] = [driver |-> "mouse", portBase |-> 0]

(* ActivateAll comes to the drivers in their order, and each finds what the*)
(* one before it has set.                                                  *)
TurnedOn ==
  /\ place \in {"segments", "start", "search"} => active = 0 /\ BetweenTwo
  /\ place = "activate" => active \in Nat
  /\ place = "activate" /\ ~mistaken => Phase

(* A sequence that takes one more element keeps its first two.             *)
LEMMA FirstTwoKept ==
  ASSUME NEW T, NEW s \in Seq(T), NEW e, Len(s) >= 2
  PROVE  /\ \E U : Append(s, e) \in Seq(U)
         /\ Len(Append(s, e)) >= 2
         /\ Append(s, e)[1] = s[1] /\ Append(s, e)[2] = s[2]
<1>1. Append(s, e) \in Seq(T \cup {e}) /\ Len(Append(s, e)) = Len(s) + 1
  BY AppendedTo, ZenonT(40)
<1>2. PICK n \in Nat : n = Len(s)
  BY LenProperties, Zenon
<1>3. Len(Append(s, e)) >= 2
  BY <1>1, <1>2, SMT
<1>4. s \in Seq(T \cup {e}) /\ e \in T \cup {e}
  BY SeqMonotonic, Zenon
<1>5. Append(s, e)[1] = s[1] /\ Append(s, e)[2] = s[2]
  BY <1>2, <1>4, AppendProperties, SMT
<1> QED
  BY <1>1, <1>3, <1>5, Zenon

(* What SearchForgotten leaves of the drivers.                             *)
Forgotten(s) == [i \in DOMAIN s |-> [s[i] EXCEPT !.portBase = 0]]

(* As many are left.                                                       *)
LEMMA ForgottenLength ==
  ASSUME NEW T, NEW s \in Seq(T)
  PROVE  (\E U : Forgotten(s) \in Seq(U)) /\ Len(Forgotten(s)) = Len(s)
<1>1. PICK t : t = Forgotten(s) /\ t = [i \in DOMAIN s |-> [s[i] EXCEPT !.portBase = 0]]
  BY Zenon DEF Forgotten
<1>2. PICK n \in Nat : n = Len(s) /\ DOMAIN s = 1..n
  BY LenProperties, Zenon
<1>3. t \in [1..n -> {t[i] : i \in 1..n}]
  BY <1>1, <1>2, SMT
<1>4. PICK U : t \in [1..n -> U]
  BY <1>3, Zenon
<1>5. t \in Seq(U)
  BY <1>2, <1>4, SeqDef, Zenon
<1>6. PICK m \in Nat : m = Len(t) /\ DOMAIN t = 1..m
  BY <1>5, LenProperties, Zenon
<1>7. DOMAIN t = 1..n
  BY <1>4, Zenon
<1>8. m = n
  BY <1>6, <1>7, SMT
<1> QED
  BY <1>1, <1>2, <1>5, <1>6, <1>8, Zenon

(* Drivers without a port base are not changed by forgetting it.           *)
LEMMA FirstTwoForgotten ==
  ASSUME NEW T, NEW s \in Seq(T), Len(s) >= 2, NEW a, NEW b,
         s[1] = [driver |-> a, portBase |-> 0], s[2] = [driver |-> b, portBase |-> 0]
  PROVE  /\ \E U : Forgotten(s) \in Seq(U)
         /\ Len(Forgotten(s)) >= 2
         /\ Forgotten(s)[1] = s[1] /\ Forgotten(s)[2] = s[2]
<1>1. PICK n \in Nat : n = Len(s) /\ DOMAIN s = 1..n
  BY LenProperties, Zenon
<1>2. 1 \in 1..n /\ 2 \in 1..n
  BY <1>1, SMT
<1>3. /\ Forgotten(s)[1] = [s[1] EXCEPT !.portBase = 0]
      /\ Forgotten(s)[2] = [s[2] EXCEPT !.portBase = 0]
  BY <1>1, <1>2, Zenon DEF Forgotten
<1>4. \A d : [[driver |-> d, portBase |-> 0] EXCEPT !.portBase = 0]
               = [driver |-> d, portBase |-> 0]
  BY SMT
<1>5. Forgotten(s)[1] = s[1] /\ Forgotten(s)[2] = s[2]
  BY <1>3, <1>4, Zenon
<1> QED
  BY <1>5, ForgottenLength, Zenon

(* Every step leaves the first two drivers in their places.                *)
LEMMA DriversNamedKept ==
  ASSUME DriversNamed, [Next]_vars
  PROVE  DriversNamed'
<1> SUFFICES ASSUME place' \in {"search", "activate"}
             PROVE  /\ \E T : drivers' \in Seq(T)
                    /\ Len(drivers') >= 2
                    /\ drivers'[1] = [driver |-> "keyboard", portBase |-> 0]
                    /\ drivers'[2] = [driver |-> "mouse", portBase |-> 0]
  BY Zenon DEF DriversNamed
<1>0. place # "search" /\ place # "activate" =>
        place' = place \/ AddDrivers \/ ~(place' \in {"search", "activate"})
  BY Zenon DEF Next, Kernel, LoadSegments, SelectDrivers, Activate, ActivateDevice, AllActive,
     SetMode, UseDisk, ReadPartitions, TakeCard, ControllerStep, DiskStep, At, Go, vars
<1>1. CASE AddDrivers
  <2>1. drivers' = <<[driver |-> "keyboard", portBase |-> 0], [driver |-> "mouse", portBase |-> 0]>>
    BY <1>1, Zenon DEF AddDrivers
  <2>2. PICK a, b : /\ a = [driver |-> "keyboard", portBase |-> 0]
                    /\ b = [driver |-> "mouse", portBase |-> 0]
    BY Zenon
  <2>3. drivers' = <<a, b>>
    BY <2>1, <2>2, Zenon
  <2>4. drivers' \in Seq({a, b}) /\ Len(drivers') >= 2 /\ drivers'[1] = a /\ drivers'[2] = b
    BY <2>3, SMT
  <2> QED
    BY <2>2, <2>4, Zenon
<1>2. CASE place \in {"search", "activate"} /\ ~AddDrivers
  <2>1. /\ \E T : drivers \in Seq(T)
        /\ Len(drivers) >= 2
        /\ drivers[1] = [driver |-> "keyboard", portBase |-> 0]
        /\ drivers[2] = [driver |-> "mouse", portBase |-> 0]
    BY <1>2, Zenon DEF DriversNamed
  <2>2. CASE drivers' = drivers
    BY <2>1, <2>2, Zenon
  <2>3. PICK T, s : s = drivers /\ s \in Seq(T)
    BY <2>1, Zenon
  <2>4. PICK t : t = drivers'
    BY Zenon
  <2>8. ASSUME t \in Seq(T) \/ (\E U : t \in Seq(U)), Len(t) >= 2, t[1] = s[1], t[2] = s[2]
        PROVE  /\ \E U : drivers' \in Seq(U)
               /\ Len(drivers') >= 2
               /\ drivers'[1] = [driver |-> "keyboard", portBase |-> 0]
               /\ drivers'[2] = [driver |-> "mouse", portBase |-> 0]
    BY <2>1, <2>3, <2>4, <2>8, Zenon
  <2>9. CASE \E e : drivers' = Append(drivers, e)
    <3>1. PICK e : t = Append(s, e)
      BY <2>3, <2>4, <2>9, Zenon
    <3>2. (\E U : t \in Seq(U)) /\ Len(t) >= 2 /\ t[1] = s[1] /\ t[2] = s[2]
      BY <2>1, <2>3, <3>1, FirstTwoKept, Zenon
    <3> QED
      BY <2>8, <3>2, Zenon
  <2>10. CASE drivers' = [i \in DOMAIN drivers |-> [drivers[i] EXCEPT !.portBase = 0]]
    <3>1. t = Forgotten(s)
      BY <2>3, <2>4, <2>10, Zenon DEF Forgotten
    <3>2. (\E U : t \in Seq(U)) /\ Len(t) >= 2 /\ t[1] = s[1] /\ t[2] = s[2]
      BY <2>1, <2>3, <3>1, FirstTwoForgotten, Zenon
    <3> QED
      BY <2>8, <3>2, Zenon
  <2>5. CASE SelectDrivers
    <3>1. \/ drivers' = drivers
          \/ \E e : drivers' = Append(drivers, e)
          \/ drivers' = [i \in DOMAIN drivers |-> [drivers[i] EXCEPT !.portBase = 0]]
      BY <2>5, Zenon DEF SelectDrivers, SelectDriver, GetDriver, AddDriver, SearchForgotten
    <3> QED
      BY <2>2, <2>9, <2>10, <3>1, Zenon
  <2>6. CASE AllActive
    <3>1. place' = "mode" \/ place' = "disk"
      BY <2>6, Zenon DEF AllActive, Go
    <3> QED
      BY <3>1, Zenon
  <2>7. SelectDrivers \/ AllActive \/ drivers' = drivers
    BY <1>2, Zenon DEF Next, Kernel, LoadSegments, Activate, ActivateDevice, SetMode, UseDisk,
       ReadPartitions, TakeCard, ControllerStep, DiskStep, At, vars, pciVars
  <2> QED
    BY <2>2, <2>5, <2>6, <2>7, Zenon
<1> QED
  BY <1>0, <1>1, <1>2, Zenon

(* ActivateAll comes to the next driver.                                   *)
LEMMA NextDriver ==
  ASSUME BetweenTwo, DriversNamed, Activate, active \in Nat
  PROVE  active' \in Nat /\ Phase'
<1>1. /\ place = "activate" /\ active' = active + 1
      /\ ops' = CASE drivers[active + 1].driver = "keyboard" -> KeyboardActivate
                  [] drivers[active + 1].driver = "mouse"    -> MouseActivate
                  [] OTHER                                   -> <<>>
      /\ UNCHANGED <<status, controlByte, reporting, expects, answering, output, unread,
                     mistaken>>
  BY Zenon DEF Activate, At
<1>2. active' \in Nat
  BY <1>1, SMT
<1>3. ops = <<>> /\ On(controlByte, active) /\ Told(active) /\ NoneAsked /\ expects = "keyboard"
  BY Zenon DEF BetweenTwo
<1>4. NoneAsked' /\ expects' = "keyboard" /\ On(controlByte, active - 1)'
  <2>1. active' - 1 = active
    BY <1>1, SMT
  <2>2. NoneAsked' /\ expects' = "keyboard"
    BY <1>1, <1>3, Zenon DEF NoneAsked, Shown
  <2>3. controlByte' = controlByte
    BY <1>1, Zenon
  <2>4. On(controlByte, active' - 1)
    BY <1>3, <2>1, Zenon
  <2>5. On(controlByte', active' - 1)
    BY <2>3, <2>4, Zenon
  <2> QED
    BY <2>2, <2>5, Zenon
<1>11. Told(active - 1)'
  BY <1>1, <1>3, SMT DEF Told
<1>5. /\ drivers[1] = [driver |-> "keyboard", portBase |-> 0]
      /\ drivers[2] = [driver |-> "mouse", portBase |-> 0]
  BY <1>1, Zenon DEF DriversNamed
<1>6. drivers[1].driver = "keyboard" /\ drivers[2].driver = "mouse"
  BY <1>5, SMT
<1>7. PICK name : name = drivers[active + 1].driver
  BY Zenon
<1>8. CASE name = "keyboard"
  <2>1. active + 1 # 2
    BY <1>6, <1>7, <1>8, Zenon
  <2>2. ops' = Rest(KeyboardActivate, 1)
    BY <1>1, <1>7, <1>8, KeyboardProgram, RestEnds, ZenonT(40)
  <2>3. InKeyboard(1)'
    BY <1>1, <1>4, <1>11, <2>1, <2>2, SMT DEF InKeyboard
  <2>4. 1 \in 1..7
    BY SMT
  <2> QED
    BY <1>2, <2>3, <2>4, Zenon DEF Phase
<1>9. CASE name = "mouse"
  <2>1. active + 1 # 1
    BY <1>6, <1>7, <1>9, Zenon
  <2>2. ops' = Rest(MouseActivate, 1)
    <3>1. name # "keyboard"
      BY <1>9, Zenon
    <3>2. ops' = MouseActivate
      BY <1>1, <1>7, <1>9, <3>1, Zenon
    <3> QED
      BY <3>2, MouseProgram, RestEnds, ZenonT(40)
  <2>3. InMouse(1)'
    BY <1>1, <1>4, <1>11, <2>1, <2>2, SMT DEF InMouse
  <2>4. 1 \in 1..8
    BY SMT
  <2> QED
    BY <1>2, <2>3, <2>4, Zenon DEF Phase
<1>10. CASE name # "keyboard" /\ name # "mouse"
  <2>1. active + 1 # 1 /\ active + 1 # 2
    BY <1>6, <1>7, <1>10, Zenon
  <2>2. ops' = <<>>
    BY <1>1, <1>7, <1>10, Zenon
  <2>3. active >= 2
    BY <2>1, SMT
  <2>4. On(controlByte, active)'
    BY <1>1, <1>3, <2>3, SMT DEF On
  <2>6. Told(active)'
    BY <1>1, <1>3, <2>3, SMT DEF Told
  <2>5. BetweenTwo'
    BY <1>4, <2>2, <2>4, <2>6, Zenon DEF BetweenTwo
  <2> QED
    BY <1>2, <2>5, Zenon DEF Phase
<1> QED
  BY <1>8, <1>9, <1>10, Zenon

(* Where accesses are left, an activation is under way.                    *)
LEMMA AccessesLeft ==
  ASSUME Phase
  PROVE  /\ (\E k \in 1..7 : InKeyboard(k)) \/ (\E k \in 1..8 : InMouse(k)) => ops # <<>>
<1>1. ASSUME NEW k \in 1..7, InKeyboard(k)
      PROVE  ops # <<>>
  <2>1. PICK T : KeyboardActivate \in Seq(T)
    BY KeyboardProgram, Zenon
  <2>2. k \in 1..Len(KeyboardActivate)
    BY KeyboardProgram, Zenon
  <2> QED
    BY <1>1, <2>1, <2>2, RestOfProgram, Zenon DEF InKeyboard
<1>2. ASSUME NEW k \in 1..8, InMouse(k)
      PROVE  ops # <<>>
  <2>1. PICK T : MouseActivate \in Seq(T)
    BY MouseProgram, Zenon
  <2>2. k \in 1..Len(MouseActivate)
    BY MouseProgram, Zenon
  <2> QED
    BY <1>2, <2>1, <2>2, RestOfProgram, Zenon DEF InMouse
<1> QED
  BY <1>1, <1>2, Zenon

(* Every step, of a driver, the controller or the rest of kernelMain.      *)
LEMMA TurnedOnKept ==
  ASSUME TurnedOn, DriversNamed, [Next]_vars
  PROVE  TurnedOn'
<1>1. CASE place \in {"segments", "start", "search"}
  <2>1. /\ active = 0 /\ BetweenTwo
    BY <1>1, Zenon DEF TurnedOn
  <2>2. UNCHANGED <<active, ps2Vars>>
    BY <1>1, Zenon
       DEF Next, Kernel, LoadSegments, AddDrivers, SelectDrivers, Activate, ActivateDevice, AllActive,
           SetMode, UseDisk, ReadPartitions, TakeCard, ControllerStep, DiskStep, At, Go, vars,
       mainVars
  <2>3. active' = 0 /\ BetweenTwo'
    BY <2>1, <2>2, Zenon DEF BetweenTwo, Told, NoneAsked, Shown, ps2Vars
  <2>4. 0 \in Nat
    BY SMT
  <2> QED
    BY <2>3, <2>4, Zenon DEF TurnedOn, Phase
<1>2. CASE place = "activate"
  <2>0. place \notin {"segments", "start", "search"}
    BY <1>2, Zenon
  <2>1. active \in Nat /\ (~mistaken => Phase)
    BY <1>2, Zenon DEF TurnedOn
  <2>2. ASSUME place' = place, active' \in Nat, ~mistaken' => Phase'
        PROVE  TurnedOn'
    BY <1>2, <2>0, <2>2, Zenon DEF TurnedOn
  <2>3. CASE Activate
    <3>1. place' = place /\ mistaken' = mistaken /\ ops = <<>>
      BY <2>3, Zenon DEF Activate
    <3>2. active' \in Nat
      BY <2>1, <2>3, SMT DEF Activate
    <3>3. ASSUME ~mistaken'
          PROVE  Phase'
      <4>1. Phase
        BY <2>1, <3>1, <3>3, Zenon
      <4>2. BetweenTwo
        BY <3>1, <4>1, AccessesLeft, Zenon DEF Phase
      <4> QED
        BY <2>1, <2>3, <4>2, NextDriver, Zenon
    <3> QED
      BY <2>2, <3>1, <3>2, <3>3, Zenon
  <2>4. CASE ActivateDevice
    <3>1. Port /\ UNCHANGED <<place, active>>
      BY <2>4, Zenon DEF ActivateDevice, mainVars
    <3>2. ops # <<>> /\ (mistaken => mistaken')
      <4>1. CASE Drain
        BY <3>1, <4>1, Zenon DEF Port, Drain
      <4>2. CASE ReadData
        BY <3>1, <4>2, Zenon DEF Port, ReadData
      <4>3. ASSUME NEW code, ControllerCommand(code)
            PROVE  mistaken' = mistaken
        BY <4>3, Zenon DEF ControllerCommand
      <4>4. ASSUME NEW byte, Data(byte)
            PROVE  mistaken' = mistaken
        BY <4>4, Zenon DEF Data
      <4> QED
        BY <3>1, <4>1, <4>2, <4>3, <4>4, Zenon DEF Port
    <3>3. ASSUME ~mistaken'
          PROVE  Phase'
      <4>1. Phase /\ ~BetweenTwo
        BY <2>1, <3>2, <3>3, Zenon DEF BetweenTwo
      <4>2. CASE \E k \in 1..7 : InKeyboard(k)
        BY <2>1, <3>1, <3>3, <4>2, KeyboardStep, Zenon
      <4>3. CASE \E k \in 1..8 : InMouse(k)
        BY <2>1, <3>1, <3>3, <4>3, MouseStep, Zenon
      <4> QED
        BY <4>1, <4>2, <4>3, Zenon DEF Phase
    <3> QED
      BY <2>1, <2>2, <3>1, <3>3, Zenon
  <2>5. CASE ControllerStep
    <3>1. Controller /\ UNCHANGED <<place, active>>
      BY <2>5, Zenon DEF ControllerStep, mainVars
    <3>2. /\ UNCHANGED <<ops, status, controlByte, reporting, expects, mistaken>>
          /\ (NoneAsked => NoneAsked') /\ (OneAsked => OneAsked')
      BY <3>1, ControllerSteps, Zenon
    <3>3. ~mistaken' => Phase'
      BY <2>1, <3>1, <3>2, PhaseKept, Zenon
    <3> QED
      BY <2>1, <2>2, <3>1, <3>3, Zenon
  <2>6. CASE AllActive
    <3>1. place' = "mode" \/ place' = "disk"
      BY <2>6, Zenon DEF AllActive, Go
    <3> QED
      BY <3>1, Zenon DEF TurnedOn
  <2>7. CASE UNCHANGED vars
    <3>1. UNCHANGED <<place, active, ops, status, controlByte, reporting, expects, answering, output,
                      unread, mistaken>>
      BY <2>7, Zenon DEF vars, mainVars, ps2Vars
    <3>2. (NoneAsked => NoneAsked') /\ (OneAsked => OneAsked')
      BY <3>1, Zenon DEF NoneAsked, OneAsked, Shown
    <3>3. ~mistaken' => Phase'
      BY <2>1, <3>1, <3>2, PhaseKept, Zenon
    <3> QED
      BY <2>1, <2>2, <3>1, <3>3, Zenon
  <2>8. Activate \/ ActivateDevice \/ ControllerStep \/ AllActive \/ UNCHANGED vars
    BY <1>2, Zenon DEF Next, Kernel, LoadSegments, AddDrivers, SelectDrivers, SetMode, UseDisk,
       ReadPartitions, TakeCard, DiskStep, At
  <2> QED
    BY <2>3, <2>4, <2>5, <2>6, <2>7, <2>8
<1>3. CASE place \notin {"segments", "start", "search", "activate"}
  <2>1. place' \notin {"segments", "start", "search", "activate"}
    BY <1>3, Zenon
       DEF Next, Kernel, LoadSegments, AddDrivers, SelectDrivers, Activate, ActivateDevice, AllActive,
           SetMode, UseDisk, ReadPartitions, TakeCard, ControllerStep, DiskStep, At, Go, vars
  <2>2. place' # "activate" /\ place' \notin {"segments", "start", "search"}
    BY <2>1, Zenon
  <2> QED
    BY <2>2, Zenon DEF TurnedOn
<1> QED
  BY <1>1, <1>2, <1>3, Zenon

(* After the second activation both are on.                                *)
LEMMA TurnedOnMeansBoth ==
  ASSUME TurnedOn
  PROVE  KeyboardAndMouseOn
<1> SUFFICES ASSUME place = "activate", ops = <<>>, active >= 2, ~mistaken
             PROVE  BothOn
  BY Zenon DEF KeyboardAndMouseOn, At
<1>1. Phase /\ active \in Nat
  BY Zenon DEF TurnedOn
<1>2. BetweenTwo
  BY <1>1, AccessesLeft, Zenon DEF Phase
<1> QED
  BY <1>1, <1>2, SMT DEF BetweenTwo, On, Told, BothOn

(* Once both have been activated, keyboard and mouse have been told to     *)
(* report (0xF4 has reached each of them) and may interrupt, if no read    *)
(* missed its answer: neither driver takes back what the other set,        *)
(* whatever keys are pressed and whenever the controller hands things over *)
(* (KeyboardDriver::Activate and MouseDriver::Activate).                   *)
THEOREM KeyboardAndMouseAreOn == Spec => []KeyboardAndMouseOn
<1>1. Init => TurnedOn /\ DriversNamed
  <2> SUFFICES ASSUME Init
               PROVE  TurnedOn /\ DriversNamed
    OBVIOUS
  <2>1. /\ place = "segments" /\ active = 0 /\ ops = <<>> /\ expects = "keyboard"
        /\ answering = {} /\ unread = FALSE
    BY Zenon DEF Init, Ps2Init
  <2>2. On(controlByte, 0)
    BY SMT DEF On
  <2>5. Told(0)
    BY SMT DEF Told
  <2>3. BetweenTwo
    BY <2>1, <2>2, <2>5, Zenon DEF BetweenTwo, NoneAsked, Shown
  <2>4. place # "activate" /\ place \notin {"search", "activate"}
    BY <2>1, Zenon
  <2> QED
    BY <2>1, <2>3, <2>4, Zenon DEF TurnedOn, DriversNamed
<1>2. TurnedOn /\ DriversNamed /\ [Next]_vars => TurnedOn' /\ DriversNamed'
  BY TurnedOnKept, DriversNamedKept
<1>3. TurnedOn => KeyboardAndMouseOn
  BY TurnedOnMeansBoth
<1> QED
  BY <1>1, <1>2, <1>3, PTL DEF Spec

-----------------------------------------------------------------------------
(* Sectors *)

(* Nobody but Write28 looks at the count; the calls of the file system ask *)
(* for a sector at most.                                                   *)
ReadsWithinSector ==
  \A call \in DiskCalls : call.op = "Read28" => call.count <= SectorBytes

(* What the driver finds in a drive.                                       *)
DiskTyped(d) ==
  /\ {"master", "command", "state", "words"} \subseteq DOMAIN d
  /\ d.state \in {"idle", "busy", "data", "error"} /\ d.words \in Int

(* A call moves an even number of bytes of one sector.                     *)
CallTyped(a) ==
  /\ {"at", "op", "count", "i"} \subseteq DOMAIN a
  /\ \/ a.at = "idle"
     \/ a.at = "answer" /\ a.op \in {"IDENTIFY", "FLUSH"} /\ a.i = 0
     \/ a.at = "status" /\ a.op \in {"IDENTIFY", "READ", "FLUSH"} /\ a.i = 0
     \/ a.at = "transfer" /\ a.op \in {"IDENTIFY", "READ", "WRITE"}
  /\ a.count \in Nat /\ a.count <= SectorBytes
  /\ a.i \in Nat /\ a.i <= SectorBytes /\ a.i % 2 = 0

(* A drive nobody waits for: it may be storing a sector still.             *)
Quiet(d) ==
  d.words = 0 /\ d.state # "data" /\ (d.state = "busy" => d.command = "STORE")

(* A drive that has been given the command and is waited for.              *)
Asked(a, d) ==
  /\ d.state = "busy"  => d.command = a.op /\ d.words = 0
  /\ d.state = "data"  => a.op # "FLUSH" /\ 2 * d.words = SectorBytes
  /\ d.state = "idle"  => a.op = "FLUSH" /\ d.words = 0
  /\ d.state = "error" => d.words = 0

(* A drive that is read: it has the words left that are still to be read.  *)
Offers(a, d) ==
  /\ 2 * d.words = SectorBytes - a.i
  /\ d.state = IF d.words > 0 THEN "data" ELSE "idle"

(* A drive that is written to: it is not ready, takes the words that are   *)
(* still to come, or stores them.                                          *)
Takes(a, d) ==
  \/ a.i = 0 /\ d.words = 0 /\ (d.state = "error" \/ (d.state = "busy" /\ d.command = "WRITE"))
  \/ d.state = "data" /\ 2 * d.words = SectorBytes - a.i /\ d.words > 0
  \/ a.i = SectorBytes /\ Quiet(d)

(* A drive as the call that waits for it or moves words expects it.        *)
Engaged(a, d) ==
  /\ a.at \in {"answer", "status"} => Asked(a, d)
  /\ a.at = "transfer" => IF a.op = "WRITE" THEN Takes(a, d) ELSE Offers(a, d)

(* A drive is as its caller expects it, and quiet when nobody called.      *)
Whole == IF Idle \/ ~Present(disk) THEN Quiet(disk) ELSE Engaged(ata, disk)

(* Until a call goes on before the drive was ready, the two agree.         *)
DiskInv ==
  /\ DiskTyped(disk) /\ CallTyped(ata)
  /\ place \notin {"disk", "taken", "lost"} => Idle
  /\ hurried \in BOOLEAN /\ (~hurried => Whole)

(* Before the disk is used nobody has called.                              *)
LEMMA InitDiskInv == Init => DiskInv
<1> SUFFICES ASSUME AtaInit, place = "segments"
             PROVE  DiskInv
  BY Zenon DEF Init
<1>1. DiskTyped(disk) /\ Quiet(disk)
  BY SMT DEF AtaInit, DiskTyped, Quiet
<1>2. CallTyped(ata) /\ Idle
  BY AtaAssumption, SMT DEF AtaInit, CallTyped, Idle
<1>3. hurried \in BOOLEAN
  BY Zenon DEF AtaInit
<1> QED
  BY <1>1, <1>2, <1>3, Zenon DEF DiskInv, Whole

(* The disk gets its command when nothing of an earlier call is left.      *)
LEMMA CommandAsks ==
  ASSUME NEW d, DiskTyped(d), NEW command, Command(d, command),
         hurried \in BOOLEAN, ~hurried => Quiet(d)
  PROVE  /\ DiskTyped(disk') /\ hurried' \in BOOLEAN /\ (~hurried' => ~hurried)
         /\ Present(disk)' <=> Present(d)
         /\ ~hurried' /\ ~Present(d) => Quiet(disk')
         /\ ~hurried' /\ Present(d) =>
              disk'.state = "busy" /\ disk'.command = command /\ disk'.words = 0
<1>1. PICK e : e = disk'
  BY Zenon
<1>2. /\ e = Commanded(d, command) /\ drives' = drives
      /\ hurried' = (hurried \/ (Present(d) /\ d.state \in {"busy", "data"}))
  BY <1>1, Zenon DEF Command
<1>3. hurried' \in BOOLEAN /\ (~hurried' => ~hurried)
  BY <1>2, Zenon
<1>4. CASE Present(d) /\ d.state \in {"idle", "error"}
  <2>1. e = [d EXCEPT !.command = command, !.state = "busy"]
    BY <1>2, <1>4, Zenon DEF Commanded
  <2>2. /\ DiskTyped(e) /\ e.state = "busy" /\ e.command = command
        /\ e.words = d.words /\ e.master = d.master
    BY <2>1, SMT DEF DiskTyped
  <2>3. Present(disk)' <=> Present(d)
    BY <1>1, <1>2, <2>2, Zenon DEF Present
  <2>4. ~hurried => d.words = 0
    BY Zenon DEF Quiet
  <2> QED
    BY <1>1, <1>3, <1>4, <2>2, <2>3, <2>4, Zenon
<1>5. CASE ~(Present(d) /\ d.state \in {"idle", "error"})
  <2>1. e = d
    BY <1>2, <1>5, Zenon DEF Commanded
  <2>2. Present(disk)' <=> Present(d)
    BY <1>1, <1>2, <2>1, Zenon DEF Present
  <2>3. Present(d) => hurried'
    BY <1>2, <1>5, Zenon DEF DiskTyped
  <2> QED
    BY <1>1, <1>3, <2>1, <2>2, <2>3, Zenon
<1> QED
  BY <1>4, <1>5, Zenon

(* A call, once its command is given.                                      *)
LEMMA CallWhole ==
  ASSUME DiskInv, Idle, place = "disk", place' = place,
         NEW d, DOMAIN d = DOMAIN disk, d.state = disk.state, d.words = disk.words,
         d.command = disk.command,
         NEW op, NEW sector, NEW count \in Nat, count <= SectorBytes, NEW at,
         \/ at = "answer" /\ op \in {"IDENTIFY", "FLUSH"}
         \/ at = "status" /\ op = "READ"
         \/ at = "transfer" /\ op = "WRITE",
         Calling(op, sector, count, at), Command(d, op)
  PROVE  DiskInv'
<1>1. DiskTyped(d) /\ hurried \in BOOLEAN /\ (~hurried => Quiet(d))
  BY SMT DEF DiskInv, DiskTyped, Whole, Quiet
<1>2. PICK e : e = disk'
  BY Zenon
<1>3. /\ DiskTyped(e) /\ hurried' \in BOOLEAN
      /\ Present(disk)' <=> Present(d)
      /\ ~hurried' /\ ~Present(d) => Quiet(e)
      /\ ~hurried' /\ Present(d) => e.state = "busy" /\ e.command = op /\ e.words = 0
  BY <1>1, <1>2, CommandAsks, Zenon
<1>4. PICK a : a = [at |-> at, op |-> op, sector |-> sector, count |-> count, i |-> 0] /\ a = ata'
  BY Zenon DEF Calling
<1>5. /\ {"at", "op", "count", "i"} \subseteq DOMAIN a
      /\ a.at = at /\ a.op = op /\ a.count = count /\ a.i = 0
  BY <1>4, SMT
<1>6. CallTyped(a) /\ a.at # "idle"
  BY <1>5, AtaAssumption, SMT DEF CallTyped
<1>7. e.state = "busy" /\ e.command = op /\ e.words = 0 => Engaged(a, e)
  BY <1>5, SMT DEF Engaged, Asked, Takes
<1>8. ~hurried' => Whole'
  BY <1>2, <1>3, <1>4, <1>6, <1>7, Zenon DEF Whole, Idle
<1> QED
  BY <1>2, <1>3, <1>4, <1>6, <1>8, Zenon DEF DiskInv

(* The other parts of kernelMain leave the disk alone.                     *)
LEMMA DiskUnchanged ==
  ASSUME DiskInv, UNCHANGED ataVars,
         place' \in {"disk", "taken", "lost"} \/ place \notin {"disk", "taken", "lost"}
  PROVE  DiskInv'
<1>1. Whole' <=> Whole
  BY Zenon DEF Whole, Idle, Present, ataVars
<1>2. place' \notin {"disk", "taken", "lost"} => Idle
  BY Zenon DEF DiskInv
<1> QED
  BY <1>1, <1>2, Zenon DEF DiskInv, Idle, ataVars

(* Each call of the driver begins with a quiet drive.                      *)
LEMMA CallsWhole ==
  ASSUME DiskInv, place = "disk", place' = place, NEW master, NEW sector,
         NEW count, count \in Nat,
         \/ Identify(master) \/ Flush(master) \/ Write28(master, sector, count)
         \/ Read28(master, sector, count) /\ count <= SectorBytes
  PROVE  DiskInv'
<1>1. CASE Identify(master)
  <2>1. CASE drives = {}
    BY <1>1, <2>1, DiskUnchanged, Zenon DEF Identify
  <2>2. CASE drives # {}
    <3>1. PICK d : d = [disk EXCEPT !.master = master, !.top = 0, !.hi = 0, !.mid = 0, !.low = 0]
      BY Zenon
    <3>2. /\ DOMAIN d = DOMAIN disk /\ d.state = disk.state /\ d.words = disk.words
          /\ d.command = disk.command
      BY <3>1, SMT DEF DiskInv, DiskTyped
    <3>3. /\ Idle /\ Calling("IDENTIFY", 0, 0, "answer") /\ Command(d, "IDENTIFY")
      BY <1>1, <2>2, <3>1, Zenon DEF Identify
    <3>4. 0 \in Nat /\ 0 <= SectorBytes
      BY AtaAssumption, SMT
    <3> QED
      BY <3>2, <3>3, <3>4, CallWhole, Zenon
  <2> QED
    BY <2>1, <2>2
<1>2. CASE Flush(master)
  <2>1. PICK d : d = [disk EXCEPT !.master = master, !.top = 0]
    BY Zenon
  <2>2. /\ DOMAIN d = DOMAIN disk /\ d.state = disk.state /\ d.words = disk.words
        /\ d.command = disk.command
    BY <2>1, SMT DEF DiskInv, DiskTyped
  <2>3. /\ Idle /\ Calling("FLUSH", ata.sector, 0, "answer") /\ Command(d, "FLUSH")
    BY <1>2, <2>1, Zenon DEF Flush
  <2>4. 0 \in Nat /\ 0 <= SectorBytes
    BY AtaAssumption, SMT
  <2> QED
    BY <2>2, <2>3, <2>4, CallWhole, Zenon
<1>3. PICK d : d = Addressed(disk, master, sector)
  BY Zenon
<1>4. /\ DOMAIN d = DOMAIN disk /\ d.state = disk.state /\ d.words = disk.words
      /\ d.command = disk.command
  BY <1>3, SMT DEF DiskInv, DiskTyped, Addressed
<1>5. CASE Write28(master, sector, count)
  <2>1. CASE sector >= SectorLimit \/ count > SectorBytes
    BY <1>5, <2>1, DiskUnchanged, Zenon DEF Write28
  <2>2. CASE ~(sector >= SectorLimit \/ count > SectorBytes)
    <3>1. /\ Idle /\ Calling("WRITE", sector, count, "transfer") /\ Command(d, "WRITE")
      BY <1>3, <1>5, <2>2, Zenon DEF Write28
    <3>2. count <= SectorBytes
      BY <2>2, AtaAssumption, SMT
    <3> QED
      BY <1>4, <3>1, <3>2, CallWhole, Zenon
  <2> QED
    BY <2>1, <2>2
<1>6. CASE Read28(master, sector, count) /\ count <= SectorBytes
  <2>1. CASE sector >= SectorLimit
    BY <1>6, <2>1, DiskUnchanged, Zenon DEF Read28
  <2>2. CASE ~(sector >= SectorLimit)
    <3>1. /\ Idle /\ Calling("READ", sector, count, "status") /\ Command(d, "READ")
      BY <1>3, <1>6, <2>2, Zenon DEF Read28
    <3> QED
      BY <1>4, <1>6, <3>1, CallWhole, Zenon
  <2> QED
    BY <2>1, <2>2
<1> QED
  BY <1>1, <1>2, <1>5, <1>6, Zenon

(* The call returns.                                                       *)
LEMMA ReturnWhole ==
  ASSUME DiskInv, Return, UNCHANGED <<disk, drives, hurried, place>>, place = "disk",
         ~hurried => Quiet(disk)
  PROVE  DiskInv'
<1>1. PICK a, b : a = ata /\ b = ata' /\ b = [a EXCEPT !.at = "idle", !.op = "none"]
  BY Zenon DEF Return
<1>2. CallTyped(a)
  BY <1>1, Zenon DEF DiskInv
<1>3. CallTyped(b) /\ b.at = "idle"
  BY <1>1, <1>2, SMT DEF CallTyped
<1>4. Idle' /\ CallTyped(ata')
  BY <1>1, <1>3, Zenon DEF Idle
<1>5. ~hurried' => Whole'
  BY <1>4, Zenon DEF Whole
<1> QED
  BY <1>4, <1>5, Zenon DEF DiskInv

(* The first look at the status register.                                  *)
LEMMA AnswerWhole ==
  ASSUME DiskInv, Answer, place = "disk", place' = place
  PROVE  DiskInv'
<1>1. ata.at = "answer" /\ UNCHANGED <<disk, drives, hurried, place>>
  BY Zenon DEF Answer
<1>2. ~Idle
  BY <1>1, SMT DEF Idle
<1>3. CASE ~Present(disk)
  BY <1>1, <1>2, <1>3, ReturnWhole, Zenon DEF Answer, DiskInv, Whole
<1>4. CASE Present(disk)
  <2>1. PICK a, b : a = ata /\ b = ata' /\ b = [a EXCEPT !.at = "status"]
    BY <1>4, Zenon DEF Answer
  <2>2. CallTyped(a) /\ a.at = "answer"
    BY <1>1, <2>1, Zenon DEF DiskInv
  <2>3. CallTyped(b) /\ b.at = "status" /\ b.op = a.op
    BY <2>1, <2>2, SMT DEF CallTyped
  <2>4. Engaged(a, disk) => Engaged(b, disk)
    BY <2>2, <2>3, SMT DEF Engaged, Asked
  <2>5. ~hurried => Engaged(a, disk)
    BY <1>2, <1>4, <2>1, Zenon DEF DiskInv, Whole
  <2>6. Present(disk)' /\ ~Idle'
    <3>1. Present(disk)'
      BY <1>1, <1>4, Zenon DEF Present
    <3>2. ata'.at = "status"
      BY <2>1, <2>3, Zenon
    <3> QED
      BY <3>1, <3>2, SMT DEF Idle
  <2>7. ~hurried' => Whole'
    BY <1>1, <2>1, <2>4, <2>5, <2>6, Zenon DEF Whole
  <2> QED
    BY <1>1, <2>1, <2>3, <2>7, Zenon DEF DiskInv
<1> QED
  BY <1>3, <1>4

(* The drive is ready, or the call returns: it has nothing to give then.   *)
LEMMA StatusWhole ==
  ASSUME DiskInv, Status, place = "disk", place' = place
  PROVE  DiskInv'
<1>1. ata.at = "status" /\ UNCHANGED <<disk, drives, hurried, place>> /\ Settled
  BY Zenon DEF Status
<1>2. ~Idle
  BY <1>1, SMT DEF Idle
<1>3. ~hurried => IF Present(disk) THEN Asked(ata, disk) ELSE Quiet(disk)
  BY <1>1, <1>2, Zenon DEF DiskInv, Whole, Engaged
<1>4. CASE drives = {} \/ (Present(disk) /\ disk.state = "error") \/ ata.op = "FLUSH"
  <2>1. Return
    BY <1>4, Zenon DEF Status
  <2>2. drives = {} => ~Present(disk)
    BY SMT DEF Present
  <2>3. ASSUME ~hurried, Present(disk)
        PROVE  Quiet(disk)
    <3>1. Asked(ata, disk) /\ disk.state # "busy"
      BY <1>1, <1>3, <2>3, Zenon DEF Settled
    <3>2. disk.state = "error" \/ ata.op = "FLUSH"
      BY <1>4, <2>2, <2>3, Zenon
    <3>3. disk.state \in {"idle", "data", "error"}
      BY <3>1, SMT DEF DiskInv, DiskTyped
    <3> QED
      BY <3>1, <3>2, <3>3, SMT DEF Asked, Quiet
  <2> QED
    BY <1>1, <1>3, <2>1, <2>3, ReturnWhole, Zenon
<1>5. CASE ~(drives = {} \/ (Present(disk) /\ disk.state = "error") \/ ata.op = "FLUSH")
  <2>1. PICK a, b : a = ata /\ b = ata' /\ b = [a EXCEPT !.at = "transfer"]
    BY <1>5, Zenon DEF Status
  <2>2. CallTyped(a) /\ a.at = "status" /\ a.op # "FLUSH"
    BY <1>1, <1>5, <2>1, Zenon DEF DiskInv
  <2>3. CallTyped(b) /\ b.at = "transfer" /\ b.op = a.op /\ b.i = 0 /\ b.op # "WRITE"
    BY <2>1, <2>2, SMT DEF CallTyped
  <2>4. ASSUME Present(disk), ~hurried
        PROVE  Engaged(b, disk)
    <3>1. Asked(a, disk)
      BY <1>3, <2>1, <2>4, Zenon
    <3>2. disk.state = "data"
      BY <1>1, <1>5, <2>2, <2>4, <3>1, SMT DEF DiskInv, DiskTyped, Asked, Settled
    <3>3. 2 * disk.words = SectorBytes /\ disk.words \in Int
      BY <3>1, <3>2, Zenon DEF Asked, DiskInv, DiskTyped
    <3>4. disk.words > 0
      BY <3>3, AtaAssumption, SMT
    <3> QED
      BY <2>3, <3>2, <3>3, <3>4, AtaAssumption, SMT DEF Engaged, Offers
  <2>5. ata'.at = "transfer" /\ (Present(disk)' <=> Present(disk))
    BY <1>1, <2>1, <2>3, Zenon DEF Present
  <2>6. ~Idle'
    BY <2>5, SMT DEF Idle
  <2>7. ~hurried' => Whole'
    BY <1>1, <1>3, <2>1, <2>4, <2>5, <2>6, Zenon DEF Whole
  <2> QED
    BY <1>1, <2>1, <2>3, <2>7, Zenon DEF DiskInv
<1> QED
  BY <1>4, <1>5

(* The word moved is one of those the drive gives or takes.                *)
LEMMA WordOffered ==
  ASSUME NEW a, NEW b, CallTyped(a), b.i = a.i + 2, a.i + 2 <= SectorBytes,
         NEW d, DiskTyped(d), Offers(a, d)
  PROVE  DiskTyped(WordRead(d)) /\ WordRead(d).master = d.master /\ Offers(b, WordRead(d))
<1>1. PICK n \in Int, i \in Int :
        n = d.words /\ i = a.i /\ 2 * n = SectorBytes - i /\ i + 2 <= SectorBytes
  BY SMT DEF DiskTyped, CallTyped, Offers
<1>2. n >= 1 /\ 2 * (n - 1) = SectorBytes - (i + 2)
  BY <1>1, AtaAssumption, SMT
<1>3. d.state = "data"
  BY <1>1, <1>2, SMT DEF Offers
<1>4. PICK e : e = WordRead(d)
  BY Zenon
<1>5. /\ DiskTyped(e) /\ e.master = d.master /\ e.words = n - 1
      /\ e.state = IF n = 1 THEN "idle" ELSE "data"
  BY <1>1, <1>3, <1>4, SMT DEF DiskTyped, WordRead
<1>6. Offers(b, e)
  BY <1>1, <1>2, <1>5, SMT DEF Offers
<1> QED
  BY <1>4, <1>5, <1>6, Zenon

(* A drive that took a word needs one less, and stores after the last.     *)
LEMMA WordTaken ==
  ASSUME NEW a, NEW b, CallTyped(a), b.i = a.i + 2, a.i + 2 <= SectorBytes,
         NEW d, DiskTyped(d), Takes(a, d), d.state = "data"
  PROVE  DiskTyped(WordWritten(d)) /\ WordWritten(d).master = d.master /\ Takes(b, WordWritten(d))
<1>1. PICK n \in Int, i \in Int :
        n = d.words /\ i = a.i /\ 2 * n = SectorBytes - i /\ i + 2 <= SectorBytes
  BY SMT DEF DiskTyped, CallTyped, Takes, Quiet
<1>2. n >= 1 /\ 2 * (n - 1) = SectorBytes - (i + 2)
  BY <1>1, AtaAssumption, SMT
<1>3. PICK e : e = WordWritten(d)
  BY Zenon
<1>4. CASE n > 1
  <2>1. e = [d EXCEPT !.words = n - 1]
    BY <1>1, <1>3, <1>4, Zenon DEF WordWritten
  <2>2. DiskTyped(e) /\ e.master = d.master /\ e.words = n - 1 /\ e.state = "data"
    BY <1>1, <2>1, SMT DEF DiskTyped
  <2>3. Takes(b, e)
    BY <1>1, <1>2, <1>4, <2>2, SMT DEF Takes
  <2> QED
    BY <1>3, <2>2, <2>3, Zenon
<1>5. CASE ~(n > 1)
  <2>1. e = [d EXCEPT !.words = 0, !.state = "busy", !.command = "STORE"]
    BY <1>1, <1>3, <1>5, Zenon DEF WordWritten
  <2>2. /\ DiskTyped(e) /\ e.master = d.master /\ e.words = 0 /\ e.state = "busy"
        /\ e.command = "STORE"
    BY <1>1, <2>1, SMT DEF DiskTyped
  <2>3. b.i = SectorBytes
    BY <1>1, <1>2, <1>5, AtaAssumption, SMT
  <2>4. Takes(b, e)
    BY <2>2, <2>3, SMT DEF Takes, Quiet
  <2> QED
    BY <1>3, <2>2, <2>4, Zenon
<1> QED
  BY <1>4, <1>5

(* A word of the sector is moved, or the transfer ends.                    *)
LEMMA TransferWhole ==
  ASSUME DiskInv, Transfer, place = "disk", place' = place
  PROVE  DiskInv'
<1>1. PICK a, d : a = ata /\ d = disk /\ a.at = "transfer" /\ drives' = drives
  BY Zenon DEF Transfer
<1>2. /\ CallTyped(a) /\ DiskTyped(d) /\ hurried \in BOOLEAN /\ a.at # "idle"
      /\ a.op \in {"IDENTIFY", "READ", "WRITE"}
  BY <1>1, SMT DEF DiskInv, CallTyped
<1>3. /\ ~hurried /\ ~Present(d) => Quiet(d)
      /\ ~hurried /\ Present(d) => IF a.op = "WRITE" THEN Takes(a, d) ELSE Offers(a, d)
  BY <1>1, <1>2, Zenon DEF DiskInv, Whole, Idle, Engaged
<1>4. More <=> a.i < SectorBytes
  BY <1>1, <1>2, AtaAssumption, SMT DEF More, CallTyped
<1>5. CASE ~More
  <2>1. a.i = SectorBytes
    BY <1>2, <1>4, <1>5, AtaAssumption, SMT DEF CallTyped
  <2>2. Return /\ UNCHANGED <<disk, drives, hurried, place>>
    BY <1>1, <1>5, Zenon DEF Transfer
  <2>3. ASSUME ~hurried, Present(d)
        PROVE  Quiet(d)
    <3>1. CASE a.op = "WRITE"
      <4>1. Takes(a, d)
        BY <1>3, <2>3, <3>1, Zenon
      <4> QED
        BY <2>1, <4>1, AtaAssumption, <1>2, SMT DEF Takes, DiskTyped
    <3>2. CASE a.op # "WRITE"
      <4>1. Offers(a, d)
        BY <1>3, <2>3, <3>2, Zenon
      <4>2. d.words = 0
        BY <1>2, <2>1, <4>1, AtaAssumption, SMT DEF Offers, DiskTyped
      <4> QED
        BY <4>1, <4>2, SMT DEF Offers, Quiet
    <3> QED
      BY <3>1, <3>2
  <2> QED
    BY <1>1, <1>3, <2>2, <2>3, ReturnWhole, Zenon
<1>6. CASE More
  <2>1. PICK b, e : b = ata' /\ e = disk' /\ b = [a EXCEPT !.i = @ + 2]
    BY <1>1, <1>6, Zenon DEF Transfer
  <2>2. a.i + 2 <= SectorBytes
    <3>1. PICK i \in Nat, n \in Nat : i = a.i /\ n = SectorBytes /\ i < n /\ i % 2 = 0 /\ n % 2 = 0
      BY <1>2, <1>4, <1>6, AtaAssumption, SMT DEF CallTyped
    <3>2. i + 2 <= n
      BY <3>1, SMT
    <3> QED
      BY <3>1, <3>2, Zenon
  <2>3. CallTyped(b) /\ b.at = "transfer" /\ b.op = a.op /\ b.i = a.i + 2
    BY <1>1, <1>2, <2>1, <2>2, AtaAssumption, SMT DEF CallTyped
  <2>4. CASE ~Present(d)
    <3>1. e = d /\ hurried' = hurried
      BY <1>1, <1>2, <1>6, <2>1, <2>4, Zenon DEF Transfer
    <3>2. ~Present(disk)'
      BY <1>1, <2>1, <2>4, <3>1, Zenon DEF Present
    <3>3. ~hurried' => Whole'
      BY <1>1, <1>3, <2>1, <2>4, <3>1, <3>2, Zenon DEF Whole
    <3> QED
      BY <1>1, <1>2, <2>1, <2>3, <3>1, <3>3, Zenon DEF DiskInv
  <2>5. CASE Present(d) /\ a.op = "WRITE"
    <3>1. e = WordWritten(d) /\ hurried' = (hurried \/ (Present(d) /\ d.state # "data"))
      BY <1>1, <1>6, <2>1, <2>5, Zenon DEF Transfer
    <3>2. hurried' \in BOOLEAN /\ (~hurried' => ~hurried /\ d.state = "data")
      BY <2>5, <3>1, Zenon
    <3>3. DiskTyped(e) /\ e.master = d.master
      BY <1>2, <3>1, SMT DEF DiskTyped, WordWritten
    <3>4. ~hurried' => Takes(b, e)
      BY <1>2, <1>3, <2>2, <2>3, <2>5, <3>1, <3>2, WordTaken, Zenon
    <3>5. ~hurried' => Engaged(b, e)
      BY <2>3, <2>5, <3>4, SMT DEF Engaged
    <3>6. Present(disk)' /\ ata'.at = "transfer"
      BY <1>1, <2>1, <2>3, <2>5, <3>3, Zenon DEF Present
    <3>7. ~Idle'
      BY <3>6, SMT DEF Idle
    <3>8. ~hurried' => Whole'
      BY <2>1, <3>5, <3>6, <3>7, Zenon DEF Whole
    <3> QED
      BY <1>1, <2>1, <2>3, <3>2, <3>3, <3>8, Zenon DEF DiskInv
  <2>6. CASE Present(d) /\ a.op # "WRITE"
    <3>1. e = WordRead(d) /\ hurried' = hurried
      BY <1>1, <1>6, <2>1, <2>6, Zenon DEF Transfer
    <3>2. DiskTyped(e) /\ e.master = d.master
      BY <1>2, <3>1, SMT DEF DiskTyped, WordRead
    <3>3. ~hurried' => Offers(b, e)
      BY <1>2, <1>3, <2>2, <2>3, <2>6, <3>1, WordOffered, Zenon
    <3>4. ~hurried' => Engaged(b, e)
      BY <2>3, <2>6, <3>3, SMT DEF Engaged
    <3>5. Present(disk)' /\ ata'.at = "transfer"
      BY <1>1, <2>1, <2>3, <2>6, <3>2, Zenon DEF Present
    <3>6. ~Idle'
      BY <3>5, SMT DEF Idle
    <3>7. ~hurried' => Whole'
      BY <2>1, <3>4, <3>5, <3>6, Zenon DEF Whole
    <3> QED
      BY <1>1, <1>2, <2>1, <2>3, <3>1, <3>2, <3>7, Zenon DEF DiskInv
  <2> QED
    BY <2>4, <2>5, <2>6, Zenon
<1> QED
  BY <1>5, <1>6

(* The disk gets ready, well or badly.                                     *)
LEMMA ReadyWhole ==
  ASSUME DiskInv, DiskReady, place = "disk", place' = place
  PROVE  DiskInv'
<1>1. PICK a, d, e : a = ata /\ d = disk /\ e = disk' /\ d.state = "busy"
        /\ UNCHANGED <<ata, drives, hurried>>
  BY Zenon DEF DiskReady
<1>2. CallTyped(a) /\ DiskTyped(d)
  BY <1>1, Zenon DEF DiskInv
<1>3. PICK w \in Int : w = SectorBytes \div 2 /\ 2 * w = SectorBytes /\ w > 0
  BY AtaAssumption, SMT
<1>4. \/ e = [d EXCEPT !.state = "error", !.words = 0]
      \/ d.command \in {"FLUSH", "STORE"} /\ e = [d EXCEPT !.state = "idle"]
      \/ d.command \notin {"FLUSH", "STORE"} /\ e = [d EXCEPT !.state = "data", !.words = w]
  BY <1>1, <1>3, Zenon DEF DiskReady
<1>5. DiskTyped(e) /\ e.master = d.master /\ e.command = d.command
  <2>1. CASE e = [d EXCEPT !.state = "error", !.words = 0]
    BY <1>2, <2>1, SMT DEF DiskTyped
  <2>2. CASE e = [d EXCEPT !.state = "idle"]
    BY <1>2, <2>2, SMT DEF DiskTyped
  <2>3. CASE e = [d EXCEPT !.state = "data", !.words = w]
    BY <1>2, <2>3, SMT DEF DiskTyped
  <2> QED
    BY <1>4, <2>1, <2>2, <2>3, Zenon
<1>6. \/ e.state = "error" /\ e.words = 0
      \/ d.command \in {"FLUSH", "STORE"} /\ e.state = "idle" /\ e.words = d.words
      \/ d.command \notin {"FLUSH", "STORE"} /\ e.state = "data" /\ e.words = w
  <2>1. CASE e = [d EXCEPT !.state = "error", !.words = 0]
    BY <1>2, <2>1, SMT DEF DiskTyped
  <2>2. CASE d.command \in {"FLUSH", "STORE"} /\ e = [d EXCEPT !.state = "idle"]
    BY <1>2, <2>2, SMT DEF DiskTyped
  <2>3. CASE d.command \notin {"FLUSH", "STORE"} /\ e = [d EXCEPT !.state = "data", !.words = w]
    <3>1. e.state = "data" /\ e.words = w
      BY <1>2, <2>3, SMT DEF DiskTyped
    <3> QED
      BY <2>3, <3>1, Zenon
  <2> QED
    BY <1>4, <2>1, <2>2, <2>3, Zenon
<1>7. Present(disk)' <=> Present(d)
  BY <1>1, <1>5, Zenon DEF Present
<1>8. Quiet(d) => Quiet(e)
  BY <1>1, <1>6, SMT DEF Quiet
<1>9. ASSUME a.at \in {"answer", "status"}, Asked(a, d)
      PROVE  Asked(a, e)
  <2>1. d.command = a.op /\ d.words = 0 /\ a.op \in {"IDENTIFY", "READ", "FLUSH"}
    BY <1>1, <1>2, <1>9, SMT DEF Asked, CallTyped
  <2> QED
    BY <1>3, <1>6, <2>1, SMT DEF Asked
<1>10. ASSUME a.at = "transfer", Takes(a, d)
       PROVE  Takes(a, e)
  <2>1. CASE a.i = SectorBytes /\ Quiet(d)
    BY <1>8, <2>1, Zenon DEF Takes
  <2>2. CASE ~(a.i = SectorBytes /\ Quiet(d))
    <3>1. a.i = 0 /\ d.command = "WRITE"
      BY <1>1, <1>10, <2>2, SMT DEF Takes
    <3> QED
      BY <1>3, <1>5, <1>6, <3>1, AtaAssumption, SMT DEF Takes, DiskTyped
  <2> QED
    BY <2>1, <2>2
<1>11. ~Offers(a, d)
  BY <1>1, SMT DEF Offers
<1>12. Engaged(a, d) => Engaged(a, e)
  BY <1>9, <1>10, <1>11, Zenon DEF Engaged
<1>13. ~hurried' => Whole'
  BY <1>1, <1>7, <1>8, <1>12, Zenon DEF Whole, DiskInv, Idle
<1> QED
  BY <1>1, <1>2, <1>5, <1>13, Zenon DEF DiskInv

(* The drives are found while no call is made.                             *)
LEMMA FoundWhole ==
  ASSUME DiskInv, place \notin {"disk", "taken", "lost"}, DrivesFound
  PROVE  DiskInv'
<1>1. Idle /\ Idle' /\ UNCHANGED <<ata, disk, hurried>>
  BY Zenon DEF DiskInv, DrivesFound, Idle
<1>2. Whole' <=> Whole
  BY <1>1, Zenon DEF Whole
<1> QED
  BY <1>1, <1>2, Zenon DEF DiskInv

(* Whatever the disk answers, no call leaves it with words to give or to   *)
(* take, unless one did not wait for it (ata.cpp).                         *)
THEOREM SectorsMoveWhole ==
  ASSUME ReadsWithinSector
  PROVE  Spec => []SectorsTransferredWhole
<1>1. DiskInv /\ [Next]_vars => DiskInv'
  <2> SUFFICES ASSUME DiskInv, [Next]_vars
               PROVE  DiskInv'
    OBVIOUS
  <2>1. CASE UNCHANGED vars
    BY <2>1, Zenon DEF vars, fatVars, DiskInv, Whole, Idle, Present, ataVars
  <2>2. CASE LoadSegments \/ AddDrivers \/ SelectDrivers \/ Activate \/ ActivateDevice
    <3>1. UNCHANGED ataVars /\ place \notin {"disk", "taken", "lost"}
      <4>1. UNCHANGED ataVars
        BY <2>2, Zenon
           DEF LoadSegments, AddDrivers, SelectDrivers, Activate, ActivateDevice, fatVars
      <4>2. place = "segments" \/ place = "start" \/ place = "search" \/ place = "activate"
        BY <2>2, Zenon
           DEF LoadSegments, AddDrivers, SelectDrivers, Activate, ActivateDevice, At
      <4> QED
        BY <4>1, <4>2, SMT
    <3> QED
      BY <3>1, DiskUnchanged, Zenon
  <2>3. CASE AllActive
    <3>1. place = "activate" /\ (UNCHANGED ataVars \/ DrivesFound)
      BY <2>3, Zenon DEF AllActive, At
    <3>2. place \notin {"disk", "taken", "lost"}
      BY <3>1, SMT
    <3> QED
      BY <3>1, <3>2, DiskUnchanged, FoundWhole, Zenon
  <2>4. CASE SetMode
    <3>1. place = "mode" /\ (UNCHANGED ataVars \/ DrivesFound)
      BY <2>4, Zenon DEF SetMode, At
    <3>2. place \notin {"disk", "taken", "lost"}
      BY <3>1, SMT
    <3> QED
      BY <3>1, <3>2, DiskUnchanged, FoundWhole, Zenon
  <2>5. CASE UseDisk
    <3>1. place = "disk" /\ place' = place
      BY <2>5, Zenon DEF UseDisk, At
    <3>2. PICK call \in DiskCalls : CallDisk(call)
      BY <2>5, Zenon DEF UseDisk
    <3>3. CASE call.op = "Identify"
      <4>1. Identify(call.master)
        BY <3>2, <3>3, SMT DEF CallDisk
      <4>2. 0 \in Nat
        OBVIOUS
      <4> QED
        BY <3>1, <4>1, <4>2, CallsWhole, Zenon
    <3>4. CASE call.op = "Flush"
      <4>1. Flush(call.master)
        BY <3>2, <3>4, SMT DEF CallDisk
      <4>2. 0 \in Nat
        OBVIOUS
      <4> QED
        BY <3>1, <4>1, <4>2, CallsWhole, Zenon
    <3>5. CASE call.op = "Write28"
      <4>1. Write28(call.master, call.sector, call.count)
        BY <3>2, <3>5, SMT DEF CallDisk
      <4>2. call.count \in Nat
        BY <3>5, DiskCallsAssumption, SMT
      <4> QED
        BY <3>1, <4>1, <4>2, CallsWhole, Zenon
    <3>6. CASE call.op = "Read28"
      <4>1. Read28(call.master, call.sector, call.count)
        BY <3>2, <3>6, SMT DEF CallDisk
      <4>2. call.count \in Nat
        BY <3>6, DiskCallsAssumption, SMT
      <4>3. call.count <= SectorBytes
        BY <3>6, Zenon DEF ReadsWithinSector
      <4> QED
        BY <3>1, <4>1, <4>2, <4>3, CallsWhole, Zenon
    <3> QED
      BY <3>3, <3>4, <3>5, <3>6, DiskCallsAssumption, SMT
  <2>6. CASE ReadPartitions
    <3>1. place = "disk" /\ place' = place
      BY <2>6, Zenon DEF ReadPartitions, At
    <3>2. CASE AtaStep
      BY <3>1, <3>2, AnswerWhole, StatusWhole, TransferWhole, Zenon DEF AtaStep
    <3>3. CASE UNCHANGED ataVars
      BY <3>1, <3>3, DiskUnchanged, SMT
    <3>4. ASSUME NEW master, NEW sector, NEW count, Read28(master, sector, count),
                 count = SectorBytes \/ count = SectorBytes \div 4
          PROVE  DiskInv'
      <4>1. count \in Nat /\ count <= SectorBytes
        BY <3>4, AtaAssumption, SMT
      <4> QED
        BY <3>1, <3>4, <4>1, CallsWhole, Zenon
    <3>5. CASE ReadPartition(FALSE) \/ FatStep
      BY <3>3, <3>4, <3>5, Zenon
         DEF FatStep, ReadPartition, Table, EmptyPartition, ReadBiosBlock, LastPartition, ReadRoot,
             LastEntry, SkipEntry, File, Cluster, ReadSector, FileEnds, NextCluster, NoRead, Read
    <3> QED
      BY <2>6, <3>2, <3>5, Zenon DEF ReadPartitions
  <2>7. CASE TakeCard
    <3>1. UNCHANGED ataVars /\ (place' = "taken" \/ place' = "lost")
      BY <2>7, Zenon DEF TakeCard, Go, fatVars
    <3>2. place' \in {"disk", "taken", "lost"}
      BY <3>1, Zenon
    <3> QED
      BY <3>1, <3>2, DiskUnchanged, Zenon
  <2>8. CASE ControllerStep
    <3>1. UNCHANGED ataVars /\ place = "activate"
      BY <2>8, Zenon DEF ControllerStep, At, fatVars
    <3>2. place \notin {"disk", "taken", "lost"}
      BY <3>1, SMT
    <3> QED
      BY <3>1, <3>2, DiskUnchanged, Zenon
  <2>9. CASE DiskStep
    BY <2>9, ReadyWhole, Zenon DEF DiskStep, At
  <2> QED
    BY <2>1, <2>2, <2>3, <2>4, <2>5, <2>6, <2>7, <2>8, <2>9, Zenon DEF Next, Kernel
<1>2. DiskInv => SectorsTransferredWhole
  BY Zenon DEF DiskInv, Whole, Quiet, SectorsTransferredWhole
<1> QED
  BY InitDiskInv, <1>1, <1>2, PTL DEF Spec

-----------------------------------------------------------------------------
(* Files *)

(* What the walk knows of a file.                                          *)
FileTyped(f) ==
  /\ {"at", "size", "SIZE", "dataStart", "sectorsPerCluster", "cluster", "offset", "chain"}
       \subseteq DOMAIN f
  /\ f.sectorsPerCluster \in Nat /\ {f.size, f.SIZE, f.offset} \subseteq Int
  /\ f.chain \in Seq(Clusters)

InFile(f) == f.at \in {"cluster", "sector", "next"}

(* What has been taken off SIZE is that many clusters and sectors.         *)
Counts(f, clusters, sectors) ==
  f.size - f.SIZE = SectorBytes * (clusters * f.sectorsPerCluster + sectors)

(* A file's chain ends with the cluster it has come to, and what is taken  *)
(* off SIZE is the clusters before that and the sectors read of it: the    *)
(* loop is left behind the whole cluster or behind the file.               *)
FollowsFile(f) ==
  /\ InFile(f) => f.chain # <<>> /\ f.chain[Len(f.chain)] = f.cluster
  /\ f.sectorsPerCluster # 0 =>
       /\ f.at = "cluster" /\ f.SIZE > 0 => Counts(f, Len(f.chain) - 1, 0)
       /\ f.at = "sector" =>
            Counts(f, Len(f.chain) - 1, f.offset) /\ 0 <= f.offset /\ f.offset <= f.sectorsPerCluster
       /\ f.at = "next" /\ f.SIZE > 0 => Counts(f, Len(f.chain), 0)

(* A sector of a file.                                                     *)
SectorAt(f, offset) == Uint(f.dataStart + f.sectorsPerCluster * (f.cluster - 2) + offset)

(* The call made for a file asks for the sector before the offset, or for  *)
(* the one behind the cluster.                                             *)
AsksFor(f, a) ==
  a.op = "READ" /\ f.sectorsPerCluster # 0 =>
    /\ f.at = "sector" => 1 <= f.offset /\ a.sector = SectorAt(f, f.offset - 1)
    /\ f.at = "next" => f.SIZE > 0 /\ a.sector = SectorAt(f, f.sectorsPerCluster)

(* Between two calls none is under way.                                    *)
Resting(a) == {"at", "op", "sector"} \subseteq DOMAIN a /\ (a.at = "idle" => a.op = "none")

(* The walk knows what it has printed of the file it is in, and asks for   *)
(* what is next.                                                           *)
FileFollowed == FileTyped(fat) /\ FollowsFile(fat) /\ AsksFor(fat, ata) /\ Resting(ata)

(* Before the disk is used no file has been followed.                      *)
LEMMA InitFileFollowed == Init => FileFollowed
<1> SUFFICES ASSUME FatInit, AtaInit
             PROVE  FileFollowed
  BY Zenon DEF Init
<1>1. FileTyped(fat) /\ fat.at = "start"
  BY SMT DEF FatInit, FileTyped
<1>2. Resting(ata) /\ ata.op = "none"
  BY SMT DEF AtaInit, Resting
<1> QED
  BY <1>1, <1>2, SMT DEF FileFollowed, FollowsFile, AsksFor, InFile

(* One sector more, one cluster more.                                      *)
LEMMA SectorMore ==
  ASSUME NEW clusters \in Int, NEW spc \in Int, NEW sectors \in Int
  PROVE  SectorBytes * (clusters * spc + (sectors + 1))
           = SectorBytes * (clusters * spc + sectors) + SectorBytes
<1>1. PICK p \in Int : p = clusters * spc + sectors
  BY SMT
<1>2. clusters * spc + (sectors + 1) = p + 1
  BY <1>1, SMT
<1>3. SectorBytes * (p + 1) = SectorBytes * p + SectorBytes
  BY AtaAssumption, SMT
<1> QED
  BY <1>1, <1>2, <1>3, Zenon

(* All the sectors of a cluster make one cluster more.                     *)
LEMMA ClusterMore ==
  ASSUME NEW clusters \in Int, NEW spc \in Int
  PROVE  SectorBytes * ((clusters - 1) * spc + spc) = SectorBytes * (clusters * spc + 0)
<1>1. (clusters - 1) * spc + spc = clusters * spc + 0
  BY SMT
<1> QED
  BY <1>1, Zenon

(* A call that is made, or not, is under way or there is none.             *)
LEMMA CallsRest ==
  ASSUME Resting(ata),
         \/ UNCHANGED ataVars
         \/ \E master, sector, count : Read28(master, sector, count) \/ Write28(master, sector, count)
         \/ \E master : Identify(master) \/ Flush(master)
  PROVE  Resting(ata')
<1>1. CASE UNCHANGED ata
  BY <1>1
<1>2. CASE \E op, sector, count, at : Calling(op, sector, count, at) /\ at # "idle"
  <2>1. PICK op, sector, count, at : Calling(op, sector, count, at) /\ at # "idle"
    BY <1>2, Zenon
  <2>2. PICK b : b = ata' /\ b = [at |-> at, op |-> op, sector |-> sector, count |-> count, i |-> 0]
    BY <2>1, Zenon DEF Calling
  <2>3. Resting(b)
    BY <2>1, <2>2, SMT DEF Resting
  <2> QED
    BY <2>2, <2>3, Zenon
<1>3. "answer" # "idle" /\ "status" # "idle" /\ "transfer" # "idle"
  OBVIOUS
<1> QED
  BY <1>1, <1>2, <1>3, Zenon DEF Read28, Write28, Identify, Flush, ataVars

(* A call that goes on asks for what it asked for, until it ends.          *)
LEMMA CallsGoOn ==
  ASSUME Resting(ata), AtaStep
  PROVE  /\ Resting(ata')
         /\ ata'.op = "none" \/ (ata'.op = ata.op /\ ata'.sector = ata.sector)
<1>1. PICK a, b : a = ata /\ b = ata'
  BY Zenon
<1>2. \/ b = [a EXCEPT !.at = "idle", !.op = "none"]
      \/ b = [a EXCEPT !.at = "status"]
      \/ b = [a EXCEPT !.at = "transfer"]
      \/ b = [a EXCEPT !.i = @ + 2]
  BY <1>1, Zenon DEF AtaStep, Answer, Status, Transfer, Return
<1>3. a.at # "idle"
  BY <1>1, SMT DEF AtaStep, Answer, Status, Transfer
<1>4. Resting(b) /\ (b.op = "none" \/ (b.op = a.op /\ b.sector = a.sector))
  <2>1. Resting(a)
    BY <1>1
  <2>2. CASE b = [a EXCEPT !.at = "idle", !.op = "none"]
    BY <2>1, <2>2, SMT DEF Resting
  <2>3. CASE b = [a EXCEPT !.at = "status"]
    BY <2>1, <2>3, SMT DEF Resting
  <2>4. CASE b = [a EXCEPT !.at = "transfer"]
    BY <2>1, <2>4, SMT DEF Resting
  <2>5. CASE b = [a EXCEPT !.i = @ + 2]
    BY <1>3, <2>1, <2>5, SMT DEF Resting
  <2> QED
    BY <1>2, <2>2, <2>3, <2>4, <2>5
<1> QED
  BY <1>1, <1>4, Zenon

(* What is asked for is what the call is made with, if it is made.         *)
LEMMA ReadAsks ==
  ASSUME Resting(ata), NEW master, NEW sector, NEW count, Read28(master, sector, count)
  PROVE  ata'.op = "READ" => ata'.sector = sector
<1>1. CASE ata' = [at |-> "status", op |-> "READ", sector |-> sector, count |-> count, i |-> 0]
  BY <1>1, SMT
<1>2. CASE UNCHANGED ata
  <2>1. ata.op = "none"
    BY Zenon DEF Resting, Read28, Idle
  <2> QED
    BY <1>2, <2>1, SMT
<1> QED
  BY <1>1, <1>2, Zenon DEF Read28, Calling, ataVars

(* A step of the walk that stands nowhere in a file.                       *)
LEMMA OutsideFollows ==
  ASSUME FileFollowed, ~InFile(fat),
         ReadPartition(FALSE) \/ Table \/ EmptyPartition \/ ReadBiosBlock \/ LastPartition
           \/ ReadRoot \/ LastEntry \/ SkipEntry
  PROVE  FileFollowed'
<1>1. PICK f, g : f = fat /\ g = fat'
  BY Zenon
<1>2. FileTyped(f) /\ ~InFile(f) /\ Resting(ata)
  BY <1>1, Zenon DEF FileFollowed
<1>3. FileTyped(g) /\ ~InFile(g)
  <2>1. CASE ReadPartition(FALSE)
    <3>1. g = [f EXCEPT !.at = "table", !.master = FALSE]
      BY <1>1, <2>1, Zenon DEF ReadPartition
    <3> QED
      BY <1>2, <3>1, SMT DEF FileTyped, InFile
  <2>2. CASE Table
    <3>1. PICK where \in {"partition", "done"} : g = [f EXCEPT !.at = where]
      BY <1>1, <2>2, Zenon DEF Table
    <3> QED
      BY <1>2, <3>1, SMT DEF FileTyped, InFile
  <2>3. CASE EmptyPartition
    <3>1. g = [f EXCEPT !.partition = @ + 1]
      BY <1>1, <2>3, Zenon DEF EmptyPartition
    <3> QED
      BY <1>2, <3>1, SMT DEF FileTyped, InFile
  <2>4. CASE ReadBiosBlock
    <3>1. PICK lba : g = [f EXCEPT !.at = "block", !.partition = @ + 1, !.lba = lba]
      BY <1>1, <2>4, Zenon DEF ReadBiosBlock
    <3> QED
      BY <1>2, <3>1, SMT DEF FileTyped, InFile
  <2>5. CASE LastPartition
    <3>1. g = [f EXCEPT !.at = "done"]
      BY <1>1, <2>5, Zenon DEF LastPartition
    <3> QED
      BY <1>2, <3>1, SMT DEF FileTyped, InFile
  <2>6. CASE ReadRoot
    <3>1. PICK bpb, fatStart, dataStart :
            /\ bpb \in Blocks
            /\ g = [f EXCEPT !.at = "entry", !.entry = 0, !.fatStart = fatStart,
                             !.dataStart = dataStart, !.sectorsPerCluster = bpb.sectorsPerCluster]
      BY <1>1, <2>6, Zenon DEF ReadRoot
    <3>2. bpb.sectorsPerCluster \in Nat
      BY <3>1, FatAssumption, Zenon
    <3> QED
      BY <1>2, <3>1, <3>2, SMT DEF FileTyped, InFile
  <2>7. CASE LastEntry
    <3>1. g = [f EXCEPT !.at = "partition", !.entry = 0, !.lba = 0, !.fatStart = 0,
                        !.dataStart = 0, !.sectorsPerCluster = 0]
      BY <1>1, <2>7, Zenon DEF LastEntry
    <3> QED
      BY <1>2, <3>1, SMT DEF FileTyped, InFile
  <2>8. CASE SkipEntry
    <3>1. g = [f EXCEPT !.entry = @ + 1]
      BY <1>1, <2>8, Zenon DEF SkipEntry
    <3> QED
      BY <1>2, <3>1, SMT DEF FileTyped, InFile
  <2> QED
    BY <2>1, <2>2, <2>3, <2>4, <2>5, <2>6, <2>7, <2>8, Zenon
<1>4. g.at # "cluster" /\ g.at # "sector" /\ g.at # "next"
  BY <1>3, SMT DEF InFile
<1>5. FollowsFile(g) /\ AsksFor(g, ata')
  BY <1>3, <1>4, Zenon DEF FollowsFile, AsksFor
<1>6. Resting(ata')
  BY <1>2, CallsRest, Zenon
     DEF ReadPartition, Table, EmptyPartition, ReadBiosBlock, LastPartition, ReadRoot, LastEntry,
         SkipEntry, Read, NoRead
<1> QED
  BY <1>1, <1>3, <1>5, <1>6, Zenon DEF FileFollowed

(* A file begins.                                                          *)
LEMMA FileFollows ==
  ASSUME FileFollowed, File
  PROVE  FileFollowed'
<1>1. PICK f, g : f = fat /\ g = fat'
  BY Zenon
<1>2. FileTyped(f) /\ Resting(ata) /\ ata' = ata
  BY <1>1, Zenon DEF FileFollowed, File, NoRead, ataVars
<1>3. PICK cluster \in Clusters, size \in Sizes :
        g = [f EXCEPT !.at = "cluster", !.entry = @ + 1, !.cluster = cluster,
                      !.chain = <<cluster>>, !.size = size, !.SIZE = size]
  BY <1>1, Zenon DEF File
<1>4. size \in Int
  BY <1>3, FatAssumption, Zenon
<1>5. <<cluster>> \in Seq(Clusters) /\ Len(<<cluster>>) = 1 /\ <<cluster>>[1] = cluster
  BY <1>3, SMT
<1>6. /\ FileTyped(g) /\ g.at = "cluster" /\ g.size = size /\ g.SIZE = size
      /\ g.chain = <<cluster>> /\ g.cluster = cluster
  BY <1>2, <1>3, <1>4, <1>5, SMT DEF FileTyped
<1>7. Counts(g, Len(g.chain) - 1, 0)
  <2>1. Len(g.chain) - 1 = 0 /\ 0 * g.sectorsPerCluster + 0 = 0 /\ SectorBytes * 0 = 0
    BY <1>5, <1>6, AtaAssumption, SMT DEF FileTyped
  <2>2. size - size = 0
    BY <1>4, SMT
  <2> QED
    BY <1>6, <2>1, <2>2, Zenon DEF Counts
<1>8. FollowsFile(g) /\ AsksFor(g, ata)
  BY <1>5, <1>6, <1>7, SMT DEF FollowsFile, AsksFor
<1> QED
  BY <1>1, <1>2, <1>6, <1>8, Zenon DEF FileFollowed

(* A cluster begins, or there is nothing left of the file.                 *)
LEMMA ClusterFollows ==
  ASSUME FileFollowed, Cluster
  PROVE  FileFollowed'
<1>1. PICK f, g : f = fat /\ g = fat'
  BY Zenon
<1>2. FileTyped(f) /\ f.at = "cluster" /\ FollowsFile(f)
  BY <1>1, Zenon DEF FileFollowed, Cluster, FatAt
<1>3. ata' = ata /\ Resting(ata) /\ ata.op = "none"
  BY Zenon DEF FileFollowed, Resting, Cluster, FatAt, Idle, NoRead, ataVars
<1>4. AsksFor(g, ata)
  BY <1>3, SMT DEF AsksFor
<1>5. CASE f.SIZE > 0
  <2>1. g = [f EXCEPT !.at = "sector", !.offset = 0]
    BY <1>1, <1>5, Zenon DEF Cluster
  <2>2. /\ FileTyped(g) /\ g.at = "sector" /\ g.offset = 0
        /\ g.size = f.size /\ g.SIZE = f.SIZE /\ g.chain = f.chain /\ g.cluster = f.cluster
        /\ g.sectorsPerCluster = f.sectorsPerCluster
    BY <1>2, <2>1, SMT DEF FileTyped
  <2>3. g.sectorsPerCluster # 0 => Counts(g, Len(g.chain) - 1, g.offset)
    BY <1>2, <1>5, <2>2, Zenon DEF FollowsFile, Counts
  <2>4. InFile(f)
    BY <1>2, SMT DEF InFile
  <2>5. g.chain # <<>> /\ g.chain[Len(g.chain)] = g.cluster
    BY <1>2, <2>2, <2>4, Zenon DEF FollowsFile
  <2>6. FollowsFile(g)
    BY <2>2, <2>3, <2>5, SMT DEF FollowsFile, FileTyped
  <2> QED
    BY <1>1, <1>3, <1>4, <2>2, <2>6, Zenon DEF FileFollowed
<1>6. CASE ~(f.SIZE > 0)
  <2>1. g = Forget([f EXCEPT !.at = "entry"])
    BY <1>1, <1>6, Zenon DEF Cluster
  <2>2. <<>> \in Seq(Clusters)
    BY SMT
  <2>3. FileTyped(g) /\ g.at = "entry"
    BY <1>2, <2>1, <2>2, SMT DEF FileTyped, Forget
  <2>4. FollowsFile(g)
    BY <2>3, SMT DEF FollowsFile, InFile
  <2> QED
    BY <1>1, <1>3, <1>4, <2>3, <2>4, Zenon DEF FileFollowed
<1> QED
  BY <1>5, <1>6

(* A sector is read; one too many, which is not counted, before the loop is*)
(* left.                                                                   *)
LEMMA ReadSectorFollows ==
  ASSUME FileFollowed, ReadSector
  PROVE  FileFollowed'
<1>1. PICK f, g : f = fat /\ g = fat'
  BY Zenon
<1>2. FileTyped(f) /\ f.at = "sector" /\ FollowsFile(f) /\ f.SIZE > 0 /\ Resting(ata)
  BY <1>1, Zenon DEF FileFollowed, ReadSector, FatAt
<1>3. InFile(f)
  BY <1>2, SMT DEF InFile
<1>4. f.chain # <<>> /\ f.chain[Len(f.chain)] = f.cluster
  BY <1>2, <1>3, Zenon DEF FollowsFile
<1>5. f.sectorsPerCluster # 0 =>
        Counts(f, Len(f.chain) - 1, f.offset) /\ 0 <= f.offset /\ f.offset <= f.sectorsPerCluster
  BY <1>2, Zenon DEF FollowsFile
<1>6. Resting(ata')
  BY <1>2, CallsRest, Zenon DEF ReadSector, Read
<1>7. ata'.op = "READ" => ata'.sector = SectorAt(f, f.offset)
  <2>1. Read28(fat.master, SectorAt(f, f.offset), SectorBytes)
    BY <1>1, Zenon DEF ReadSector, Read, FileSector, SectorAt
  <2> QED
    BY <1>2, <2>1, ReadAsks, Zenon
<1>8. CASE f.offset + 1 > f.sectorsPerCluster
  <2>1. g = [f EXCEPT !.at = "next", !.offset = @ + 1]
    BY <1>1, <1>8, Zenon DEF ReadSector, Leaves
  <2>2. /\ FileTyped(g) /\ g.at = "next"
        /\ g.size = f.size /\ g.SIZE = f.SIZE /\ g.chain = f.chain /\ g.cluster = f.cluster
        /\ g.dataStart = f.dataStart /\ g.sectorsPerCluster = f.sectorsPerCluster
    BY <1>2, <2>1, SMT DEF FileTyped
  <2>3. g.sectorsPerCluster # 0 => f.offset = f.sectorsPerCluster
    BY <1>2, <1>5, <1>8, <2>2, SMT DEF FileTyped
  <2>4. ASSUME g.sectorsPerCluster # 0
        PROVE  Counts(g, Len(g.chain), 0)
    <3>1. Counts(f, Len(f.chain) - 1, f.sectorsPerCluster)
      BY <1>5, <2>2, <2>3, <2>4, Zenon
    <3>2. Len(f.chain) \in Int /\ f.sectorsPerCluster \in Int
      BY <1>2, SMT DEF FileTyped
    <3> QED
      BY <2>2, <3>1, <3>2, ClusterMore, Zenon DEF Counts
  <2>5. FollowsFile(g)
    BY <1>4, <2>2, <2>4, SMT DEF FollowsFile
  <2>6. ASSUME ata'.op = "READ", g.sectorsPerCluster # 0
        PROVE  ata'.sector = SectorAt(g, g.sectorsPerCluster)
    BY <1>7, <2>2, <2>3, <2>6, Zenon DEF SectorAt
  <2>7. AsksFor(g, ata')
    BY <1>2, <2>2, <2>6, SMT DEF AsksFor
  <2> QED
    BY <1>1, <1>6, <2>2, <2>5, <2>7, Zenon DEF FileFollowed
<1>9. CASE ~(f.offset + 1 > f.sectorsPerCluster)
  <2>1. g = [f EXCEPT !.offset = @ + 1, !.SIZE = @ - SectorBytes]
    BY <1>1, <1>9, Zenon DEF ReadSector, Leaves
  <2>2. SectorBytes \in Int
    BY AtaAssumption, SMT
  <2>3. /\ FileTyped(g) /\ g.at = "sector" /\ g.offset = f.offset + 1
        /\ g.size = f.size /\ g.SIZE = f.SIZE - SectorBytes /\ g.chain = f.chain
        /\ g.cluster = f.cluster /\ g.dataStart = f.dataStart
        /\ g.sectorsPerCluster = f.sectorsPerCluster
    BY <1>2, <2>1, <2>2, SMT DEF FileTyped
  <2>4. ASSUME g.sectorsPerCluster # 0
        PROVE  /\ Counts(g, Len(g.chain) - 1, g.offset)
               /\ 1 <= g.offset /\ g.offset <= g.sectorsPerCluster
    <3>1. Counts(f, Len(f.chain) - 1, f.offset) /\ 0 <= f.offset
      BY <1>5, <2>3, <2>4, Zenon
    <3>2. /\ Len(f.chain) - 1 \in Int /\ f.sectorsPerCluster \in Int /\ f.offset \in Int
          /\ f.size \in Int /\ f.SIZE \in Int
      BY <1>2, SMT DEF FileTyped
    <3>3. PICK clusters \in Int : clusters = Len(f.chain) - 1
      BY <3>2, Zenon
    <3>4. PICK whole \in Int, more \in Int :
            /\ whole = SectorBytes * (clusters * f.sectorsPerCluster + f.offset)
            /\ more = SectorBytes * (clusters * f.sectorsPerCluster + (f.offset + 1))
            /\ more = whole + SectorBytes
      BY <2>2, <3>2, SectorMore, SMT
    <3>5. f.size - f.SIZE = whole
      BY <3>1, <3>3, <3>4, Zenon DEF Counts
    <3>6. f.size - (f.SIZE - SectorBytes) = more
      BY <2>2, <3>2, <3>4, <3>5, SMT
    <3>7. Counts(g, Len(g.chain) - 1, g.offset)
      BY <2>3, <3>3, <3>4, <3>6, Zenon DEF Counts
    <3>8. 1 <= f.offset + 1 /\ f.offset + 1 <= f.sectorsPerCluster
      BY <1>2, <1>9, <3>1, SMT DEF FileTyped
    <3> QED
      BY <2>3, <3>7, <3>8, Zenon
  <2>5. FollowsFile(g)
    <3>1. g.sectorsPerCluster # 0 => 0 <= g.offset
      BY <2>3, <2>4, SMT DEF FileTyped
    <3> QED
      BY <1>4, <2>3, <2>4, <3>1, SMT DEF FollowsFile
  <2>6. ata'.op = "READ" => ata'.sector = SectorAt(g, g.offset - 1)
    <3>1. g.offset - 1 = f.offset
      BY <1>2, <2>3, SMT DEF FileTyped
    <3> QED
      BY <1>7, <2>3, <3>1, Zenon DEF SectorAt
  <2>7. AsksFor(g, ata')
    BY <2>3, <2>4, <2>6, SMT DEF AsksFor
  <2> QED
    BY <1>1, <1>6, <2>3, <2>5, <2>7, Zenon DEF FileFollowed
<1> QED
  BY <1>8, <1>9

(* The file ends, or its next cluster is looked up.                        *)
LEMMA NextFollows ==
  ASSUME FileFollowed, FileEnds \/ NextCluster
  PROVE  FileFollowed'
<1>1. PICK f, g : f = fat /\ g = fat'
  BY Zenon
<1>2. FileTyped(f) /\ FollowsFile(f) /\ Resting(ata)
  BY <1>1, Zenon DEF FileFollowed
<1>3. CASE FileEnds
  <2>1. g = [f EXCEPT !.at = "next"] /\ f.SIZE <= 0 /\ f.at = "sector"
    BY <1>1, <1>3, Zenon DEF FileEnds, FatAt
  <2>2. /\ FileTyped(g) /\ g.at = "next" /\ g.SIZE = f.SIZE /\ g.chain = f.chain
        /\ g.cluster = f.cluster
    BY <1>2, <2>1, SMT DEF FileTyped
  <2>3. InFile(f)
    BY <2>1, SMT DEF InFile
  <2>4. g.chain # <<>> /\ g.chain[Len(g.chain)] = g.cluster
    BY <1>2, <2>2, <2>3, Zenon DEF FollowsFile
  <2>5. FollowsFile(g)
    BY <2>1, <2>2, <2>4, SMT DEF FollowsFile, FileTyped
  <2>6. ata' = ata /\ ata.op = "none"
    BY <1>2, <1>3, Zenon DEF Resting, FileEnds, FatAt, Idle, NoRead, ataVars
  <2>7. AsksFor(g, ata)
    BY <2>6, SMT DEF AsksFor
  <2> QED
    BY <1>1, <1>2, <2>2, <2>5, <2>6, <2>7, Zenon DEF FileFollowed
<1>4. CASE NextCluster
  <2>1. f.at = "next"
    BY <1>1, <1>4, Zenon DEF NextCluster, FatAt
  <2>2. PICK cluster, chain :
          /\ cluster \in Clusters
          /\ chain = IF f.sectorsPerCluster = 0 THEN <<cluster>> ELSE Append(f.chain, cluster)
          /\ g = [f EXCEPT !.at = "cluster", !.cluster = cluster, !.offset = 0, !.chain = chain]
    BY <1>1, <1>4, Zenon DEF NextCluster
  <2>3. /\ chain \in Seq(Clusters) /\ chain # <<>> /\ chain[Len(chain)] = cluster
        /\ f.sectorsPerCluster # 0 => Len(chain) - 1 = Len(f.chain)
    <3>1. f.chain \in Seq(Clusters) /\ cluster \in Clusters
      BY <1>2, <2>2, Zenon DEF FileTyped
    <3>2. CASE f.sectorsPerCluster = 0
      <4>1. chain = <<cluster>>
        BY <2>2, <3>2, Zenon
      <4> QED
        BY <3>1, <3>2, <4>1, SMT
    <3>3. CASE f.sectorsPerCluster # 0
      <4>1. chain = Append(f.chain, cluster)
        BY <2>2, <3>3, Zenon
      <4> QED
        BY <3>1, <4>1, SMT
    <3> QED
      BY <3>2, <3>3
  <2>4. /\ FileTyped(g) /\ g.at = "cluster" /\ g.chain = chain /\ g.cluster = cluster
        /\ g.size = f.size /\ g.SIZE = f.SIZE
        /\ g.sectorsPerCluster = f.sectorsPerCluster
    BY <1>2, <2>2, <2>3, SMT DEF FileTyped
  <2>5. ASSUME g.sectorsPerCluster # 0, g.SIZE > 0
        PROVE  Counts(g, Len(g.chain) - 1, 0)
    BY <1>2, <2>1, <2>3, <2>4, <2>5, Zenon DEF FollowsFile, Counts
  <2>6. FollowsFile(g) /\ AsksFor(g, ata')
    BY <2>3, <2>4, <2>5, SMT DEF FollowsFile, AsksFor
  <2>7. Resting(ata')
    BY <1>2, <1>4, CallsRest, Zenon DEF NextCluster, Read
  <2> QED
    BY <1>1, <2>4, <2>6, <2>7, Zenon DEF FileFollowed
<1> QED
  BY <1>3, <1>4

(* What is asked for is what SIZE says is next.                            *)
LEMMA AskedFollows ==
  ASSUME FileFollowed
  PROVE  SectorsFollowFile
<1> SUFFICES ASSUME ata.op = "READ", fat.sectorsPerCluster # 0
             PROVE  /\ fat.at = "sector" => ReadsNextOfFile
                    /\ fat.at = "next" => ReadsBehindCluster
  BY Zenon DEF SectorsFollowFile
<1>1. PICK f, n : f = fat /\ n = Len(f.chain)
  BY Zenon
<1>2. FileTyped(f) /\ FollowsFile(f) /\ AsksFor(f, ata)
  BY <1>1, Zenon DEF FileFollowed
<1>3. f.chain \in Seq(Clusters) /\ n \in Nat /\ f.sectorsPerCluster \in Nat /\ f.offset \in Int
  BY <1>1, <1>2, SMT DEF FileTyped
<1>4. ASSUME f.at = "sector"
      PROVE  ReadsNextOfFile
  <2>1. InFile(f)
    BY <1>4, SMT DEF InFile
  <2>2. f.chain # <<>> /\ f.chain[n] = f.cluster
    BY <1>1, <1>2, <2>1, Zenon DEF FollowsFile
  <2>3. Counts(f, n - 1, f.offset) /\ f.offset <= f.sectorsPerCluster
    BY <1>1, <1>2, <1>4, Zenon DEF FollowsFile
  <2>4. 1 <= f.offset /\ ata.sector = SectorAt(f, f.offset - 1)
    BY <1>1, <1>2, <1>4, Zenon DEF AsksFor
  <2>5. PICK last : last = f.offset - 1
    BY Zenon
  <2>6. n \in 1..n /\ last \in 0..(f.sectorsPerCluster - 1) /\ last + 1 = f.offset
    BY <1>1, <1>3, <2>2, <2>3, <2>4, <2>5, SMT
  <2>7. Printed = SectorBytes * ((n - 1) * fat.sectorsPerCluster + (last + 1))
    BY <1>1, <2>3, <2>6, Zenon DEF Printed, Counts
  <2>8. ata.sector = SectorOf(fat.chain[n], last)
    BY <1>1, <2>2, <2>4, <2>5, Zenon DEF SectorOf, SectorAt
  <2> QED
    BY <1>1, <2>6, <2>7, <2>8, Zenon DEF ReadsNextOfFile
<1>5. ASSUME f.at = "next"
      PROVE  ReadsBehindCluster
  <2>1. InFile(f)
    BY <1>5, SMT DEF InFile
  <2>2. f.chain[n] = f.cluster
    BY <1>1, <1>2, <2>1, Zenon DEF FollowsFile
  <2>3. f.SIZE > 0 /\ ata.sector = SectorAt(f, f.sectorsPerCluster)
    BY <1>1, <1>2, <1>5, Zenon DEF AsksFor
  <2>4. Counts(f, n, 0)
    BY <1>1, <1>2, <1>5, <2>3, Zenon DEF FollowsFile
  <2>5. n * f.sectorsPerCluster + 0 = n * f.sectorsPerCluster
    BY <1>3, SMT
  <2>6. Printed = SectorBytes * (n * fat.sectorsPerCluster)
    BY <1>1, <2>4, <2>5, Zenon DEF Printed, Counts
  <2>7. ata.sector = SectorOf(fat.chain[n], fat.sectorsPerCluster)
    BY <1>1, <2>2, <2>3, Zenon DEF SectorOf, SectorAt
  <2> QED
    BY <1>1, <2>6, <2>7, Zenon DEF ReadsBehindCluster
<1> QED
  BY <1>1, <1>4, <1>5, Zenon

(* For every layout of a disk, every chain of clusters and every size of a *)
(* file: while FAT reads the file, the sector it asks the disk for is the  *)
(* next one of the file's clusters, or the one behind a cluster all of     *)
(* which it has printed (fat.cpp).                                         *)
THEOREM FilesAreFollowed == Spec => []SectorsFollowFile
<1>1. FileFollowed /\ [Next]_vars => FileFollowed'
  <2> SUFFICES ASSUME FileFollowed, [Next]_vars
               PROVE  FileFollowed'
    OBVIOUS
  <2>1. CASE UNCHANGED <<fat, ata>>
    BY <2>1, Zenon DEF FileFollowed
  <2>2. CASE ReadPartition(FALSE) \/ FatStep
    <3>1. CASE ReadPartition(FALSE) \/ Table \/ EmptyPartition \/ ReadBiosBlock \/ LastPartition
                 \/ ReadRoot \/ LastEntry \/ SkipEntry
      <4>1. \/ fat.at = "start" \/ fat.at = "table" \/ fat.at = "partition"
            \/ fat.at = "block" \/ fat.at = "entry"
        BY <3>1, Zenon
           DEF ReadPartition, Table, EmptyPartition, ReadBiosBlock, LastPartition, ReadRoot,
               LastEntry, SkipEntry, FatAt
      <4>2. ~InFile(fat)
        BY <4>1, SMT DEF InFile
      <4> QED
        BY <3>1, <4>2, OutsideFollows, Zenon
    <3> QED
      BY <2>2, <3>1, FileFollows, ClusterFollows, ReadSectorFollows, NextFollows, Zenon DEF FatStep
  <2>3. CASE AtaStep /\ UNCHANGED fat
    <3>1. /\ Resting(ata')
          /\ ata'.op = "none" \/ (ata'.op = ata.op /\ ata'.sector = ata.sector)
      BY <2>3, CallsGoOn, Zenon DEF FileFollowed
    <3>2. AsksFor(fat, ata')
      BY <3>1, SMT DEF FileFollowed, AsksFor
    <3> QED
      BY <2>3, <3>1, <3>2, Zenon DEF FileFollowed
  <2>4. CASE UseDisk
    <3>1. PICK call \in DiskCalls : CallDisk(call)
      BY <2>4, Zenon DEF UseDisk
    <3>2. call.op \in {"Identify", "Read28", "Write28", "Flush"}
      BY DiskCallsAssumption, SMT
    <3>3. Resting(ata')
      <4>1. \/ Identify(call.master)
            \/ Read28(call.master, call.sector, call.count)
            \/ Write28(call.master, call.sector, call.count)
            \/ Flush(call.master)
        <5>1. call.op = "Identify" => Identify(call.master)
          BY <3>1, SMT DEF CallDisk
        <5>2. call.op = "Read28" => Read28(call.master, call.sector, call.count)
          BY <3>1, SMT DEF CallDisk
        <5>3. call.op = "Write28" => Write28(call.master, call.sector, call.count)
          BY <3>1, SMT DEF CallDisk
        <5>4. call.op = "Flush" => Flush(call.master)
          BY <3>1, SMT DEF CallDisk
        <5> QED
          BY <3>2, <5>1, <5>2, <5>3, <5>4, Zenon
      <4> QED
        BY <4>1, CallsRest, Zenon DEF FileFollowed
    <3>4. fat.at = "start" /\ UNCHANGED fat
      BY <2>4, Zenon DEF UseDisk
    <3>5. AsksFor(fat, ata')
      BY <3>4, SMT DEF AsksFor
    <3> QED
      BY <3>3, <3>4, <3>5, Zenon DEF FileFollowed
  <2>5. CASE Kernel
    <3>1. CASE ReadPartitions
      BY <2>2, <2>3, <3>1, Zenon DEF ReadPartitions
    <3>2. CASE LoadSegments \/ AddDrivers \/ SelectDrivers \/ Activate \/ ActivateDevice
                 \/ AllActive \/ SetMode \/ TakeCard
      BY <2>1, <3>2, Zenon
         DEF LoadSegments, AddDrivers, SelectDrivers, Activate, ActivateDevice, AllActive,
             SetMode, TakeCard, fatVars, ataVars, DrivesFound
    <3> QED
      BY <2>4, <2>5, <3>1, <3>2, Zenon DEF Kernel
  <2>6. CASE ControllerStep \/ DiskStep \/ UNCHANGED vars
    BY <2>1, <2>6, Zenon DEF ControllerStep, DiskStep, DiskReady, vars, fatVars, ataVars
  <2> QED
    BY <2>5, <2>6, Zenon DEF Next
<1> QED
  BY InitFileFollowed, <1>1, AskedFollows, PTL DEF Spec

-----------------------------------------------------------------------------
(* The first network card *)

(* The order of addresses is one: two of them are in one order only.       *)
LEMMA AddressTyped ==
  ASSUME NEW a \in Address
  PROVE  /\ a[1] \in 0..(Buses - 1) /\ a[2] \in 0..(Devices - 1) /\ a[3] \in 0..(Functions - 1)
         /\ a = <<a[1], a[2], a[3]>>
  BY SMT DEF Address

(* Of two addresses the search comes to one before the other.              *)
LEMMA AddressesOrdered ==
  ASSUME NEW a \in Address, NEW b \in Address, a # b
  PROVE  (Before(a, b) \/ Before(b, a)) /\ ~(Before(a, b) /\ Before(b, a))
<1>1. /\ {a[1], a[2], a[3], b[1], b[2], b[3]} \subseteq Int
      /\ a = <<a[1], a[2], a[3]>> /\ b = <<b[1], b[2], b[3]>>
  BY AddressTyped, PciAssumption, SMT
<1>2. a[1] # b[1] \/ a[2] # b[2] \/ a[3] # b[3]
  BY <1>1, Zenon
<1> QED
  BY <1>1, <1>2, SMT DEF Before

(* There is one first card.                                                *)
LEMMA FirstCardIs ==
  ASSUME NEW card \in Cards, \A a \in Cards \ {card} : Before(card, a)
  PROVE  FirstCard = card
<1>1. PICK c : c = FirstCard
  BY Zenon
<1>2. c \in Cards /\ \A a \in Cards \ {c} : Before(c, a)
  BY <1>1, Zenon DEF FirstCard
<1>3. CASE c # card
  <2>1. c \in Cards \ {card} /\ card \in Cards \ {c}
    BY <1>2, <1>3, SMT
  <2>2. Before(card, c) /\ Before(c, card)
    BY <1>2, <2>1, Zenon
  <2>3. card \in Address /\ c \in Address
    BY <1>2, Zenon DEF Cards
  <2> QED
    BY <1>3, <2>2, <2>3, AddressesOrdered, Zenon
<1> QED
  BY <1>1, <1>3, Zenon

(* A device that answers anywhere answers at its first function.           *)
AnswersWell ==
  \A a \in Address : answers[a] # Nobody => answers[<<a[1], a[2], 0>>] # Nobody

(* The machine is found as its devices are.                                *)
LEMMA InitAnswersWell ==
  ASSUME Init
  PROVE  AnswersWell
<1>1. PICK kind \in [(0..(Buses - 1)) \X (0..(Devices - 1)) -> DeviceKinds] :
        answers = [a \in Address |-> kind[<<a[1], a[2]>>][a[3]]]
  BY Zenon DEF Init, PciInit
<1> SUFFICES ASSUME NEW a \in Address, answers[<<a[1], a[2], 0>>] = Nobody
             PROVE  answers[a] = Nobody
  BY Zenon DEF AnswersWell
<1>2. PICK b \in 0..(Buses - 1), d \in 0..(Devices - 1), f \in 0..(Functions - 1) :
        /\ a[1] = b /\ a[2] = d /\ a[3] = f
  BY AddressTyped, Zenon
<1>3. 0 \in 0..(Functions - 1)
  BY PciAssumption, SMT
<1>4. <<b, d, 0>> \in Address
  BY <1>3, SMT DEF Address
<1>5. PICK k \in DeviceKinds : k = kind[<<b, d>>]
  <2>1. <<b, d>> \in (0..(Buses - 1)) \X (0..(Devices - 1))
    BY SMT
  <2> QED
    BY <2>1, Zenon
<1>6. PICK z : z = <<b, d, 0>> /\ z[1] = b /\ z[2] = d /\ z[3] = 0
  <2>1. PICK z : z = <<b, d, 0>>
    BY Zenon
  <2>2. z[1] = b /\ z[2] = d /\ z[3] = 0
    BY <2>1, SMT
  <2> QED
    BY <2>1, <2>2, Zenon
<1>7. answers[z] = k[0]
  BY <1>1, <1>4, <1>5, <1>6, Zenon
<1>8. k[0] = Nobody
  BY <1>2, <1>6, <1>7, Zenon
<1>9. k[f] = Nobody
  BY <1>8, PciAssumption, Zenon
<1>10. answers[a] = k[f]
  BY <1>1, <1>2, <1>5, Zenon
<1> QED
  BY <1>9, <1>10, Zenon

(* The search is at an address, or behind the last of them.                *)
SearchAt(b, d, f) ==
  /\ b \in 0..Buses /\ d \in 0..(Devices - 1) /\ f \in 0..(Functions - 1)
  /\ search = <<b, d, f>>
  /\ f # 0 => DeviceHasFunctions(b, d)

(* The next address is one, or behind the last.                            *)
LEMMA SearchGoesOn ==
  ASSUME NEW b, NEW d, NEW f, SearchAt(b, d, f), b < Buses, UNCHANGED answers,
         search' = NextAddress(search)
  PROVE  \E x, y, z : SearchAt(x, y, z)'
<1>1. /\ b \in Int /\ d \in Int /\ f \in Int /\ b >= 0 /\ d >= 0 /\ f >= 0
      /\ d < Devices /\ f < Functions
      /\ {Buses, Devices, Functions} \subseteq Nat \ {0}
  BY PciAssumption, SMT DEF SearchAt
<1>2. search = <<b, d, f>> /\ (f # 0 => DeviceHasFunctions(b, d))
  BY Zenon DEF SearchAt
<1>3. search[1] = b /\ search[2] = d /\ search[3] = f
  BY <1>2, SMT
<1>4. search' = IF f + 1 < NumFunctions(b, d) THEN <<b, d, f + 1>>
                ELSE IF d + 1 < Devices THEN <<b, d + 1, 0>>
                ELSE <<b + 1, 0, 0>>
  BY <1>3, Zenon DEF NextAddress
<1>5. CASE f + 1 < NumFunctions(b, d)
  <2>1. DeviceHasFunctions(b, d) /\ f + 1 < Functions
    <3>1. CASE DeviceHasFunctions(b, d)
      BY <1>5, <3>1, Zenon DEF NumFunctions
    <3>2. CASE ~DeviceHasFunctions(b, d)
      <4>1. f + 1 < 1
        BY <1>5, <3>2, Zenon DEF NumFunctions
      <4> QED
        BY <1>1, <4>1, SMT
    <3> QED
      BY <3>1, <3>2
  <2>2. /\ search' = <<b, d, f + 1>>
        /\ b \in 0..Buses /\ d \in 0..(Devices - 1) /\ f + 1 \in 0..(Functions - 1)
    BY <1>1, <1>4, <1>5, <2>1, SMT
  <2>3. DeviceHasFunctions(b, d)'
    BY <2>1, Zenon DEF DeviceHasFunctions
  <2>4. SearchAt(b, d, f + 1)'
    BY <2>2, <2>3, Zenon DEF SearchAt
  <2> QED
    BY <2>4, Zenon
<1>6. CASE ~(f + 1 < NumFunctions(b, d)) /\ d + 1 < Devices
  <2>1. search' = <<b, d + 1, 0>>
    BY <1>4, <1>6, Zenon
  <2>2. b \in 0..Buses /\ d + 1 \in 0..(Devices - 1) /\ 0 \in 0..(Functions - 1)
    BY <1>1, <1>6, SMT
  <2>3. SearchAt(b, d + 1, 0)'
    BY <2>1, <2>2, Zenon DEF SearchAt
  <2> QED
    BY <2>3, Zenon
<1>7. CASE ~(f + 1 < NumFunctions(b, d)) /\ ~(d + 1 < Devices)
  <2>1. search' = <<b + 1, 0, 0>>
    BY <1>4, <1>7, Zenon
  <2>2. b + 1 \in 0..Buses /\ 0 \in 0..(Devices - 1) /\ 0 \in 0..(Functions - 1)
    BY <1>1, SMT
  <2>3. SearchAt(b + 1, 0, 0)'
    BY <2>1, <2>2, Zenon DEF SearchAt
  <2> QED
    BY <2>3, Zenon
<1> QED
  BY <1>5, <1>6, <1>7

(* The search skips no card: none is between an address and the next.      *)
LEMMA NoCardSkipped ==
  ASSUME NEW b, NEW d, NEW f, SearchAt(b, d, f), b < Buses, NEW a \in Cards,
         Before(a, NextAddress(search))
  PROVE  Before(a, search) \/ a = search
<1>1. /\ b \in Int /\ d \in Int /\ f \in Int /\ b >= 0 /\ d >= 0 /\ f >= 0
      /\ {Buses, Devices, Functions} \subseteq Nat \ {0}
  BY PciAssumption, SMT DEF SearchAt
<1>2. search = <<b, d, f>> /\ search[1] = b /\ search[2] = d /\ search[3] = f
  BY SMT DEF SearchAt
<1>3. a \in Address
  BY Zenon DEF Cards
<1>4. PICK x \in Int, y \in Int, z \in Int :
        /\ a = <<x, y, z>> /\ a[1] = x /\ a[2] = y /\ a[3] = z
        /\ 0 <= z /\ z < Functions /\ y < Devices
  BY <1>1, <1>3, AddressTyped, SMT
<1>5. PICK next : next = NextAddress(search)
  BY Zenon
<1>6. next = IF f + 1 < NumFunctions(b, d) THEN <<b, d, f + 1>>
             ELSE IF d + 1 < Devices THEN <<b, d + 1, 0>>
             ELSE <<b + 1, 0, 0>>
  BY <1>2, <1>5, Zenon DEF NextAddress
<1>7. Before(a, next)
  BY <1>5, Zenon
<1>8. x < b \/ (x = b /\ y < d) \/ (x = b /\ y = d /\ z < f) => Before(a, search)
  BY <1>2, <1>4, Zenon DEF Before
<1>9. x = b /\ y = d /\ z = f => a = search
  BY <1>2, <1>4, Zenon
<1>10. CASE f + 1 < NumFunctions(b, d)
  <2>1. next[1] = b /\ next[2] = d /\ next[3] = f + 1
    BY <1>6, <1>10, SMT
  <2>2. x < b \/ (x = b /\ y < d) \/ (x = b /\ y = d /\ z < f + 1)
    BY <1>4, <1>7, <2>1, Zenon DEF Before
  <2> QED
    BY <1>1, <1>4, <1>8, <1>9, <2>2, SMT
<1>11. CASE ~(f + 1 < NumFunctions(b, d))
  <2>1. CASE x = b /\ y = d /\ z > f
    <3>1. z # 0
      BY <1>1, <1>4, <2>1, SMT
    <3>2. DeviceHasFunctions(b, d)
      BY <1>4, <2>1, <3>1, Zenon DEF Cards, DeviceHasFunctions
    <3>3. NumFunctions(b, d) = Functions
      BY <3>2, Zenon DEF NumFunctions
    <3> QED
      BY <1>1, <1>4, <1>11, <2>1, <3>3, SMT
  <2>2. CASE d + 1 < Devices
    <3>1. next[1] = b /\ next[2] = d + 1 /\ next[3] = 0
      BY <1>6, <1>11, <2>2, SMT
    <3>2. x < b \/ (x = b /\ y < d + 1) \/ (x = b /\ y = d + 1 /\ z < 0)
      BY <1>4, <1>7, <3>1, Zenon DEF Before
    <3> QED
      BY <1>1, <1>4, <1>8, <1>9, <2>1, <3>2, SMT
  <2>3. CASE ~(d + 1 < Devices)
    <3>1. next[1] = b + 1 /\ next[2] = 0 /\ next[3] = 0
      BY <1>6, <1>11, <2>3, SMT
    <3>2. x < b + 1 \/ (x = b + 1 /\ y < 0) \/ (x = b + 1 /\ y = 0 /\ z < 0)
      BY <1>4, <1>7, <3>1, Zenon DEF Before
    <3>3. y >= 0
      BY <1>3, <1>4, AddressTyped, PciAssumption, SMT
    <3> QED
      BY <1>1, <1>4, <1>8, <1>9, <2>1, <2>3, <3>2, <3>3, SMT
  <2> QED
    BY <2>2, <2>3
<1> QED
  BY <1>10, <1>11

(* Before a card has been found the heap is as it was; the first that was  *)
(* found is the first there is.                                            *)
NoneFound == free = Left(memupper) /\ \A a \in Cards : ~Before(a, search)

(* The driver that was added first is the card's.                          *)
Third(card) == Len(drivers) > 2 /\ \E port : drivers[3] = [driver |-> card, portBase |-> port]

(* It is the first card's, wherever the others are.                        *)
FoundFirst ==
  \E card \in Cards : Third(card) /\ \A a \in Cards \ {card} : Before(card, a)

(* What the search has found where it has come to.                         *)
FoundSoFar == (Len(drivers) = 2 /\ NoneFound) \/ FoundFirst

(* With memory for a driver there is memory for the first one.             *)
LEMMA AmpleIsEnough ==
  ASSUME Ample, memupper \in MemUppers
  PROVE  Left(memupper) >= CardKiB
<1>1. memupper \in 0..AddressSpaceKiB
  BY MemoryAssumption, Zenon
<1>2. PICK n : n = memupper - 10 * 1024 - 10
  BY Zenon
<1>7. n \in Int /\ n >= CardKiB + 2 /\ n < AddressSpaceKiB
  <2>1. CardKiB \in Nat
    BY PciAssumption, Zenon
  <2>2. PICK k \in Int : k = AddressSpaceKiB
    BY SMT DEF AddressSpaceKiB
  <2>3. memupper \in Int /\ memupper <= k
    BY <1>1, <2>2, SMT
  <2> QED
    BY <1>2, <2>1, <2>2, <2>3, SMT DEF Ample
<1>3. n % AddressSpaceKiB = n
  BY <1>7, PciAssumption, SMT DEF AddressSpaceKiB
<1>4. HeapKiB(memupper) = n
  BY <1>2, <1>3, SMT DEF HeapKiB
<1>5. n >= 2
  BY <1>7, PciAssumption, SMT
<1>6. Left(memupper) = n - 2
  BY <1>7, <1>4, <1>5, SMT DEF Left
<1> QED
  BY <1>7, <1>6, PciAssumption, SMT

(* GetDriver knows the device.                                             *)
HasDriver(dev) == dev.vendor = "AMD am79c973"

(* What the search gives a driver is a card.                               *)
LEMMA CardAtSearch ==
  ASSUME NEW b, NEW d, NEW f, SearchAt(b, d, f), b < Buses, AnswersWell,
         answers[search] # Nobody, HasDriver(answers[search])
  PROVE  search \in Cards
<1>1. search = <<b, d, f>> /\ search[1] = b /\ search[2] = d /\ search[3] = f
  BY SMT DEF SearchAt
<1>2. b \in 0..(Buses - 1) /\ d \in 0..(Devices - 1) /\ f \in 0..(Functions - 1)
  BY PciAssumption, SMT DEF SearchAt
<1>3. search \in Address
  BY <1>1, <1>2, SMT DEF Address
<1>4. answers[<<b, d, 0>>] # Nobody
  BY <1>1, <1>3, Zenon DEF AnswersWell
<1>5. f = 0 \/ answers[<<b, d, 0>>].functions
  BY <1>4, Zenon DEF SearchAt, DeviceHasFunctions
<1> QED
  BY <1>1, <1>3, <1>4, <1>5, Zenon DEF Cards, HasDriver

(* An element that is not the last stays when another is appended.         *)
LEMMA AppendKeeps ==
  ASSUME NEW T, NEW s \in Seq(T), NEW e, NEW i \in 1..Len(s)
  PROVE  Append(s, e)[i] = s[i]
<1>1. s \in Seq(T \cup {e}) /\ e \in T \cup {e}
  BY SeqMonotonic, Zenon
<1> QED
  BY <1>1, AppendProperties, LenProperties, SMT

(* One round of the search.                                                *)
LEMMA OneMoreSearched ==
  ASSUME NEW b, NEW d, NEW f, SearchAt(b, d, f), SelectDriver, AnswersWell,
         Ample, memupper \in MemUppers, UNCHANGED memupper, FoundSoFar,
         NEW T, drivers \in Seq(T)
  PROVE  FoundSoFar'
<1>1. /\ UNCHANGED answers /\ search' = NextAddress(search) /\ search[1] # Buses
      /\ IF answers[search] = Nobody THEN UNCHANGED <<drivers, handlers, free>>
                                     ELSE GetDriver(search, answers[search])
  BY Zenon DEF SelectDriver, Searched
<1>2. search[1] = b /\ b < Buses
  BY <1>1, PciAssumption, SMT DEF SearchAt
<1>3. Cards' = Cards
  BY <1>1, ZenonT(40) DEF Cards
<1>4. \A a \in Cards : Before(a, search)' => Before(a, search) \/ a = search
  <2> SUFFICES ASSUME NEW a \in Cards, Before(a, NextAddress(search))
               PROVE  Before(a, search) \/ a = search
    BY <1>1, Zenon DEF Before
  <2> QED
    BY <1>2, NoCardSkipped, Zenon
<1>5. ASSUME UNCHANGED <<drivers, free>>, search \notin Cards
      PROVE  FoundSoFar'
  BY <1>1, <1>3, <1>4, <1>5, Zenon DEF FoundSoFar, NoneFound, FoundFirst, Third, Left
<1>6. PICK n \in Nat : n = Len(drivers)
  BY LenProperties, Zenon
<1>7. CASE answers[search] = Nobody \/ ~HasDriver(answers[search])
  <2>1. search \notin Cards
    BY <1>7, Zenon DEF Cards, HasDriver
  <2>2. UNCHANGED <<drivers, free>>
    BY <1>1, <1>7, Zenon DEF GetDriver, HasDriver
  <2> QED
    BY <1>5, <2>1, <2>2, Zenon
<1>8. CASE ~(answers[search] = Nobody \/ ~HasDriver(answers[search]))
  <2>1. search \in Cards
    BY <1>2, <1>8, CardAtSearch, Zenon
  <2>2. CASE FoundFirst
    <3>1. PICK card, port :
            /\ card \in Cards
            /\ Len(drivers) > 2 /\ drivers[3] = [driver |-> card, portBase |-> port]
            /\ \A a \in Cards \ {card} : Before(card, a)
      BY <2>2, Zenon DEF FoundFirst, Third
    <3>2. CASE UNCHANGED drivers
      BY <1>3, <3>1, <3>2, Zenon DEF FoundSoFar, FoundFirst, Third
    <3>3. CASE \E e : drivers' = Append(drivers, e)
      <4>1. PICK e : drivers' = Append(drivers, e)
        BY <3>3
      <4>2. 3 \in 1..Len(drivers)
        BY <1>6, <3>1, SMT
      <4>3. drivers'[3] = drivers[3]
        BY <4>1, <4>2, AppendKeeps, Zenon
      <4>4. Len(drivers') = n + 1 /\ n > 2
        BY <1>6, <3>1, <4>1, AppendedTo, ZenonT(40)
      <4>5. Len(drivers') > 2
        BY <4>4, SMT
      <4> QED
        BY <1>3, <3>1, <4>3, <4>5, Zenon DEF FoundSoFar, FoundFirst, Third
    <3> QED
      BY <1>1, <3>2, <3>3, Zenon DEF GetDriver, AddDriver
  <2>3. CASE Len(drivers) = 2 /\ NoneFound
    <3>1. free >= CardKiB
      BY <2>3, AmpleIsEnough, Zenon DEF NoneFound
    <3>2. PICK port : drivers' = Append(drivers, [driver |-> search, portBase |-> port])
      BY <1>1, <1>8, <3>1, Zenon DEF GetDriver, AddDriver, HasDriver
    <3>3. PICK e : e = [driver |-> search, portBase |-> port]
      BY Zenon
    <3>4. Len(drivers') = Len(drivers) + 1 /\ drivers'[Len(drivers) + 1] = e
      <4>1. drivers' = Append(drivers, e)
        BY <3>2, <3>3, Zenon
      <4>2. Len(Append(drivers, e)) = Len(drivers) + 1
        BY AppendedTo, ZenonT(40)
      <4>3. Append(drivers, e)[Len(drivers) + 1] = e
        BY AppendedTo, ZenonT(40)
      <4> QED
        BY <4>1, <4>2, <4>3, Zenon
    <3>0. 2 + 1 = 3 /\ 3 > 2
      BY SMT
    <3>5. Len(drivers') > 2 /\ drivers'[3] = e
      BY <2>3, <3>4, <3>0, Zenon
    <3>6. \A a \in Cards \ {search} : Before(search, a)
      <4> SUFFICES ASSUME NEW a \in Cards, a # search
                   PROVE  Before(search, a)
        BY Zenon
      <4>1. a \in Address /\ search \in Address
        BY <2>1, Zenon DEF Cards
      <4> QED
        BY <2>3, <4>1, AddressesOrdered, Zenon DEF NoneFound
    <3>7. PICK here : here = search /\ Third(here)'
      BY <3>3, <3>5, Zenon DEF Third
    <3>8. here \in Cards' /\ \A a \in Cards' \ {here} : Before(here, a)
      BY <1>3, <2>1, <3>6, <3>7, Zenon
    <3>9. \E card \in Cards' : Third(card)' /\ \A a \in Cards' \ {card} : Before(card, a)
      BY <3>7, <3>8, Zenon
    <3> QED
      BY <3>9, Zenon DEF FoundSoFar, FoundFirst
  <2> QED
    BY <2>2, <2>3, Zenon DEF FoundSoFar
<1> QED
  BY <1>7, <1>8, Zenon

(* From the first address to drivers[2] in kernelMain's last lines.        *)
Eth0Inv ==
  /\ place \in {"segments", "start"} =>
       /\ first = NoDriver /\ memupper \in MemUppers /\ AnswersWell
       /\ SearchAt(0, 0, 0) /\ free = Left(memupper)
  /\ place = "search" =>
       /\ first = NoDriver /\ memupper \in MemUppers /\ AnswersWell
       /\ \E b, d, f : SearchAt(b, d, f)
       /\ Ample => FoundSoFar
  /\ place = "activate" /\ first # NoDriver => Len(drivers) > 2 /\ drivers[3].driver = first
  /\ place \in {"mode", "disk"} /\ first # NoDriver =>
       Len(drivers) > 2 /\ drivers[3].driver = first /\ active > 2
  /\ place \in {"taken", "lost"} /\ first # NoDriver => eth0 = first /\ active > 2

(* At first nothing is searched, found or taken.                           *)
LEMMA InitEth0Inv ==
  ASSUME Init
  PROVE  Eth0Inv
<1>1. /\ place = "segments" /\ first = NoDriver /\ memupper \in MemUppers
      /\ free = Left(memupper) /\ search = <<0, 0, 0>>
  BY Zenon DEF Init, PciInit
<1>2. SearchAt(0, 0, 0)
  <2>1. 0 \in 0..Buses /\ 0 \in 0..(Devices - 1) /\ 0 \in 0..(Functions - 1)
    BY PciAssumption, SMT
  <2> QED
    BY <1>1, <2>1, Zenon DEF SearchAt
<1>3. /\ place # "search" /\ place # "activate" /\ place \notin {"mode", "disk"}
      /\ place \notin {"taken", "lost"}
  BY <1>1, Zenon
<1> QED
  BY <1>1, <1>2, <1>3, InitAnswersWell, Zenon DEF Eth0Inv

(* The drivers of keyboard and mouse are there: nothing has been searched. *)
LEMMA NothingFoundYet ==
  ASSUME Eth0Inv, AddDrivers
  PROVE  Eth0Inv'
<1>1. /\ place = "start" /\ place' = "search"
      /\ drivers' = <<[driver |-> "keyboard", portBase |-> 0], [driver |-> "mouse", portBase |-> 0]>>
      /\ UNCHANGED <<first, memupper, answers, search, free>>
  BY Zenon DEF AddDrivers, mainVars, At, Go
<1>2. /\ first = NoDriver /\ memupper \in MemUppers /\ AnswersWell
      /\ SearchAt(0, 0, 0) /\ free = Left(memupper)
  BY <1>1, Zenon DEF Eth0Inv
<1>3. Len(drivers') = 2
  BY <1>1, SMT
<1>4. \A a \in Cards : ~Before(a, search)
  <2> SUFFICES ASSUME NEW a \in Cards
               PROVE  ~Before(a, search)
    BY Zenon
  <2>1. a \in Address /\ search = <<0, 0, 0>>
    BY <1>2, Zenon DEF Cards, SearchAt
  <2>2. search[1] = 0 /\ search[2] = 0 /\ search[3] = 0
    BY <2>1, SMT
  <2>3. ~(a[1] < 0) /\ ~(a[2] < 0) /\ ~(a[3] < 0)
    BY <2>1, AddressTyped, PciAssumption, SMT
  <2> QED
    BY <2>2, <2>3, Zenon DEF Before
<1>5. FoundSoFar'
  BY <1>1, <1>2, <1>3, <1>4, Zenon DEF FoundSoFar, NoneFound, Left, Cards, Before
<1>6. AnswersWell' /\ SearchAt(0, 0, 0)'
  BY <1>1, <1>2, Zenon DEF AnswersWell, SearchAt, DeviceHasFunctions
<1>7. /\ place' \notin {"segments", "start"} /\ place' # "activate"
      /\ place' \notin {"mode", "disk"} /\ place' \notin {"taken", "lost"}
  BY <1>1, Zenon
<1> QED
  BY <1>1, <1>2, <1>5, <1>6, <1>7, Zenon DEF Eth0Inv

(* The search goes on, or what it has found is taken for the first card.   *)
LEMMA SearchFindsFirst ==
  ASSUME Eth0Inv, SelectDrivers, DriversNamed
  PROVE  Eth0Inv'
<1>1. place = "search"
  BY Zenon DEF SelectDrivers, At
<1>2. /\ first = NoDriver /\ memupper \in MemUppers /\ AnswersWell
      /\ \E b, d, f : SearchAt(b, d, f)
      /\ Ample => FoundSoFar
  BY <1>1, Zenon DEF Eth0Inv
<1>3. PICK b, d, f : SearchAt(b, d, f)
  BY <1>2, Zenon
<1>4. PICK T : drivers \in Seq(T)
  BY <1>1, Zenon DEF DriversNamed
<1>5. CASE ~Searched
  <2>1. SelectDriver /\ UNCHANGED <<place, memupper, first>>
    BY <1>5, Zenon DEF SelectDrivers
  <2>2. UNCHANGED answers /\ search' = NextAddress(search) /\ search[1] # Buses
    BY <2>1, Zenon DEF SelectDriver, Searched
  <2>3. b < Buses
    BY <1>3, <2>2, PciAssumption, SMT DEF SearchAt
  <2>4. \E x, y, z : SearchAt(x, y, z)'
    BY <1>3, <2>2, <2>3, SearchGoesOn, Zenon
  <2>5. AnswersWell'
    BY <1>2, <2>2, Zenon DEF AnswersWell
  <2>6. Ample' => FoundSoFar'
    <3>1. Ample' => Ample
      BY <2>1, ZenonT(40) DEF Ample
    <3> QED
      BY <1>2, <1>3, <1>4, <2>1, <3>1, OneMoreSearched, Zenon
  <2>7. /\ place' = "search" /\ place' \notin {"segments", "start"} /\ place' # "activate"
        /\ place' \notin {"mode", "disk"} /\ place' \notin {"taken", "lost"}
    BY <1>1, <2>1, Zenon
  <2> QED
    BY <1>2, <2>1, <2>4, <2>5, <2>6, <2>7, Zenon DEF Eth0Inv
<1>6. CASE Searched
  <2>1. /\ place' = "activate" /\ SearchForgotten
        /\ first' = IF Cards = {} \/ ~Ample THEN NoDriver ELSE FirstCard
    BY <1>6, Zenon DEF SelectDrivers, Go
  <2>2. /\ place' # "search" /\ place' \notin {"segments", "start"}
        /\ place' \notin {"mode", "disk"} /\ place' \notin {"taken", "lost"}
    BY <2>1, Zenon
  <2>3. ASSUME first' # NoDriver
        PROVE  Len(drivers') > 2 /\ drivers'[3].driver = first'
    <3>1. Cards # {} /\ Ample /\ first' = FirstCard
      BY <2>1, <2>3, Zenon
    <3>2. ~NoneFound
      <4>1. PICK a \in Cards : a \in Address
        BY <3>1, Zenon DEF Cards
      <4>2. a[1] < Buses
        BY <4>1, AddressTyped, PciAssumption, SMT
      <4> QED
        BY <1>6, <4>1, <4>2, Zenon DEF NoneFound, Before, Searched
    <3>3. PICK card, port :
            /\ card \in Cards
            /\ Len(drivers) > 2 /\ drivers[3] = [driver |-> card, portBase |-> port]
            /\ \A a \in Cards \ {card} : Before(card, a)
      BY <1>2, <3>1, <3>2, Zenon DEF FoundSoFar, FoundFirst, Third
    <3>4. first' = card
      BY <3>1, <3>3, FirstCardIs, Zenon
    <3>5. drivers' = Forgotten(drivers)
      BY <2>1, Zenon DEF SearchForgotten, Forgotten
    <3>6. Len(drivers) \in Nat
      BY <1>4, LenProperties, Zenon
    <3>7. 3 \in 1..Len(drivers)
      BY <3>3, <3>6, SMT
    <3>8. Len(Forgotten(drivers)) = Len(drivers)
      BY <1>4, ForgottenLength, Zenon
    <3>9. drivers'[3] = [drivers[3] EXCEPT !.portBase = 0]
      BY <1>4, <3>5, <3>7, LenProperties, Zenon DEF Forgotten
    <3>10. \A c, p : [[driver |-> c, portBase |-> p] EXCEPT !.portBase = 0].driver = c
      BY SMT
    <3>11. drivers'[3] = [[driver |-> card, portBase |-> port] EXCEPT !.portBase = 0]
      BY <3>3, <3>9, Zenon
    <3>12. drivers'[3].driver = card
      BY <3>10, <3>11, Zenon
    <3> QED
      BY <3>3, <3>4, <3>5, <3>8, <3>12, Zenon
  <2> QED
    BY <2>1, <2>2, <2>3, Zenon DEF Eth0Inv
<1> QED
  BY <1>5, <1>6

(* All the drivers are active, the card's among them.                      *)
LEMMA CardIsActive ==
  ASSUME Eth0Inv, AllActive, DriversNamed
  PROVE  Eth0Inv'
<1>1. /\ place = "activate" /\ active = Len(drivers) /\ first' = first
      /\ drivers' = SubSeq(drivers, 1, Min({3, active})) /\ active' = Len(drivers')
      /\ place' = "mode" \/ place' = "disk"
  BY Zenon DEF AllActive, At, Go
<1>2. PICK T : drivers \in Seq(T)
  BY <1>1, Zenon DEF DriversNamed
<1>3. PICK n \in Nat : n = Len(drivers)
  BY <1>2, LenProperties, Zenon
<1>4. ASSUME first' # NoDriver
      PROVE  Len(drivers') > 2 /\ drivers'[3].driver = first' /\ active' > 2
  <2>1. n > 2 /\ drivers[3].driver = first
    BY <1>1, <1>3, <1>4, Zenon DEF Eth0Inv
  <2>2. Min({3, active}) = 3
    <3>1. \A y \in {3, n} : 3 <= y
      BY <2>1, SMT
    <3>2. Min({3, n}) \in {3, n} /\ \A y \in {3, n} : Min({3, n}) <= y
      BY <3>1, Zenon DEF Min
    <3>3. Min({3, n}) = 3
      BY <2>1, <3>2, SMT
    <3> QED
      BY <1>1, <1>3, <3>3, Zenon
  <2>3. drivers' = SubSeq(drivers, 1, 3)
    BY <1>1, <2>2, Zenon
  <2>4. \A i \in 1..3 : drivers[i] \in T
    BY <1>2, <1>3, <2>1, ElementOfSeq, SMT
  <2>5. Len(SubSeq(drivers, 1, 3)) = 3 /\ SubSeq(drivers, 1, 3)[3] = drivers[3]
    BY <2>4, SubSeqProperties, SMT
  <2>6. 3 > 2
    BY SMT
  <2> QED
    BY <1>1, <2>1, <2>3, <2>5, <2>6, Zenon
<1>5. /\ place' # "search" /\ place' \notin {"segments", "start"} /\ place' # "activate"
      /\ place' \notin {"taken", "lost"}
  BY <1>1, Zenon
<1> QED
  BY <1>4, <1>5, Zenon DEF Eth0Inv

(* Every step, of the search and of what comes after it.                   *)
LEMMA Eth0InvKept ==
  ASSUME Eth0Inv, DriversNamed, [Next]_vars
  PROVE  Eth0Inv'
<1>1. ASSUME UNCHANGED <<first, memupper, answers, search, free, drivers, active, eth0, place>>
      PROVE  Eth0Inv'
  <2>1. (AnswersWell => AnswersWell') /\ SearchAt(0, 0, 0)' = SearchAt(0, 0, 0)
    BY <1>1, Zenon DEF AnswersWell, SearchAt, DeviceHasFunctions
  <2>2. (\E b, d, f : SearchAt(b, d, f)) => \E b, d, f : SearchAt(b, d, f)'
    BY <1>1, Zenon DEF SearchAt, DeviceHasFunctions
  <2>3. Cards' = Cards /\ (Ample' => Ample)
    BY <1>1, ZenonT(40) DEF Cards, Ample
  <2>4. NoneFound => NoneFound'
    BY <1>1, <2>3, Zenon DEF NoneFound, Before, Left
  <2>5. FoundFirst => FoundFirst'
    BY <1>1, <2>3, Zenon DEF FoundFirst, Third
  <2>6. FoundSoFar => FoundSoFar'
    BY <1>1, <2>4, <2>5, Zenon DEF FoundSoFar
  <2> QED
    BY <1>1, <2>1, <2>2, <2>3, <2>6, Zenon DEF Eth0Inv, Left
<1>2. CASE LoadSegments
  <2>1. /\ place = "segments" /\ place' = "start"
        /\ UNCHANGED <<first, memupper, answers, search, free>>
    BY <1>2, Zenon DEF LoadSegments, At, Go, mainVars, pciVars
  <2>2. /\ place' # "search" /\ place' # "activate"
        /\ place' \notin {"mode", "disk"} /\ place' \notin {"taken", "lost"}
    BY <2>1, Zenon
  <2> QED
    BY <2>1, <2>2, Zenon DEF Eth0Inv, AnswersWell, SearchAt, DeviceHasFunctions, Left
<1>3. CASE Activate
  <2>1. place = "activate" /\ place' = place /\ UNCHANGED <<first, drivers>>
    BY <1>3, Zenon DEF Activate, At, pciVars
  <2>2. /\ place' # "search" /\ place' \notin {"segments", "start"}
        /\ place' \notin {"mode", "disk"} /\ place' \notin {"taken", "lost"}
    BY <2>1, Zenon
  <2> QED
    BY <2>1, <2>2, Zenon DEF Eth0Inv
<1>4. CASE SetMode
  <2>1. /\ place = "mode" /\ (place' = place \/ place' = "disk")
        /\ UNCHANGED <<first, drivers, active>>
    BY <1>4, Zenon DEF SetMode, At, Go, mainVars, pciVars
  <2>2. /\ place' # "search" /\ place' \notin {"segments", "start"} /\ place' # "activate"
        /\ place' \notin {"taken", "lost"}
    BY <2>1, Zenon
  <2> QED
    BY <2>1, <2>2, Zenon DEF Eth0Inv
<1>5. CASE UseDisk \/ ReadPartitions
  <2>1. place = "disk" /\ place' = place /\ UNCHANGED <<first, drivers, active>>
    BY <1>5, Zenon DEF UseDisk, ReadPartitions, At, mainVars, pciVars
  <2>2. /\ place' # "search" /\ place' \notin {"segments", "start"} /\ place' # "activate"
        /\ place' \notin {"taken", "lost"}
    BY <2>1, Zenon
  <2> QED
    BY <2>1, <2>2, Zenon DEF Eth0Inv
<1>6. CASE TakeCard
  <2>1. /\ place = "disk" /\ UNCHANGED <<first, active>>
        /\ IF Len(drivers) > 2 THEN eth0' = drivers[3].driver /\ place' = "taken"
                               ELSE UNCHANGED eth0 /\ place' = "lost"
    BY <1>6, Zenon DEF TakeCard, At, Go
  <2>2. /\ place' # "search" /\ place' \notin {"segments", "start"} /\ place' # "activate"
        /\ place' \notin {"mode", "disk"}
    BY <2>1, Zenon
  <2> QED
    BY <2>1, <2>2, Zenon DEF Eth0Inv
<1>7. CASE ActivateDevice \/ ControllerStep \/ DiskStep \/ UNCHANGED vars
  BY <1>1, <1>7, Zenon DEF ActivateDevice, ControllerStep, DiskStep, mainVars, pciVars, vars
<1> QED
  BY <1>2, <1>3, <1>4, <1>5, <1>6, <1>7, NothingFoundYet, SearchFindsFirst, CardIsActive, Zenon
     DEF Next, Kernel

(* Given the memory for its driver, what kernelMain takes for the network  *)
(* card is the first card on the buses, wherever it is: the search skips   *)
(* no card, appends the first behind keyboard and mouse, and ActivateAll   *)
(* comes to it (pci.cpp, driver.cpp, kernel.cpp).                          *)
THEOREM Eth0IsTheFirstCard == Spec => []Eth0IsFirstCard
<1>1. Init => Eth0Inv /\ DriversNamed
  <2>1. Init => place = "segments"
    BY Zenon DEF Init
  <2>2. Init => DriversNamed
    BY <2>1, Zenon DEF DriversNamed
  <2> QED
    BY <2>2, InitEth0Inv
<1>2. Eth0Inv /\ DriversNamed /\ [Next]_vars => Eth0Inv' /\ DriversNamed'
  BY Eth0InvKept, DriversNamedKept
<1>3. Eth0Inv => Eth0IsFirstCard
  BY Zenon DEF Eth0Inv, Eth0IsFirstCard
<1> QED
  BY <1>1, <1>2, <1>3, PTL DEF Spec

-----------------------------------------------------------------------------
(* What a card is wired to *)

(* A network card has the header of a device, and a port.                  *)
Ported(dev) ==
  /\ dev.headertype = 0 /\ dev.interrupt \in Nat
  /\ dev.bars \in [0..5 -> [type : {"InputOutput", "MemoryMapping"}, address : Ports \cup {0}]]
  /\ \E bar \in 0..5 : dev.bars[bar].type = "InputOutput" /\ dev.bars[bar].address # 0

(* So does each that the driver is for (external).                         *)
CardsArePorted ==
  \A kind \in DeviceKinds : \A function \in 0..(Functions - 1) :
    kind[function] # Nobody /\ HasDriver(kind[function]) => Ported(kind[function])

(* Of a card with a port portBase is one of its ports.                     *)
LEMMA PortIsOfCard ==
  ASSUME NEW dev, Ported(dev), NEW port \in PortBases(dev)
  PROVE  \E bar \in DOMAIN dev.bars : dev.bars[bar] = [type |-> "InputOutput", address |-> port]
<1>1. PICK bars, kind :
        /\ bars = dev.bars
        /\ kind = [type : {"InputOutput", "MemoryMapping"}, address : Ports \cup {0}]
        /\ bars \in [0..5 -> kind]
  BY Zenon DEF Ported
<1>2. ASSUME NEW bar \in 0..5
      PROVE  /\ bars[bar].type = "InputOutput" => GetBaseAddressRegister(dev, bar) = {bars[bar]}
             /\ bars[bar].type # "InputOutput" => Setting(dev, bar) = {}
  <2>1. ~(bar >= 6 - 4 * dev.headertype)
    BY SMT DEF Ported
  <2>2. bars[bar].type = "InputOutput" => GetBaseAddressRegister(dev, bar) = {bars[bar]}
    BY <1>1, <2>1, Zenon DEF GetBaseAddressRegister
  <2>3. ASSUME bars[bar].type # "InputOutput"
        PROVE  Setting(dev, bar) = {}
    <3>1. GetBaseAddressRegister(dev, bar) = [type : {"MemoryMapping"}, address : Ports \cup {0}]
      BY <1>1, <2>1, <2>3, Zenon DEF GetBaseAddressRegister
    <3>2. \A r \in [type : {"MemoryMapping"}, address : Ports \cup {0}] : r.type # "InputOutput"
      BY SMT
    <3> QED
      BY <3>1, <3>2, Zenon DEF Setting
  <2> QED
    BY <2>2, <2>3, Zenon
<1>3. CASE \E bar \in 0..5 : \E r \in Setting(dev, bar) : port = r.address
  <2>1. PICK bar \in 0..5 : \E r \in Setting(dev, bar) : port = r.address
    BY <1>3
  <2>2. PICK r \in Setting(dev, bar) : port = r.address
    BY <2>1
  <2>3. bars[bar].type = "InputOutput"
    BY <1>2, <2>2, Zenon
  <2>4. r = bars[bar]
    BY <1>2, <2>2, <2>3, Zenon DEF Setting
  <2>5. bars[bar] \in kind
    BY <1>1, Zenon
  <2>6. bars[bar] = [type |-> "InputOutput", address |-> port]
    BY <1>1, <2>2, <2>3, <2>4, <2>5, SMT
  <2>7. DOMAIN bars = 0..5
    BY <1>1, Zenon
  <2> QED
    BY <1>1, <2>6, <2>7, Zenon
<1>4. CASE \A later \in (-1 + 1)..5 : MayPass(dev, later)
  <2>1. PICK bar \in 0..5 : bars[bar].type = "InputOutput" /\ bars[bar].address # 0
    BY <1>1, Zenon DEF Ported
  <2>2. bars[bar] \in Setting(dev, bar)
    BY <1>2, <2>1, Zenon DEF Setting
  <2>3. ~MayPass(dev, bar)
    BY <1>2, <2>1, <2>2, Zenon DEF MayPass
  <2>4. bar \in (-1 + 1)..5
    BY SMT
  <2> QED
    BY <1>4, <2>3, <2>4, Zenon
<1> QED
  BY <1>3, <1>4, Zenon DEF PortBases

(* Before another card is found with the line of the first, the interrupt  *)
(* goes to the driver of the first.                                        *)
Served(card) ==
  \/ handlers[InterruptNumber(answers[card])] = card
  \/ \E other \in Cards \ {card} :
       InterruptNumber(answers[other]) = InterruptNumber(answers[card])

(* The driver has a port and the line of its card.                         *)
WiredTo(card, driver) ==
  /\ \E port :
       /\ driver = [driver |-> card, portBase |-> port]
       /\ \E bar \in DOMAIN answers[card].bars :
            answers[card].bars[bar] = [type |-> "InputOutput", address |-> port]
  /\ Served(card)

(* There is such a card.                                                   *)
Wired(driver) == \E card \in Cards : WiredTo(card, driver)

(* The cards this machine has are such cards.                              *)
AnswersPorted ==
  \A a \in Address : answers[a] # Nobody /\ HasDriver(answers[a]) => Ported(answers[a])

(* So is every driver that the search has added.                           *)
WiredInv ==
  /\ place \in {"segments", "start", "search"} =>
       DOMAIN handlers = Vector /\ AnswersPorted /\ AnswersWell
  /\ place \in {"segments", "start"} => SearchAt(0, 0, 0)
  /\ place = "search" =>
       (\E b, d, f : SearchAt(b, d, f)) /\ \A i \in 3..Len(drivers) : Wired(drivers[i])

(* At first no driver has been added.                                      *)
LEMMA InitWiredInv ==
  ASSUME Init, CardsArePorted
  PROVE  WiredInv
<1>1. PICK kind \in [(0..(Buses - 1)) \X (0..(Devices - 1)) -> DeviceKinds] :
        answers = [a \in Address |-> kind[<<a[1], a[2]>>][a[3]]]
  BY Zenon DEF Init, PciInit
<1>2. AnswersPorted
  <2> SUFFICES ASSUME NEW a \in Address, answers[a] # Nobody, HasDriver(answers[a])
               PROVE  Ported(answers[a])
    BY Zenon DEF AnswersPorted
  <2>1. PICK b \in 0..(Buses - 1), d \in 0..(Devices - 1), f \in 0..(Functions - 1) :
          /\ a[1] = b /\ a[2] = d /\ a[3] = f
    BY AddressTyped, Zenon
  <2>2. <<b, d>> \in (0..(Buses - 1)) \X (0..(Devices - 1))
    BY SMT
  <2>3. PICK k \in DeviceKinds : k = kind[<<b, d>>]
    BY <2>2, Zenon
  <2>4. answers[a] = k[f]
    BY <1>1, <2>1, <2>3, Zenon
  <2> QED
    BY <2>4, Zenon DEF CardsArePorted
<1>3. DOMAIN handlers = Vector
  BY Zenon DEF Init, PciInit
<1>4. SearchAt(0, 0, 0) /\ AnswersWell
  <2>1. 0 \in 0..Buses /\ 0 \in 0..(Devices - 1) /\ 0 \in 0..(Functions - 1)
    BY PciAssumption, SMT
  <2>2. search = <<0, 0, 0>>
    BY Zenon DEF Init, PciInit
  <2> QED
    BY <2>1, <2>2, InitAnswersWell, Zenon DEF SearchAt
<1>5. place # "search"
  BY Zenon DEF Init
<1> QED
  BY <1>2, <1>3, <1>4, <1>5, Zenon DEF WiredInv

(* The line of a card is one of the vectors.                               *)
LEMMA LineIsVector ==
  ASSUME AnswersPorted, NEW card \in Cards
  PROVE  Ported(answers[card]) /\ InterruptNumber(answers[card]) \in Vector
<1>1. PICK dev : dev = answers[card]
  BY Zenon
<1>2. card \in Address /\ dev # Nobody /\ HasDriver(dev)
  BY <1>1, Zenon DEF Cards, HasDriver
<1>3. Ported(dev)
  BY <1>1, <1>2, Zenon DEF AnswersPorted
<1>4. dev.interrupt \in Nat
  BY <1>3, Zenon DEF Ported
<1>5. InterruptNumber(dev) \in Vector
  BY <1>4, SMT DEF InterruptNumber, Vector
<1> QED
  BY <1>1, <1>3, <1>5, Zenon

(* A driver keeps its wires, or loses the line to another card's.          *)
LEMMA StaysWired ==
  ASSUME NEW driver, Wired(driver), UNCHANGED answers, search \in Cards,
         DOMAIN handlers = Vector, AnswersPorted,
         handlers' = [handlers EXCEPT ![InterruptNumber(answers[search])] = search]
  PROVE  Wired(driver)'
<1>1. PICK card \in Cards : WiredTo(card, driver)
  BY Zenon DEF Wired
<1>2. Cards' = Cards
  BY ZenonT(40) DEF Cards
<1>3. PICK n, m : n = InterruptNumber(answers[card]) /\ m = InterruptNumber(answers[search])
  BY Zenon
<1>7. n \in DOMAIN handlers /\ m \in DOMAIN handlers
  BY <1>1, <1>3, LineIsVector, Zenon
<1>4. Served(card)'
  <2>1. CASE \E other \in Cards \ {card} : InterruptNumber(answers[other]) = n
    BY <1>2, <1>3, <2>1, Zenon DEF Served
  <2>2. CASE handlers[n] = card /\ n # m
    <3>1. handlers'[n] = card
      BY <1>3, <1>7, <2>2, Zenon
    <3> QED
      BY <1>3, <3>1, Zenon DEF Served
  <2>3. CASE handlers[n] = card /\ n = m /\ card # search
    BY <1>2, <1>3, <2>3, Zenon DEF Served
  <2>4. CASE handlers[n] = card /\ n = m /\ card = search
    <3>1. handlers'[n] = card
      BY <1>3, <1>7, <2>4, Zenon
    <3> QED
      BY <1>3, <3>1, Zenon DEF Served
  <2> QED
    BY <1>1, <1>3, <2>1, <2>2, <2>3, <2>4, Zenon DEF WiredTo, Served
<1>5. WiredTo(card, driver)'
  BY <1>1, <1>4, Zenon DEF WiredTo
<1> QED
  BY <1>2, <1>5, Zenon DEF Wired

(* A card that is found is wired.                                          *)
LEMMA NewDriverWired ==
  ASSUME search \in Cards, UNCHANGED answers, DOMAIN handlers = Vector, AnswersPorted,
         NEW port \in PortBases(answers[search]),
         handlers' = [handlers EXCEPT ![InterruptNumber(answers[search])] = search],
         NEW card, card = search
  PROVE  Wired([driver |-> card, portBase |-> port])'
<1>1. PICK dev : dev = answers[card]
  BY Zenon
<1>2. Ported(dev) /\ InterruptNumber(dev) \in Vector
  BY <1>1, LineIsVector, Zenon
<1>3. port \in PortBases(dev)
  BY <1>1, Zenon
<1>4. \E bar \in DOMAIN dev.bars : dev.bars[bar] = [type |-> "InputOutput", address |-> port]
  BY <1>2, <1>3, PortIsOfCard, Zenon
<1>5. InterruptNumber(dev) \in DOMAIN handlers
  BY <1>2, Zenon
<1>6. handlers'[InterruptNumber(dev)] = card
  BY <1>1, <1>5, Zenon
<1>7. Cards' = Cards
  BY ZenonT(40) DEF Cards
<1>8. Served(card)'
  BY <1>1, <1>6, Zenon DEF Served
<1>9. WiredTo(card, [driver |-> card, portBase |-> port])'
  BY <1>1, <1>4, <1>8, Zenon DEF WiredTo
<1> QED
  BY <1>7, <1>9, Zenon DEF Wired

(* A round of the search wires what it adds and what it had added.         *)
LEMMA SearchWires ==
  ASSUME WiredInv, SelectDriver, place = "search", place' = place, DriversNamed
  PROVE  WiredInv'
<1>1. /\ DOMAIN handlers = Vector /\ AnswersPorted /\ AnswersWell
      /\ \A i \in 3..Len(drivers) : Wired(drivers[i])
  BY Zenon DEF WiredInv
<1>2. PICK b, d, f : SearchAt(b, d, f)
  BY Zenon DEF WiredInv
<1>3. PICK T : drivers \in Seq(T)
  BY Zenon DEF DriversNamed
<1>4. PICK n \in Nat : n = Len(drivers) /\ n >= 2
  BY <1>3, LenProperties, Zenon DEF DriversNamed
<1>5. /\ UNCHANGED answers /\ search' = NextAddress(search) /\ search[1] # Buses
      /\ IF answers[search] = Nobody THEN UNCHANGED <<drivers, handlers, free>>
                                     ELSE GetDriver(search, answers[search])
  BY Zenon DEF SelectDriver, Searched
<1>6. b < Buses
  BY <1>2, <1>5, PciAssumption, SMT DEF SearchAt
<1>7. \E x, y, z : SearchAt(x, y, z)'
  BY <1>2, <1>5, <1>6, SearchGoesOn, Zenon
<1>8. AnswersPorted' /\ AnswersWell'
  BY <1>1, <1>5, Zenon DEF AnswersPorted, AnswersWell
<1>9. ASSUME DOMAIN handlers' = Vector, \A i \in 3..Len(drivers') : Wired(drivers[i])'
      PROVE  WiredInv'
  <2>1. place' # "segments" /\ place' # "start"
    BY Zenon
  <2> QED
    BY <1>7, <1>8, <1>9, <2>1, Zenon DEF WiredInv
<1>10. CASE UNCHANGED <<drivers, handlers>>
  <2>1. \A driver : Wired(driver) => Wired(driver)'
    BY <1>5, <1>10, Zenon DEF Wired, WiredTo, Served, Cards
  <2> QED
    BY <1>1, <1>9, <1>10, <2>1, Zenon
<1>11. CASE /\ answers[search] # Nobody /\ HasDriver(answers[search])
            /\ \E port \in PortBases(answers[search]) : AddDriver(search, port)
            /\ handlers' = [handlers EXCEPT ![InterruptNumber(answers[search])] = search]
  <2>1. search \in Cards
    BY <1>1, <1>2, <1>6, <1>11, CardAtSearch, Zenon
  <2>2. PICK port, card :
          /\ port \in PortBases(answers[search]) /\ card = search
          /\ drivers' = Append(drivers, [driver |-> card, portBase |-> port])
    BY <1>11, Zenon DEF AddDriver
  <2>3. PICK e : e = [driver |-> card, portBase |-> port]
    BY Zenon
  <2>4. Wired(e)'
    <3>1. Wired([driver |-> card, portBase |-> port])'
      BY <1>1, <1>5, <1>11, <2>1, <2>2, NewDriverWired, Zenon
    <3> QED
      BY <2>3, <3>1, Zenon
  <2>5. drivers' = Append(drivers, e)
    BY <2>2, <2>3, Zenon
  <2>6. Len(drivers') = n + 1
    BY <1>3, <1>4, <2>5, AppendedTo, ZenonT(40)
  <2>7. drivers'[n + 1] = e
    BY <1>3, <1>4, <2>5, AppendedTo, ZenonT(40)
  <2>8. ASSUME NEW i \in 3..Len(drivers')
        PROVE  Wired(drivers[i])'
    <3>1. CASE i = n + 1
      BY <2>4, <2>7, <3>1, Zenon
    <3>2. CASE i # n + 1
      <4>1. i \in 3..Len(drivers) /\ i \in 1..Len(drivers)
        BY <1>4, <2>6, <3>2, SMT
      <4>2. drivers'[i] = drivers[i]
        BY <1>3, <2>5, <4>1, AppendKeeps, Zenon
      <4>3. PICK driver : driver = drivers[i]
        BY Zenon
      <4>4. Wired(driver)'
        BY <1>1, <1>5, <1>11, <2>1, <4>1, <4>3, StaysWired, Zenon
      <4> QED
        BY <4>2, <4>3, <4>4, Zenon
    <3> QED
      BY <3>1, <3>2
  <2>9. DOMAIN handlers' = Vector
    BY <1>1, <1>11, Zenon
  <2> QED
    BY <1>9, <2>8, <2>9, Zenon
<1> QED
  BY <1>5, <1>10, <1>11, Zenon DEF GetDriver, HasDriver

(* No step but the search's touches drivers and handlers meanwhile.        *)
LEMMA WiredInvKept ==
  ASSUME WiredInv, DriversNamed, [Next]_vars
  PROVE  WiredInv'
<1>1. CASE place' = place /\ UNCHANGED <<handlers, answers, search, drivers>>
  <2>1. /\ (AnswersPorted => AnswersPorted') /\ (AnswersWell => AnswersWell')
        /\ (SearchAt(0, 0, 0) => SearchAt(0, 0, 0)')
    BY <1>1, Zenon DEF AnswersPorted, AnswersWell, SearchAt, DeviceHasFunctions
  <2>2. (\E b, d, f : SearchAt(b, d, f)) => \E b, d, f : SearchAt(b, d, f)'
    BY <1>1, Zenon DEF SearchAt, DeviceHasFunctions
  <2>3. \A driver : Wired(driver) => Wired(driver)'
    BY <1>1, Zenon DEF Wired, WiredTo, Served, Cards
  <2> QED
    BY <1>1, <2>1, <2>2, <2>3, Zenon DEF WiredInv
<1>2. CASE LoadSegments
  <2>1. /\ place = "segments" /\ place' = "start"
        /\ UNCHANGED <<handlers, answers, search>>
    BY <1>2, Zenon DEF LoadSegments, At, Go, pciVars
  <2>2. place' # "search"
    BY <2>1, Zenon
  <2> QED
    BY <2>1, <2>2, Zenon DEF WiredInv, AnswersPorted, AnswersWell, SearchAt, DeviceHasFunctions
<1>3. CASE AddDrivers
  <2>1. /\ place = "start" /\ place' = "search" /\ UNCHANGED <<answers, search>>
        /\ drivers' = <<[driver |-> "keyboard", portBase |-> 0], [driver |-> "mouse", portBase |-> 0]>>
        /\ DOMAIN handlers' = DOMAIN handlers
    BY <1>3, Zenon DEF AddDrivers, At, Go
  <2>2. DOMAIN handlers = Vector /\ AnswersPorted /\ AnswersWell /\ SearchAt(0, 0, 0)
    BY <2>1, Zenon DEF WiredInv
  <2>3. \A i \in 3..Len(drivers') : FALSE
    BY <2>1, SMT
  <2>4. AnswersPorted' /\ AnswersWell' /\ SearchAt(0, 0, 0)'
    BY <2>1, <2>2, Zenon DEF AnswersPorted, AnswersWell, SearchAt, DeviceHasFunctions
  <2>5. place' # "segments" /\ place' # "start"
    BY <2>1, Zenon
  <2> QED
    BY <2>1, <2>2, <2>3, <2>4, <2>5, Zenon DEF WiredInv
<1>4. CASE SelectDrivers
  <2>1. place = "search"
    BY <1>4, Zenon DEF SelectDrivers, At
  <2>2. CASE Searched
    <3>1. place' = "activate"
      BY <1>4, <2>2, Zenon DEF SelectDrivers, Go
    <3>2. place' # "segments" /\ place' # "start" /\ place' # "search"
      BY <3>1, Zenon
    <3> QED
      BY <3>2, Zenon DEF WiredInv
  <2>3. CASE ~Searched
    <3>1. SelectDriver /\ place' = place
      BY <1>4, <2>3, Zenon DEF SelectDrivers
    <3> QED
      BY <2>1, <3>1, SearchWires, Zenon
  <2> QED
    BY <2>2, <2>3
<1>5. CASE place \notin {"segments", "start", "search"}
  <2>1. place' # "segments" /\ place' # "start" /\ place' # "search"
    BY <1>5, Zenon
       DEF Next, Kernel, LoadSegments, AddDrivers, SelectDrivers, Activate, ActivateDevice,
           AllActive, SetMode, UseDisk, ReadPartitions, TakeCard, ControllerStep, DiskStep, At, Go,
           vars
  <2> QED
    BY <2>1, Zenon DEF WiredInv
<1>6. CASE UNCHANGED vars
  BY <1>1, <1>6, Zenon DEF vars, pciVars
<1> QED
  BY <1>2, <1>3, <1>4, <1>5, <1>6, Zenon
     DEF Next, Kernel, Activate, ActivateDevice, AllActive, SetMode, UseDisk, ReadPartitions,
         TakeCard, ControllerStep, DiskStep, At

(* What the search has wired is wired when it ends.                        *)
LEMMA WiredMeansWired ==
  ASSUME WiredInv
  PROVE  CardIsWired
<1> SUFFICES ASSUME Searched, NEW i \in 3..Len(drivers), place = "search", NEW c, c = drivers[i].driver
             PROVE  /\ c \in Cards
                    /\ \E bar \in DOMAIN answers[c].bars :
                         answers[c].bars[bar]
                           = [type |-> "InputOutput", address |-> drivers[i].portBase]
                    /\ \/ \E other \in Cards \ {c} :
                            InterruptNumber(answers[other]) = InterruptNumber(answers[c])
                       \/ handlers[InterruptNumber(answers[c])] = c
  BY Zenon DEF CardIsWired, At
<1>1. PICK card \in Cards : WiredTo(card, drivers[i])
  BY Zenon DEF WiredInv, Wired
<1>2. PICK port : /\ drivers[i] = [driver |-> card, portBase |-> port]
                  /\ \E bar \in DOMAIN answers[card].bars :
                       answers[card].bars[bar] = [type |-> "InputOutput", address |-> port]
  BY <1>1, Zenon DEF WiredTo
<1>3. \A d, p : [driver |-> d, portBase |-> p].driver = d /\ [driver |-> d, portBase |-> p].portBase = p
  BY SMT
<1>4. c = card /\ drivers[i].portBase = port
  <2>1. drivers[i].driver = [driver |-> card, portBase |-> port].driver
    BY <1>2, Zenon
  <2>2. drivers[i].portBase = [driver |-> card, portBase |-> port].portBase
    BY <1>2, Zenon
  <2>3. /\ [driver |-> card, portBase |-> port].driver = card
        /\ [driver |-> card, portBase |-> port].portBase = port
    BY <1>3, Zenon
  <2> QED
    BY <2>1, <2>2, <2>3, Zenon
<1> QED
  BY <1>1, <1>2, <1>4, Zenon DEF WiredTo, Served

(* When the buses have been searched, every driver behind those of keyboard*)
(* and mouse is a network card's: its portBase is one of the card's ports, *)
(* and the card's interrupts come to it unless another card has the line   *)
(* (GetBaseAddressRegister, SelectDrivers, GetDriver, AddDriver).          *)
THEOREM CardsAreWired ==
  ASSUME CardsArePorted
  PROVE  Spec => []CardIsWired
<1>1. Init => WiredInv /\ DriversNamed
  <2>1. Init => place = "segments"
    BY Zenon DEF Init
  <2>2. Init => DriversNamed
    BY <2>1, Zenon DEF DriversNamed
  <2> QED
    BY <2>2, InitWiredInv
<1>2. WiredInv /\ DriversNamed /\ [Next]_vars => WiredInv' /\ DriversNamed'
  BY WiredInvKept, DriversNamedKept
<1>3. WiredInv => CardIsWired
  BY WiredMeansWired
<1> QED
  BY <1>1, <1>2, <1>3, PTL DEF Spec

-----------------------------------------------------------------------------
(* The graphics mode *)

RegisterGroups == {"sequencer", "crtc", "graphics", "attribute"}

(* What the accesses rest on of the table: its registers fit the groups,   *)
(* index 17 does not lock crtc again, and the memory is at 0xA0000.        *)
TableWritten ==
  /\ DOMAIN Mode = RegisterGroups
  /\ \A g \in RegisterGroups : Count(g) \in 1..31 /\ DOMAIN Mode[g] = 1..Count(g)
  /\ Count("graphics") = 9 /\ Count("crtc") = 25
  /\ Registers = [g \in RegisterGroups |-> Registers[g]]
  /\ \A g \in RegisterGroups : Registers[g] \in [1..Count(g) -> Int]
  /\ Registers["crtc"][18] < 128 /\ Registers["graphics"][7] = 5

(* WriteRegisters changes two registers of crtc and no other.              *)
LEMMA RegistersOfGroup ==
  /\ Registers.sequencer = Mode.sequencer /\ Registers.graphics = Mode.graphics
  /\ Registers.attribute = Mode.attribute
  /\ Registers.crtc = [Mode.crtc EXCEPT ![4] = SetBit7(@), ![18] = ClearBit7(@)]
  /\ Registers = [g \in DOMAIN Mode |-> Registers[g]]
<1>1. PICK m : m = Mode
  OBVIOUS
<1>2. DOMAIN m = RegisterGroups /\ m = [g \in RegisterGroups |-> m[g]]
  BY <1>1 DEF Mode, RegisterGroups
<1>3. Registers = [m EXCEPT !.crtc[4] = SetBit7(@), !.crtc[18] = ClearBit7(@)]
  BY <1>1 DEF Registers
<1>4. PICK c : c = [m.crtc EXCEPT ![4] = SetBit7(@), ![18] = ClearBit7(@)]
  BY Zenon
<1>5. Registers = [m EXCEPT !.crtc = c]
  BY <1>2, <1>3, <1>4, Zenon
<1> QED
  BY <1>1, <1>2, <1>4, <1>5 DEF RegisterGroups

(* The groups of the table.                                                *)
LEMMA LengthOfGroup ==
  /\ Mode.sequencer \in Seq(Int) /\ Len(Mode.sequencer) = 5
  /\ Mode.crtc \in Seq(Int) /\ Len(Mode.crtc) = 25
  /\ Mode.graphics \in Seq(Int) /\ Len(Mode.graphics) = 9 /\ Mode.graphics[7] = 5
  /\ Mode.attribute \in Seq(Int) /\ Len(Mode.attribute) = 21
  /\ Mode.crtc[18] = 14
PROOF BY DEF Mode

(* The same, register by register.                                         *)
LEMMA FunctionOfGroup ==
  /\ Mode.sequencer \in [1..5 -> Int] /\ Mode.crtc \in [1..25 -> Int]
  /\ Mode.graphics \in [1..9 -> Int] /\ Mode.attribute \in [1..21 -> Int]
PROOF BY LengthOfGroup, LenProperties, Zenon

(* So the table is as it should be.                                        *)
LEMMA TableIsWritten == TableWritten
<1>1. DOMAIN Mode = RegisterGroups
  BY DEF Mode, RegisterGroups
<1>2. \A g \in RegisterGroups : Count(g) = Len(Mode[g])
  BY <1>1 DEF Count
<1>3. /\ Count("sequencer") = 5 /\ Count("crtc") = 25 /\ Count("graphics") = 9
      /\ Count("attribute") = 21
  BY <1>2, LengthOfGroup, Zenon DEF RegisterGroups
<1>4. \A g \in RegisterGroups : Count(g) \in 1..31 /\ Mode[g] \in [1..Count(g) -> Int]
  <2>1. \A g \in RegisterGroups : Count(g) \in 1..31
    BY <1>3 DEF RegisterGroups
  <2>2. \A g \in RegisterGroups : Mode[g] \in [1..Count(g) -> Int]
    BY <1>3, FunctionOfGroup, Zenon DEF RegisterGroups
  <2> QED
    BY <2>1, <2>2
<1>5. Registers.crtc \in [1..25 -> Int] /\ Registers.crtc[18] = 14
  <2>1. PICK t : t = Mode.crtc
    OBVIOUS
  <2>2. t \in [1..25 -> Int] /\ t[18] = 14 /\ SetBit7(t[4]) \in Int /\ ClearBit7(14) = 14
    <3>1. t \in [1..25 -> Int] /\ t[18] = 14
      BY <2>1, LengthOfGroup, FunctionOfGroup
    <3>2. t[4] \in Int
      BY <3>1
    <3> QED
      BY <3>1, <3>2 DEF SetBit7, ClearBit7
  <2>3. PICK u : u = [t EXCEPT ![4] = SetBit7(t[4])]
    BY Zenon
  <2>4. u \in [1..25 -> Int] /\ u[18] = 14
    BY <2>2, <2>3
  <2>5. Registers.crtc = [u EXCEPT ![18] = ClearBit7(u[18])]
    BY <2>1, <2>3, RegistersOfGroup
  <2> QED
    BY <2>2, <2>4, <2>5
<1>6. \A g \in RegisterGroups : Registers[g] \in [1..Count(g) -> Int]
  BY <1>3, <1>4, <1>5, RegistersOfGroup, Zenon DEF RegisterGroups
<1>7. Registers["graphics"][7] = 5
  BY RegistersOfGroup, LengthOfGroup
<1>8. Registers = [g \in RegisterGroups |-> Registers[g]]
  BY <1>1, RegistersOfGroup
<1>9. \A g \in RegisterGroups : DOMAIN Mode[g] = 1..Count(g)
  BY <1>4
<1> QED
  <2>1. Registers["crtc"][18] < 128
    BY <1>5
  <2>2. Count("graphics") = 9 /\ Count("crtc") = 25
    BY <1>3
  <2>3. \A g \in RegisterGroups : Count(g) \in 1..31 /\ DOMAIN Mode[g] = 1..Count(g)
    BY <1>4, <1>9
  <2> QED
    BY <1>1, <1>6, <1>7, <1>8, <2>1, <2>2, <2>3, Zenon DEF TableWritten

(* What the card holds.                                                    *)
CardTyped(v) ==
  /\ {"misc", "registers", "index", "locked", "odd", "shown"} \subseteq DOMAIN v
  /\ v.registers = [g \in RegisterGroups |-> v.registers[g]]
  /\ \A g \in RegisterGroups : v.registers[g] \in [1..Count(g) -> Int]
  /\ v.index \in [RegisterGroups -> Int]

(* A value goes to the register of the index and to no other, and only     *)
(* index 17 of crtc has to do with the lock.                               *)
LEMMA ValueWritten ==
  ASSUME NEW v, CardTyped(v), NEW g \in RegisterGroups, NEW i \in 1..Count(g),
         v.index[g] = i - 1, g = "crtc" => ~v.locked, NEW value \in Int
  PROVE  LET n == Value(v, g, value)
         IN  /\ CardTyped(n) /\ n.registers[g][i] = value
             /\ \A h \in RegisterGroups : \A j \in 1..Count(h) :
                  h # g \/ j # i => n.registers[h][j] = v.registers[h][j]
             /\ n.misc = v.misc /\ n.index = v.index /\ n.odd = v.odd /\ n.shown = v.shown
             /\ (g = "crtc" /\ i = 18 => value < 128) /\ ~v.locked => ~n.locked
<1> DEFINE n == Value(v, g, value)
<1>1. PICK locks : locks = Locks(v, g, value)
  OBVIOUS
<1>3. (g = "crtc" /\ i = 18 => value < 128) /\ ~v.locked => ~locks
  <2>1. CASE g = "crtc" /\ i = 18
    <3>1. v.index[g] = 17
      BY <2>1
    <3>2. locks = (value >= 128)
      BY <1>1, <2>1, <3>1, Zenon DEF Locks
    <3>3. value < 128 => ~(value >= 128)
      OBVIOUS
    <3> QED
      BY <2>1, <3>2, <3>3, Zenon
  <2>2. CASE ~(g = "crtc" /\ i = 18)
    <3>1. locks = v.locked
      BY <1>1, <2>2 DEF Locks
    <3> QED
      BY <3>1
  <2> QED
    BY <2>1, <2>2
<1>4. v.index[g] + 1 = i
  OBVIOUS
<1>5. n = [v EXCEPT !.registers[g][i] = value, !.locked = locks]
  BY <1>1, <1>4, Zenon DEF Value, CardTyped
<1>6. PICK r : r = [v.registers[g] EXCEPT ![i] = value]
  BY Zenon
<1>7. PICK q : q = [v.registers EXCEPT ![g] = r]
  BY Zenon
<1>8. n = [v EXCEPT !.registers = q, !.locked = locks]
  BY <1>5, <1>6, <1>7 DEF CardTyped
<1>9. /\ n.registers = q /\ n.locked = locks /\ n.misc = v.misc /\ n.index = v.index
      /\ n.odd = v.odd /\ n.shown = v.shown /\ DOMAIN n = DOMAIN v
  BY <1>8 DEF CardTyped
<1>10. r \in [1..Count(g) -> Int] /\ r[i] = value /\ \A j \in 1..Count(g) : j # i => r[j] = v.registers[g][j]
  BY <1>6, Zenon DEF CardTyped
<1>11. DOMAIN v.registers = RegisterGroups
  BY DEF CardTyped
<1>12. q = [h \in RegisterGroups |-> q[h]] /\ q[g] = r /\ \A h \in RegisterGroups : h # g => q[h] = v.registers[h]
  BY <1>7, <1>11
<1>13. CardTyped(n)
  BY <1>9, <1>10, <1>12 DEF CardTyped
<1> HIDE DEF n
<1>14. \A h \in RegisterGroups : \A j \in 1..Count(h) :
         h # g \/ j # i => n.registers[h][j] = v.registers[h][j]
  BY <1>9, <1>10, <1>12, Zenon
<1>15. n.registers[g][i] = value
  BY <1>9, <1>10, <1>12
<1> QED
  BY <1>3, <1>9, <1>13, <1>14, <1>15 DEF n

(* An index selects a register and changes none.                           *)
LEMMA IndexWritten ==
  ASSUME NEW v, CardTyped(v), NEW g \in RegisterGroups \ {"attribute"}, NEW value \in Int
  PROVE  LET n == Index(v, g, value)
         IN  /\ CardTyped(n) /\ n.index[g] = value
             /\ n.registers = v.registers /\ n.misc = v.misc /\ n.locked = v.locked /\ n.odd = v.odd
<1>1. PICK x : x = [v.index EXCEPT ![g] = value]
  BY Zenon
<1>2. x \in [RegisterGroups -> Int] /\ x[g] = value
  BY <1>1 DEF CardTyped
<1>3. Index(v, g, value) = [v EXCEPT !.index = x]
  BY <1>1 DEF Index, CardTyped
<1> QED
  BY <1>2, <1>3 DEF CardTyped

(* The attribute port takes an index when it is even; from 32 on the screen*)
(* is shown.                                                               *)
LEMMA AttributeIndexed ==
  ASSUME NEW v, CardTyped(v), ~v.odd, NEW value \in 0..32
  PROVE  LET n == AttributePort(v, value)
         IN  /\ CardTyped(n) /\ n.odd /\ (value < 32 => n.index["attribute"] = value)
             /\ (value = 32 => n.shown)
             /\ n.registers = v.registers /\ n.misc = v.misc /\ n.locked = v.locked
<1>1. PICK x : x = [v.index EXCEPT !["attribute"] = value % 32]
  BY Zenon
<1>2. value % 32 \in Int /\ (value < 32 => value % 32 = value)
  OBVIOUS
<1>3. x \in [RegisterGroups -> Int] /\ (value < 32 => x["attribute"] = value)
  BY <1>1, <1>2 DEF CardTyped, RegisterGroups
<1>4. PICK shows : shows = (value >= 32)
  OBVIOUS
<1>5. AttributePort(v, value) = [v EXCEPT !.index = x, !.odd = TRUE, !.shown = shows]
  BY <1>1, <1>4 DEF AttributePort, Index, CardTyped
<1>6. PICK n : n = AttributePort(v, value)
  OBVIOUS
<1>7. /\ DOMAIN n = DOMAIN v /\ n.registers = v.registers /\ n.misc = v.misc /\ n.index = x
      /\ n.locked = v.locked /\ n.odd = TRUE /\ n.shown = shows
  BY <1>5, <1>6 DEF CardTyped
<1>8. CardTyped(n)
  BY <1>3, <1>7 DEF CardTyped
<1>9. value = 32 => shows
  <2>1. value = 32 => value >= 32
    OBVIOUS
  <2> QED
    BY <1>4, <2>1, Zenon
<1> QED
  BY <1>3, <1>6, <1>7, <1>8, <1>9

(* And a value when it is odd.                                             *)
LEMMA AttributeWritten ==
  ASSUME NEW v, CardTyped(v), v.odd, NEW i \in 1..Count("attribute"),
         v.index["attribute"] = i - 1, NEW value \in Int
  PROVE  LET n == AttributePort(v, value)
         IN  /\ CardTyped(n) /\ n.registers["attribute"][i] = value
             /\ \A h \in RegisterGroups : \A j \in 1..Count(h) :
                  h # "attribute" \/ j # i => n.registers[h][j] = v.registers[h][j]
             /\ n.misc = v.misc /\ (~v.locked => ~n.locked)
<1>1. PICK u : u = Value(v, "attribute", value)
  OBVIOUS
<1>2. "attribute" \in RegisterGroups /\ "attribute" # "crtc"
  BY DEF RegisterGroups
<1>3. /\ CardTyped(u) /\ u.registers["attribute"][i] = value
      /\ \A h \in RegisterGroups : \A j \in 1..Count(h) :
           h # "attribute" \/ j # i => u.registers[h][j] = v.registers[h][j]
      /\ u.misc = v.misc /\ (~v.locked => ~u.locked)
  BY <1>1, <1>2, ValueWritten
<1>4. AttributePort(v, value) = [u EXCEPT !.odd = FALSE]
  BY <1>1 DEF AttributePort
<1>5. PICK n : n = AttributePort(v, value)
  OBVIOUS
<1>6. /\ DOMAIN n = DOMAIN u /\ n.registers = u.registers /\ n.misc = u.misc /\ n.index = u.index
      /\ n.locked = u.locked
  BY <1>3, <1>4, <1>5 DEF CardTyped
<1>7. CardTyped(n)
  BY <1>3, <1>6 DEF CardTyped
<1> QED
  BY <1>3, <1>5, <1>6, <1>7

-----------------------------------------------------------------------------
(* WriteRegisters *)

Plain == {"sequencer", "crtc", "graphics"}

Rank ==
  [misc |-> 1, sequencer |-> 2, unlock |-> 3, crtc |-> 4, graphics |-> 5, attribute |-> 6,
   show |-> 7, done |-> 8]

(* The register has been written before WriteRegisters gets to w.          *)
Earlier(g, j, w) == Rank[g] < Rank[w.part] \/ (g = w.part /\ j < w.register)

AccessesOf(part) == IF part = "misc" THEN 1 ELSE IF part = "attribute" THEN 3 ELSE 2

(* A place in WriteRegisters.                                              *)
Placed(w) ==
  /\ w = [part |-> w.part, register |-> w.register, access |-> w.access]
  /\ w.part \in DOMAIN Rank /\ w.register \in Nat /\ w.access \in Nat
  /\ w.part # "done" =>
       w.register \in 1..Count(w.part) /\ w.access \in 1..AccessesOf(w.part)

(* Between the accesses of one register: the index is the register's, and  *)
(* the attribute port takes next what it is given next.                    *)
Between(v, w) ==
  /\ w.part \in Plain /\ w.access = 2 => v.index[w.part] = w.register - 1
  /\ w.part \in {"attribute", "show"} /\ w.access = 2 => ~v.odd
  /\ w.part = "attribute" /\ w.access = 3 => v.odd /\ v.index["attribute"] = w.register - 1

(* What is programmed so far.                                              *)
Programmed(v, w) ==
  /\ \A g \in RegisterGroups : \A j \in 1..Count(g) :
       Earlier(g, j, w) => v.registers[g][j] = Registers[g][j]
  /\ Rank[w.part] > 1 => v.misc = Misc
  /\ Rank[w.part] > 3 => ~v.locked
  /\ w.part = "done" => v.shown

VgaInv ==
  CardTyped(vga) /\ Placed(writing) /\ Between(vga, writing) /\ Programmed(vga, writing)

(* The accesses of a register of each part.                                *)
LEMMA AccessesListed ==
  ASSUME NEW i
  PROVE  /\ Accesses("misc", i) = <<[port |-> "misc", value |-> Misc]>>
         /\ Accesses("unlock", i) = Unlock
         /\ Accesses("show", i) = <<[port |-> "reset"], [port |-> "attribute", value |-> 32]>>
         /\ Accesses("attribute", i) =
              <<[port |-> "reset"],
                [port |-> "attribute", value |-> i - 1],
                [port |-> "attribute", value |-> Registers["attribute"][i]]>>
         /\ \A part \in Plain : Accesses(part, i) =
              <<[port |-> "index", group |-> part, value |-> i - 1],
                [port |-> "data", group |-> part, value |-> Registers[part][i]]>>
<1>1. /\ Accesses("misc", i) = <<[port |-> "misc", value |-> Misc]>>
      /\ Accesses("unlock", i) = Unlock
  BY DEF Accesses
<1>2. Accesses("show", i) = <<[port |-> "reset"], [port |-> "attribute", value |-> 32]>>
  BY DEF Accesses
<1>3. Accesses("attribute", i) =
        <<[port |-> "reset"],
          [port |-> "attribute", value |-> i - 1],
          [port |-> "attribute", value |-> Registers["attribute"][i]]>>
  BY DEF Accesses
<1>4. ASSUME NEW part \in Plain
      PROVE  Accesses(part, i) =
              <<[port |-> "index", group |-> part, value |-> i - 1],
                [port |-> "data", group |-> part, value |-> Registers[part][i]]>>
  BY DEF Accesses, Plain
<1> QED
  BY <1>1, <1>2, <1>3, <1>4

(* And their number.                                                       *)
LEMMA AccessesCounted ==
  ASSUME NEW part \in DOMAIN Rank \ {"done"}, NEW i
  PROVE  Len(Accesses(part, i)) = AccessesOf(part)
<1>1. Len(Accesses("misc", i)) = 1
  BY AccessesListed
<1>2. Len(Accesses("unlock", i)) = 2
  BY AccessesListed DEF Unlock
<1>3. Len(Accesses("show", i)) = 2
  BY AccessesListed
<1>4. Len(Accesses("attribute", i)) = 3
  BY AccessesListed
<1>5. ASSUME NEW p \in Plain
      PROVE  Len(Accesses(p, i)) = 2
  <2>1. Accesses(p, i) = <<[port |-> "index", group |-> p, value |-> i - 1],
                           [port |-> "data", group |-> p, value |-> Registers[p][i]]>>
    BY AccessesListed, Zenon
  <2> QED
    BY <2>1
<1> QED
  BY <1>1, <1>2, <1>3, <1>4, <1>5 DEF AccessesOf, Rank, Plain

(* Between the accesses of one register no register counts as written.     *)
LEMMA OnwardWithin ==
  ASSUME NEW w, Placed(w), w.part # "done", w.access < AccessesOf(w.part)
  PROVE  /\ Onward(w) = [part |-> w.part, register |-> w.register, access |-> w.access + 1]
         /\ Placed(Onward(w))
         /\ \A g, j : Earlier(g, j, Onward(w)) <=> Earlier(g, j, w)
<1>1. Len(Accesses(w.part, w.register)) = AccessesOf(w.part)
  BY AccessesCounted DEF Placed
<1>2. Onward(w) = [part |-> w.part, register |-> w.register, access |-> w.access + 1]
  BY <1>1 DEF Onward, Placed
<1>3. Placed(Onward(w))
  BY <1>2 DEF Placed, AccessesOf
<1> QED
  BY <1>2, <1>3 DEF Earlier

(* Behind the last one that register does, and no other.                   *)
LEMMA OnwardBehind ==
  ASSUME NEW w, Placed(w), w.part # "done", w.access = AccessesOf(w.part)
  PROVE  LET n == Onward(w)
         IN  /\ Placed(n) /\ n.access = 1
             /\ \/ n.part = w.part /\ n.register = w.register + 1
                \/ n.part = Behind[w.part] /\ w.register = Count(w.part)
             /\ \A g \in RegisterGroups : \A j \in 1..Count(g) :
                  Earlier(g, j, n) => Earlier(g, j, w) \/ (g = w.part /\ j = w.register)
<1>1. Len(Accesses(w.part, w.register)) = AccessesOf(w.part)
  BY AccessesCounted DEF Placed
<1>2. /\ \A p \in DOMAIN Rank : Rank[p] \in 1..8 /\ AccessesOf(p) \in 1..3
      /\ \A p \in DOMAIN Rank \ {"done"} : Behind[p] \in DOMAIN Rank /\ Rank[Behind[p]] = Rank[p] + 1
      /\ \A p, q \in DOMAIN Rank : Rank[p] = Rank[q] => p = q
      /\ RegisterGroups \subseteq DOMAIN Rank
  BY DEF Rank, Behind, AccessesOf, RegisterGroups
<1>3. \A p \in DOMAIN Rank \ {"done"} : Count(p) \in Nat /\ Count(p) >= 1
  <2>1. \A p \in RegisterGroups : Count(p) \in 1..31
    BY TableIsWritten, Zenon DEF TableWritten
  <2>2. \A p : p \notin RegisterGroups => Count(p) = 1
    BY TableIsWritten, Zenon DEF TableWritten, Count
  <2> QED
    BY <2>1, <2>2
<1>4. PICK part, register : part = w.part /\ register = w.register
  OBVIOUS
<1>5. part \in DOMAIN Rank \ {"done"} /\ register \in 1..Count(part)
  BY <1>4 DEF Placed
<1>6. CASE register < Count(part)
  <2>1. Onward(w) = [part |-> part, register |-> register + 1, access |-> 1]
    <3>1. ~(w.access < Len(Accesses(w.part, w.register)))
      BY <1>1, <1>2, <1>4, <1>5
    <3>2. Onward(w) = [w EXCEPT !.register = @ + 1, !.access = 1]
      BY <1>4, <1>6, <3>1, Zenon DEF Onward
    <3> QED
      BY <1>4, <3>2, Zenon DEF Placed
  <2>2. Placed(Onward(w))
    BY <1>2, <1>3, <1>5, <1>6, <2>1 DEF Placed
  <2> QED
    BY <1>4, <1>5, <2>1, <2>2 DEF Earlier
<1>7. CASE ~(register < Count(part))
  <2>1. Onward(w) = [part |-> Behind[part], register |-> 1, access |-> 1]
    BY <1>1, <1>4, <1>7 DEF Onward, Placed
  <2>2. register = Count(part)
    BY <1>3, <1>5, <1>7
  <2>3. Placed(Onward(w))
    BY <1>2, <1>3, <1>5, <2>1 DEF Placed
  <2>4. ASSUME NEW g \in RegisterGroups, NEW j \in 1..Count(g), Earlier(g, j, Onward(w))
        PROVE  Earlier(g, j, w) \/ (g = w.part /\ j = w.register)
    <3>1. Rank[g] < Rank[part] + 1 \/ (g = Behind[part] /\ j < 1)
      BY <1>2, <1>5, <2>1, <2>4 DEF Earlier
    <3>2. Rank[g] < Rank[part] \/ g = part
      BY <1>2, <1>5, <3>1
    <3>3. j < Count(g) \/ j = Count(g)
      BY <1>2, <1>3 DEF RegisterGroups
    <3> QED
      BY <1>4, <2>2, <3>2, <3>3 DEF Earlier
  <2> QED
    BY <1>4, <2>1, <2>2, <2>3, <2>4
<1> QED
  BY <1>6, <1>7

(* The order of the parts.                                                 *)
LEMMA RankOfPart ==
  /\ \A p \in DOMAIN Rank : Rank[p] \in 1..8
  /\ \A p \in DOMAIN Rank \ {"done"} :
       /\ Rank[Behind[p]] = Rank[p] + 1
       /\ Rank[p] >= 1 /\ (Rank[p] > 1 \/ p = "misc") /\ (Rank[p] > 2 => Rank[p] > 3 \/ p = "unlock")
       /\ Behind[p] = "done" => p = "show"
PROOF BY DEF Rank, Behind

(* Within the accesses of a register the registers stay.                   *)
LEMMA WithinKeeps ==
  ASSUME NEW v, NEW w, NEW n, Placed(w), Programmed(v, w), w.part # "done",
         w.access < AccessesOf(w.part),
         n.registers = v.registers, n.misc = v.misc, ~v.locked => ~n.locked
  PROVE  Programmed(n, Onward(w))
<1>1. PICK o : o = Onward(w)
  OBVIOUS
<1>2. o.part = w.part /\ \A g, j : Earlier(g, j, o) <=> Earlier(g, j, w)
  BY <1>1, OnwardWithin
<1>3. Programmed(n, o)
  BY <1>2 DEF Programmed
<1> QED
  BY <1>1, <1>3

(* The last access of a register writes it.                                *)
LEMMA BehindKeeps ==
  ASSUME NEW v, NEW w, NEW n, Placed(w), Programmed(v, w), w.part # "done",
         w.access = AccessesOf(w.part),
         \A g \in RegisterGroups : \A j \in 1..Count(g) :
           g # w.part \/ j # w.register => n.registers[g][j] = v.registers[g][j],
         w.part \in RegisterGroups =>
           n.registers[w.part][w.register] = Registers[w.part][w.register],
         n.misc = (IF w.part = "misc" THEN Misc ELSE v.misc),
         ~v.locked \/ w.part = "unlock" => ~n.locked,
         w.part = "show" => n.shown
  PROVE  Between(n, Onward(w)) /\ Programmed(n, Onward(w))
<1>1. PICK o : o = Onward(w)
  OBVIOUS
<1>2. /\ o.access = 1 /\ (o.part = w.part \/ o.part = Behind[w.part])
      /\ \A g \in RegisterGroups : \A j \in 1..Count(g) :
           Earlier(g, j, o) => Earlier(g, j, w) \/ (g = w.part /\ j = w.register)
  BY <1>1, OnwardBehind
<1>3. PICK p : p = w.part
  OBVIOUS
<1>4. p \in DOMAIN Rank \ {"done"}
  BY <1>3 DEF Placed
<1>5. ASSUME NEW g \in RegisterGroups, NEW j \in 1..Count(g), Earlier(g, j, o)
      PROVE  n.registers[g][j] = Registers[g][j]
  <2>1. CASE g = w.part /\ j = w.register
    BY <2>1
  <2>2. CASE ~(g = w.part /\ j = w.register)
    <3>1. Earlier(g, j, w)
      BY <1>2, <1>5, <2>2
    <3> QED
      BY <2>2, <3>1 DEF Programmed
  <2> QED
    BY <2>1, <2>2
<1>6. /\ Rank[o.part] > 1 => Rank[p] > 1 \/ p = "misc"
      /\ Rank[o.part] > 3 => Rank[p] > 3 \/ p = "unlock"
      /\ o.part = "done" => p = "show"
  <2>1. CASE o.part = p
    BY <1>4, <2>1
  <2>2. CASE o.part = Behind[p]
    BY <1>4, <2>2, RankOfPart
  <2> QED
    BY <1>2, <1>3, <2>1, <2>2
<1>7. Rank[o.part] > 1 => n.misc = Misc
  BY <1>3, <1>6 DEF Programmed
<1>8. Rank[o.part] > 3 => ~n.locked
  BY <1>3, <1>6, Zenon DEF Programmed
<1>9. Between(n, o)
  BY <1>2 DEF Between
<1>10. Programmed(n, o)
  BY <1>3, <1>5, <1>6, <1>7, <1>8, Zenon DEF Programmed
<1> QED
  BY <1>1, <1>9, <1>10

(* One lemma for each part of WriteRegisters.                              *)
LEMMA MiscProgrammed ==
  ASSUME NEW v, NEW w, CardTyped(v), Placed(w), Programmed(v, w), w.part = "misc"
  PROVE  LET n == Accessed(v, Accesses(w.part, w.register)[w.access])
         IN  CardTyped(n) /\ Between(n, Onward(w)) /\ Programmed(n, Onward(w))
<1>1. w.access = 1 /\ AccessesOf(w.part) = 1
  BY DEF Placed, AccessesOf
<1>2. Accesses(w.part, w.register)[w.access] = [port |-> "misc", value |-> Misc]
  BY <1>1, AccessesListed
<1>3. PICK n : n = Accessed(v, Accesses(w.part, w.register)[w.access])
  OBVIOUS
<1>4. n = [v EXCEPT !.misc = Misc]
  BY <1>2, <1>3 DEF Accessed
<1>5. /\ n.registers = v.registers /\ n.misc = Misc /\ n.locked = v.locked /\ n.index = v.index
      /\ DOMAIN n = DOMAIN v
  BY <1>4 DEF CardTyped
<1>6. CardTyped(n)
  BY <1>5 DEF CardTyped
<1>7. w.part # "done" /\ w.part # "unlock" /\ w.part # "show" /\ w.part \notin RegisterGroups
  BY DEF RegisterGroups
<1>8. Between(n, Onward(w)) /\ Programmed(n, Onward(w))
  BY <1>1, <1>5, <1>7, BehindKeeps
<1> QED
  BY <1>3, <1>6, <1>8

(* From here on crtc is open.                                              *)
LEMMA UnlockProgrammed ==
  ASSUME NEW v, NEW w, CardTyped(v), Placed(w), Programmed(v, w), w.part = "unlock"
  PROVE  LET n == Accessed(v, Accesses(w.part, w.register)[w.access])
         IN  CardTyped(n) /\ Between(n, Onward(w)) /\ Programmed(n, Onward(w))
<1>1. w.access \in 1..2 /\ AccessesOf(w.part) = 2
  BY DEF Placed, AccessesOf
<1>2. PICK n : n = Accessed(v, Accesses(w.part, w.register)[w.access])
  OBVIOUS
<1>3. Accesses(w.part, w.register) = Unlock
  BY AccessesListed
<1>4. w.part # "done" /\ w.part # "misc" /\ w.part # "show" /\ w.part \notin RegisterGroups
  BY DEF RegisterGroups
<1>5. CASE w.access = 1
  <2>1. n = Index(v, "crtc", 17)
    BY <1>2, <1>3, <1>5 DEF Unlock, Accessed
  <2>2. /\ CardTyped(n) /\ n.registers = v.registers /\ n.misc = v.misc /\ n.locked = v.locked
    BY <2>1, IndexWritten DEF RegisterGroups
  <2>3. Programmed(n, Onward(w))
    BY <1>1, <1>4, <1>5, <2>2, WithinKeeps
  <2>4. Between(n, Onward(w))
    BY <1>1, <1>4, <1>5, OnwardWithin DEF Between, Plain
  <2> QED
    BY <1>2, <2>2, <2>3, <2>4
<1>6. CASE w.access = 2
  <2>1. n = [v EXCEPT !.locked = FALSE]
    BY <1>2, <1>3, <1>6 DEF Unlock, Accessed
  <2>2. /\ n.registers = v.registers /\ n.misc = v.misc /\ n.index = v.index /\ ~n.locked
        /\ DOMAIN n = DOMAIN v
    BY <2>1 DEF CardTyped
  <2>3. CardTyped(n)
    BY <2>2 DEF CardTyped
  <2>4. Between(n, Onward(w)) /\ Programmed(n, Onward(w))
    BY <1>1, <1>4, <1>6, <2>2, BehindKeeps
  <2> QED
    BY <1>2, <2>3, <2>4
<1> QED
  BY <1>1, <1>5, <1>6

(* A register of sequencer, crtc or graphics: index, then data.            *)
LEMMA PlainProgrammed ==
  ASSUME NEW v, NEW w, CardTyped(v), Placed(w), Between(v, w), Programmed(v, w), w.part \in Plain
  PROVE  LET n == Accessed(v, Accesses(w.part, w.register)[w.access])
         IN  CardTyped(n) /\ Between(n, Onward(w)) /\ Programmed(n, Onward(w))
<1>1. w.access \in 1..2 /\ AccessesOf(w.part) = 2
  BY DEF Placed, AccessesOf, Plain
<1>2. PICK n : n = Accessed(v, Accesses(w.part, w.register)[w.access])
  OBVIOUS
<1>3. PICK g, i : g = w.part /\ i = w.register
  OBVIOUS
<1>4. /\ w.part # "done" /\ w.part # "misc" /\ w.part # "show" /\ w.part # "unlock"
      /\ g \in RegisterGroups \ {"attribute"} /\ i \in 1..Count(g)
  BY <1>3 DEF RegisterGroups, Plain, Placed
<1>5. i - 1 \in Int
  BY <1>4
<1>6. Accesses(g, i) = <<[port |-> "index", group |-> g, value |-> i - 1],
                         [port |-> "data", group |-> g, value |-> Registers[g][i]]>>
  BY <1>3, AccessesListed, Zenon
<1>7. CASE w.access = 1
  <2>1. n = Index(v, g, i - 1)
    BY <1>2, <1>3, <1>6, <1>7 DEF Accessed
  <2>2. /\ CardTyped(n) /\ n.registers = v.registers /\ n.misc = v.misc /\ n.locked = v.locked
        /\ n.index[g] = i - 1
    BY <1>4, <1>5, <2>1, IndexWritten
  <2>3. Programmed(n, Onward(w))
    BY <1>1, <1>4, <1>7, <2>2, WithinKeeps
  <2>4. Between(n, Onward(w))
    BY <1>1, <1>3, <1>4, <1>7, <2>2, OnwardWithin DEF Between, Plain, RegisterGroups
  <2> QED
    BY <1>2, <2>2, <2>3, <2>4
<1>8. CASE w.access = 2
  <2>1. PICK value : value = Registers[g][i]
    OBVIOUS
  <2>2. n = Value(v, g, value)
    BY <1>2, <1>3, <1>6, <1>8, <2>1 DEF Accessed
  <2>3. value \in Int /\ (g = "crtc" /\ i = 18 => value < 128)
    BY <1>4, <2>1, TableIsWritten, Zenon DEF TableWritten
  <2>4. v.index[g] = i - 1 /\ (g = "crtc" => ~v.locked)
    BY <1>3, <1>8 DEF Between, Programmed, Rank
  <2>5. /\ CardTyped(n) /\ n.registers[g][i] = value
        /\ \A h \in RegisterGroups : \A j \in 1..Count(h) :
             h # g \/ j # i => n.registers[h][j] = v.registers[h][j]
        /\ n.misc = v.misc /\ (~v.locked => ~n.locked)
    BY <1>4, <2>2, <2>3, <2>4, ValueWritten
  <2>6. Between(n, Onward(w)) /\ Programmed(n, Onward(w))
    BY <1>1, <1>3, <1>4, <1>8, <2>1, <2>5, BehindKeeps
  <2> QED
    BY <1>2, <2>5, <2>6
<1> QED
  BY <1>1, <1>7, <1>8

(* Reading the reset port makes the attribute port take an index.          *)
LEMMA PortReset ==
  ASSUME NEW v, CardTyped(v)
  PROVE  LET n == Accessed(v, [port |-> "reset"])
         IN  /\ CardTyped(n) /\ ~n.odd
             /\ n.registers = v.registers /\ n.misc = v.misc /\ n.locked = v.locked
<1>1. PICK n : n = [v EXCEPT !.odd = FALSE]
  BY Zenon
<1>2. /\ n.registers = v.registers /\ n.misc = v.misc /\ n.locked = v.locked /\ n.index = v.index
      /\ ~n.odd /\ DOMAIN n = DOMAIN v
  BY <1>1 DEF CardTyped
<1>3. CardTyped(n)
  BY <1>2 DEF CardTyped
<1>4. Accessed(v, [port |-> "reset"]) = n
  BY <1>1 DEF Accessed
<1> QED
  BY <1>2, <1>3, <1>4

(* A register of the attribute controller: three accesses of two ports.    *)
LEMMA AttributeProgrammed ==
  ASSUME NEW v, NEW w, CardTyped(v), Placed(w), Between(v, w), Programmed(v, w), w.part = "attribute"
  PROVE  LET n == Accessed(v, Accesses(w.part, w.register)[w.access])
         IN  CardTyped(n) /\ Between(n, Onward(w)) /\ Programmed(n, Onward(w))
<1>1. w.access \in 1..3 /\ AccessesOf(w.part) = 3
  BY DEF Placed, AccessesOf
<1>2. PICK n : n = Accessed(v, Accesses(w.part, w.register)[w.access])
  OBVIOUS
<1>3. PICK i : i = w.register
  OBVIOUS
<1>4. /\ w.part # "done" /\ w.part # "misc" /\ w.part # "show" /\ w.part # "unlock"
      /\ w.part \in RegisterGroups /\ i \in 1..Count("attribute")
  BY <1>3 DEF RegisterGroups, Placed
<1>5. Count("attribute") \in 1..31
  BY <1>4, TableIsWritten, Zenon DEF TableWritten
<1>6. i - 1 \in 0..32 /\ i - 1 < 32
  BY <1>4, <1>5
<1>7. Accesses(w.part, i) =
        <<[port |-> "reset"],
          [port |-> "attribute", value |-> i - 1],
          [port |-> "attribute", value |-> Registers["attribute"][i]]>>
  BY AccessesListed, Zenon
<1>8. CASE w.access = 1
  <2>1. n = Accessed(v, [port |-> "reset"])
    BY <1>2, <1>3, <1>7, <1>8
  <2>2. /\ CardTyped(n) /\ ~n.odd
        /\ n.registers = v.registers /\ n.misc = v.misc /\ n.locked = v.locked
    BY <2>1, PortReset
  <2>3. Programmed(n, Onward(w))
    BY <1>1, <1>4, <1>8, <2>2, WithinKeeps
  <2>4. Between(n, Onward(w))
    BY <1>1, <1>4, <1>8, <2>2, OnwardWithin DEF Between, Plain
  <2> QED
    BY <1>2, <2>2, <2>3, <2>4
<1>9. CASE w.access = 2
  <2>1. n = AttributePort(v, i - 1)
    BY <1>2, <1>3, <1>7, <1>9 DEF Accessed
  <2>2. ~v.odd
    BY <1>9 DEF Between
  <2>3. /\ CardTyped(n) /\ n.odd /\ n.index["attribute"] = i - 1
        /\ n.registers = v.registers /\ n.misc = v.misc /\ n.locked = v.locked
    BY <1>6, <2>1, <2>2, AttributeIndexed, Zenon
  <2>4. Programmed(n, Onward(w))
    BY <1>1, <1>4, <1>9, <2>3, WithinKeeps
  <2>5. Between(n, Onward(w))
    BY <1>1, <1>3, <1>4, <1>9, <2>3, OnwardWithin DEF Between, Plain
  <2> QED
    BY <1>2, <2>3, <2>4, <2>5
<1>10. CASE w.access = 3
  <2>1. PICK value : value = Registers["attribute"][i]
    OBVIOUS
  <2>2. n = AttributePort(v, value)
    BY <1>2, <1>3, <1>7, <1>10, <2>1 DEF Accessed
  <2>3. value \in Int
    BY <1>4, <2>1, TableIsWritten, Zenon DEF TableWritten
  <2>4. v.odd /\ v.index["attribute"] = i - 1
    BY <1>3, <1>10 DEF Between
  <2>5. /\ CardTyped(n) /\ n.registers["attribute"][i] = value
        /\ \A h \in RegisterGroups : \A j \in 1..Count(h) :
             h # "attribute" \/ j # i => n.registers[h][j] = v.registers[h][j]
        /\ n.misc = v.misc /\ (~v.locked => ~n.locked)
    BY <1>4, <2>2, <2>3, <2>4, AttributeWritten
  <2>6. Between(n, Onward(w)) /\ Programmed(n, Onward(w))
    BY <1>1, <1>3, <1>4, <1>10, <2>1, <2>5, BehindKeeps
  <2> QED
    BY <1>2, <2>5, <2>6
<1> QED
  BY <1>1, <1>8, <1>9, <1>10

(* The last two accesses show the screen.                                  *)
LEMMA ShowProgrammed ==
  ASSUME NEW v, NEW w, CardTyped(v), Placed(w), Between(v, w), Programmed(v, w), w.part = "show"
  PROVE  LET n == Accessed(v, Accesses(w.part, w.register)[w.access])
         IN  CardTyped(n) /\ Between(n, Onward(w)) /\ Programmed(n, Onward(w))
<1>1. w.access \in 1..2 /\ AccessesOf(w.part) = 2
  BY DEF Placed, AccessesOf
<1>2. PICK n : n = Accessed(v, Accesses(w.part, w.register)[w.access])
  OBVIOUS
<1>3. w.part # "done" /\ w.part # "misc" /\ w.part # "unlock" /\ w.part \notin RegisterGroups
  BY DEF RegisterGroups
<1>4. Accesses(w.part, w.register) = <<[port |-> "reset"], [port |-> "attribute", value |-> 32]>>
  BY AccessesListed, Zenon
<1>5. CASE w.access = 1
  <2>1. n = Accessed(v, [port |-> "reset"])
    BY <1>2, <1>4, <1>5
  <2>2. /\ CardTyped(n) /\ ~n.odd
        /\ n.registers = v.registers /\ n.misc = v.misc /\ n.locked = v.locked
    BY <2>1, PortReset
  <2>3. Programmed(n, Onward(w))
    BY <1>1, <1>3, <1>5, <2>2, WithinKeeps
  <2>4. Between(n, Onward(w))
    BY <1>1, <1>3, <1>5, <2>2, OnwardWithin DEF Between, Plain
  <2> QED
    BY <1>2, <2>2, <2>3, <2>4
<1>6. CASE w.access = 2
  <2>1. n = AttributePort(v, 32)
    BY <1>2, <1>4, <1>6 DEF Accessed
  <2>2. ~v.odd
    BY <1>6 DEF Between
  <2>3. /\ CardTyped(n) /\ n.shown
        /\ n.registers = v.registers /\ n.misc = v.misc /\ n.locked = v.locked
    BY <2>1, <2>2, AttributeIndexed
  <2>4. Between(n, Onward(w)) /\ Programmed(n, Onward(w))
    BY <1>1, <1>3, <1>6, <2>3, BehindKeeps
  <2> QED
    BY <1>2, <2>3, <2>4
<1> QED
  BY <1>1, <1>5, <1>6

(* Before the first access nothing is claimed of the card.                 *)
LEMMA NothingProgrammed ==
  ASSUME NEW locked, NEW odd
  PROVE  /\ CardTyped(Card(locked, odd)) /\ Placed(Begin)
         /\ Between(Card(locked, odd), Begin) /\ Programmed(Card(locked, odd), Begin)
<1>1. PICK v : v = Card(locked, odd)
  OBVIOUS
<1>2. /\ {"misc", "registers", "index", "locked", "odd", "shown"} \subseteq DOMAIN v
      /\ v.registers = [g \in DOMAIN Mode |-> [i \in DOMAIN Mode[g] |-> Unknown]]
      /\ v.index = [g \in DOMAIN Mode |-> 0]
  BY <1>1 DEF Card
<1>3. DOMAIN Mode = RegisterGroups /\ \A g \in RegisterGroups : DOMAIN Mode[g] = 1..Count(g)
  BY TableIsWritten, Zenon DEF TableWritten
<1>4. \A g \in RegisterGroups : v.registers[g] \in [1..Count(g) -> Int]
  <2>1. \A g \in RegisterGroups : v.registers[g] = [i \in 1..Count(g) |-> Unknown]
    BY <1>2, <1>3
  <2> QED
    <3>1. Unknown \in Int
      BY DEF Unknown
    <3> QED
      BY <2>1, <3>1, Zenon
<1>5. CardTyped(v)
  BY <1>2, <1>3, <1>4 DEF CardTyped
<1>6. Count("misc") = 1
  BY <1>3 DEF Count, RegisterGroups
<1>7. Placed(Begin)
  BY <1>6 DEF Placed, Begin, AccessesOf, Rank
<1>8. Between(v, Begin)
  BY DEF Between, Begin, Plain
<1>9. Programmed(v, Begin)
  BY DEF Programmed, Begin, Rank, Earlier, RegisterGroups
<1> QED
  BY <1>1, <1>5, <1>7, <1>8, <1>9

(* The invariant of the card holds in the beginning,                       *)
LEMMA InitVgaInv == Init => VgaInv
PROOF BY NothingProgrammed, Zenon DEF Init, VgaInit, VgaInv

(* every access preserves it,                                              *)
LEMMA AccessProgrammed ==
  ASSUME VgaInv, Access
  PROVE  VgaInv'
<1>1. writing.part # "done"
  BY Zenon DEF Access, ModeSet
<1>2. writing.part \in {"misc", "unlock", "attribute", "show"} \cup Plain
  BY <1>1 DEF VgaInv, Placed, Rank, Plain
<1>3. /\ vga' = Accessed(vga, Accesses(writing.part, writing.register)[writing.access])
      /\ writing' = Onward(writing)
  BY Zenon DEF Access
<1>4. CardTyped(vga') /\ Between(vga', writing') /\ Programmed(vga', writing')
  <2>1. CASE writing.part = "misc"
    BY <1>3, <2>1, MiscProgrammed, Zenon DEF VgaInv
  <2>2. CASE writing.part = "unlock"
    BY <1>3, <2>2, UnlockProgrammed, Zenon DEF VgaInv
  <2>3. CASE writing.part \in Plain
    BY <1>3, <2>3, PlainProgrammed, Zenon DEF VgaInv
  <2>4. CASE writing.part = "attribute"
    BY <1>3, <2>4, AttributeProgrammed, Zenon DEF VgaInv
  <2>5. CASE writing.part = "show"
    BY <1>3, <2>5, ShowProgrammed, Zenon DEF VgaInv
  <2> QED
    BY <1>2, <2>1, <2>2, <2>3, <2>4, <2>5
<1>5. Placed(writing')
  <2>1. writing.access < AccessesOf(writing.part) \/ writing.access = AccessesOf(writing.part)
    <3>1. writing.access \in 1..AccessesOf(writing.part)
      BY <1>1, Zenon DEF VgaInv, Placed
    <3>2. AccessesOf(writing.part) \in 1..3
      BY DEF AccessesOf
    <3> QED
      BY <3>1, <3>2
  <2>2. CASE writing.access < AccessesOf(writing.part)
    BY <1>1, <1>3, <2>2, OnwardWithin, Zenon DEF VgaInv
  <2>3. CASE writing.access = AccessesOf(writing.part)
    BY <1>1, <1>3, <2>3, OnwardBehind, Zenon DEF VgaInv
  <2> QED
    BY <2>1, <2>2, <2>3
<1> QED
  BY <1>4, <1>5, Zenon DEF VgaInv

(* and so does every step: only SetMode programs the card, which is found  *)
(* when it begins.                                                         *)
LEMMA VgaInvKept ==
  ASSUME VgaInv, [Next]_vars
  PROVE  VgaInv'
<1>1. ASSUME NEW locked, NEW odd, vga' = Card(locked, odd), writing' = Begin
      PROVE  VgaInv'
  BY <1>1, NothingProgrammed, Zenon DEF VgaInv
<1>2. CASE VgaFound
  <2>1. PICK locked, odd : vga' = Card(locked, odd)
    BY <1>2 DEF VgaFound
  <2> QED
    BY <1>1, <1>2, <2>1, Zenon DEF VgaFound
<1>3. CASE VgaForgotten
  BY <1>1, <1>3, Zenon DEF VgaForgotten
<1>4. CASE Access
  BY <1>4, AccessProgrammed
<1>5. CASE UNCHANGED vgaVars
  BY <1>5, Zenon DEF vgaVars, VgaInv
<1>6. VgaFound \/ VgaForgotten \/ Access \/ UNCHANGED vgaVars
  <2>1. CASE LoadSegments
    BY <2>1, Zenon DEF LoadSegments
  <2>2. CASE AddDrivers
    BY <2>2, Zenon DEF AddDrivers
  <2>3. CASE SelectDrivers
    BY <2>3, Zenon DEF SelectDrivers
  <2>4. CASE Activate
    BY <2>4, Zenon DEF Activate
  <2>5. CASE ActivateDevice
    BY <2>5, Zenon DEF ActivateDevice
  <2>6. CASE AllActive
    BY <2>6, Zenon DEF AllActive
  <2>7. CASE SetMode
    BY <2>7, Zenon DEF SetMode
  <2>8. CASE UseDisk
    BY <2>8, Zenon DEF UseDisk
  <2>9. CASE ReadPartitions
    BY <2>9, Zenon DEF ReadPartitions
  <2>10. CASE TakeCard
    BY <2>10, Zenon DEF TakeCard
  <2>11. CASE ControllerStep
    BY <2>11, Zenon DEF ControllerStep
  <2>12. CASE DiskStep
    BY <2>12, Zenon DEF DiskStep
  <2>13. CASE UNCHANGED vars
    BY <2>13, Zenon DEF vars
  <2> QED
    BY <2>1, <2>2, <2>3, <2>4, <2>5, <2>6, <2>7, <2>8, <2>9, <2>10, <2>11, <2>12, <2>13, Zenon
    DEF Next, Kernel
<1> QED
  BY <1>2, <1>3, <1>4, <1>5, <1>6

(* At the end all of it is programmed.                                     *)
LEMMA AllProgrammed ==
  ASSUME NEW v, NEW w, CardTyped(v), Programmed(v, w), w.part = "done"
  PROVE  DisplayProgrammed(v)
<1>1. v.misc = Misc /\ v.shown
  BY DEF Programmed, Rank
<1>2. \A g \in RegisterGroups : \A j \in 1..Count(g) : v.registers[g][j] = Registers[g][j]
  BY DEF Programmed, Earlier, Rank, RegisterGroups
<1>3. \A g \in RegisterGroups : Registers[g] \in [1..Count(g) -> Int]
  BY TableIsWritten, Zenon DEF TableWritten
<1>4. \A g \in RegisterGroups : v.registers[g] = Registers[g]
  <2>1. ASSUME NEW g \in RegisterGroups
        PROVE  v.registers[g] = Registers[g]
    <3>1. PICK a, b, n : a = v.registers[g] /\ b = Registers[g] /\ n = 1..Count(g)
      BY Zenon
    <3>2. a \in [n -> Int] /\ b \in [n -> Int]
      BY <1>3, <3>1, Zenon DEF CardTyped
    <3>3. \A j \in n : a[j] = b[j]
      BY <1>2, <3>1, Zenon
    <3>4. a = b
      BY <3>2, <3>3
    <3> QED
      BY <3>1, <3>4
  <2> QED
    BY <2>1
<1>5. Registers = [g \in RegisterGroups |-> Registers[g]]
  BY TableIsWritten, Zenon DEF TableWritten
<1>6. v.registers = Registers
  <2>1. PICK r : r = Registers
    OBVIOUS
  <2>2. r = [g \in RegisterGroups |-> r[g]] /\ \A g \in RegisterGroups : v.registers[g] = r[g]
    BY <1>4, <1>5, <2>1, Zenon
  <2>3. v.registers = [g \in RegisterGroups |-> v.registers[g]]
    BY Zenon DEF CardTyped
  <2> QED
    BY <2>1, <2>2, <2>3
<1>7. GetFrameBufferSegment(v) = "0xA0000"
  <2>1. v.registers.graphics[7] = 5
    BY <1>6, TableIsWritten, Zenon DEF TableWritten
  <2> QED
    BY <2>1 DEF GetFrameBufferSegment
<1> QED
  BY <1>1, <1>6, <1>7, Zenon DEF DisplayProgrammed

(* DisplayIsProgrammed: WriteRegisters leaves every register of the card as*)
(* the table has it, the screen shown and the memory at 0xA0000, whether   *)
(* the loader left crtc locked or the attribute port in either phase.      *)
THEOREM ModeIsProgrammed == Spec => []DisplayIsProgrammed
<1>1. VgaInv => DisplayIsProgrammed
  BY AllProgrammed, Zenon DEF VgaInv, DisplayIsProgrammed, ModeSet
<1> QED
  BY <1>1, InitVgaInv, VgaInvKept, PTL DEF Spec

=============================================================================
