----------------------------- MODULE InputProofs -----------------------------
(***************************************************************************)
(* What holds of the desktop and of the text screen for every size, every  *)
(* number of windows, every text and whatever the mouse reports.           *)
(***************************************************************************)
EXTENDS Input, SequenceTheorems, WellFoundedInduction, TLAPS

-----------------------------------------------------------------------------
(* Numbers *)

(* A set of numbers has its least member: < is well founded.               *)
LEMMA MinIsLeast ==
  ASSUME NEW S \in SUBSET Nat, S # {}
  PROVE  Min(S) \in S /\ \A k \in S : Min(S) <= k
<1>1. PICK m \in S : \A k \in S : <<k, m>> \notin OpToRel(<, Nat)
  BY NatLessThanWellFounded, WFMin, Zenon
<1>2. \A k \in S : ~(k < m) BY <1>1, Zenon DEF OpToRel
<1>3. \A k \in S : m <= k BY <1>2
<1> QED BY <1>3, Zenon DEF Min

(* What holds at 0 and is passed on holds up to n: there is no first       *)
(* number at which it does not.                                            *)
LEMMA UpTo ==
  ASSUME NEW n \in Nat, NEW P, 0 \in P, \A k \in 0..(n - 1) : k \in P => k + 1 \in P
  PROVE  \A k \in 0..n : k \in P
<1> SUFFICES ASSUME NEW j \in 0..n, j \notin P PROVE FALSE
  OBVIOUS
<1>1. PICK T : T = {k \in 0..n : k \notin P} OBVIOUS
<1>2. T \in SUBSET Nat /\ T # {} BY <1>1
<1>3. PICK m \in T : \A k \in T : m <= k BY <1>2, MinIsLeast
<1>4. m \in 0..n /\ m \notin P /\ m # 0 BY <1>1, <1>3
<1>5. m - 1 \in 0..(n - 1) /\ m - 1 \in 0..n /\ m - 1 + 1 = m /\ ~(m <= m - 1) BY <1>4
<1>6. m - 1 \in P BY <1>1, <1>3, <1>5
<1> QED BY <1>4, <1>5, <1>6

(* A set of numbers with a bound has its greatest member: its bounds have  *)
(* a least one.                                                            *)
LEMMA MaxIsGreatest ==
  ASSUME NEW n \in Nat, NEW S \in SUBSET (1..n), S # {}
  PROVE  Max(S) \in S /\ \A k \in S : k <= Max(S)
<1>1. PICK T : T = {m \in 0..n : \A k \in S : k <= m} OBVIOUS
<1>2. T \in SUBSET Nat /\ T # {}
  <2>1. n \in T BY <1>1
  <2> QED BY <1>1, <2>1
<1>3. PICK m \in T : \A k \in T : m <= k BY <1>2, MinIsLeast
<1>4. m \in S
  <2> SUFFICES ASSUME m \notin S PROVE FALSE
    OBVIOUS
  <2>1. m \in 0..n /\ \A k \in S : k <= m /\ k # m /\ k >= 1 BY <1>1, <1>3
  <2>2. PICK k \in S : k <= m /\ k >= 1 BY <2>1
  <2>3. m - 1 \in 0..n /\ \A j \in S : j <= m - 1 BY <2>1, <2>2
  <2>4. m - 1 \in T BY <1>1, <2>3
  <2> QED BY <1>3, <2>1, <2>4
<1>5. \A k \in S : m >= k BY <1>1, <1>3
<1>6. \E m1 \in S : \A k \in S : m1 >= k BY <1>4, <1>5
<1>7. Max(S) \in S /\ \A k \in S : Max(S) >= k BY <1>6, Zenon DEF Max
<1> QED BY <1>7

-----------------------------------------------------------------------------
(* Folds *)

(* What a fold over the first n elements of seq is read from: the fold     *)
(* over any set of their places.                                           *)
TableOf(g, f, base, seq, n) ==
  \A s \in SUBSET (1..n) :
    g[s] = IF s = {} THEN base ELSE f[<<g[s \ {Max(s)}], seq[Max(s)]>>]

(* The recursion that defines a fold has a solution.                       *)
LEMMA FoldTable ==
  ASSUME NEW C, NEW E, NEW f \in [C \X E -> C], NEW base \in C,
         NEW n \in Nat, NEW seq \in [1..n -> E]
  PROVE  \E g \in [SUBSET (1..n) -> C] : TableOf(g, f, base, seq, n)
<1> DEFINE Table(k, g) == TableOf(g, f, base, seq, k)
           P == {k \in 0..n : \E g \in [SUBSET (1..k) -> C] : Table(k, g)}
<1>1. 0 \in P
  <2>1. PICK g : g = [s \in SUBSET (1..0) |-> base] OBVIOUS
  <2>2. 0 \in 0..n /\ \A s \in SUBSET (1..0) : s = {} OBVIOUS
  <2>3. g \in [SUBSET (1..0) -> C] BY <2>1
  <2>4. Table(0, g) BY <2>1, <2>2 DEF TableOf
  <2>5. \E h \in [SUBSET (1..0) -> C] : Table(0, h) BY <2>3, <2>4
  <2> HIDE DEF Table
  <2> QED BY <2>2, <2>5, Zenon
<1>2. ASSUME NEW k \in 0..(n - 1), k \in P PROVE k + 1 \in P
  <2>1. PICK g \in [SUBSET (1..k) -> C] : Table(k, g) BY <1>2
  <2>2. PICK m : m = k + 1 OBVIOUS
  <2>3. m \in 1..n /\ m \in Nat /\ k \in Nat BY <2>2
  <2>4. PICK h : h = [s \in SUBSET (1..m) |->
                        IF m \in s THEN f[<<g[s \ {m}], seq[m]>>] ELSE g[s]]
    OBVIOUS
  <2>5. \A s \in SUBSET (1..m) : s \ {m} \in SUBSET (1..k) /\ (m \notin s => s \in SUBSET (1..k))
    BY <2>2, <2>3
  <2>6. h \in [SUBSET (1..m) -> C] BY <2>3, <2>4, <2>5
  <2>7. ASSUME NEW s \in SUBSET (1..m)
        PROVE  h[s] = IF s = {} THEN base ELSE f[<<h[s \ {Max(s)}], seq[Max(s)]>>]
    <3>1. CASE m \in s
      <4>1. Max(s) \in s /\ \A j \in s : j <= Max(s) BY <2>3, <3>1, MaxIsGreatest
      <4>2. Max(s) = m
        <5>1. Max(s) \in 1..m /\ m <= Max(s) BY <3>1, <4>1
        <5> QED BY <2>3, <5>1
      <4>3. PICK t : t = s \ {m} OBVIOUS
      <4>4. t \in SUBSET (1..m) /\ m \notin t BY <4>3
      <4>5. h[t] = g[t] BY <2>4, <4>4, Zenon
      <4>6. h[s] = f[<<g[t], seq[m]>>] BY <2>4, <3>1, <4>3, Zenon
      <4> QED BY <3>1, <4>2, <4>3, <4>5, <4>6, Zenon
    <3>2. CASE m \notin s
      <4>1. s \in SUBSET (1..k) BY <2>5, <3>2
      <4>2. h[s] = g[s] BY <2>4, <3>2, Zenon
      <4>3. CASE s = {}
        BY <2>1, <4>1, <4>2, <4>3, Zenon DEF TableOf
      <4>4. CASE s # {}
        <5>1. PICK t : t = s \ {Max(s)} OBVIOUS
        <5>2. t \in SUBSET (1..m) /\ m \notin t BY <3>2, <5>1
        <5>3. h[t] = g[t] BY <2>4, <5>2, Zenon
        <5>4. g[s] = f[<<g[t], seq[Max(s)]>>] BY <2>1, <4>1, <4>4, <5>1, Zenon DEF TableOf
        <5> QED BY <4>2, <4>4, <5>1, <5>3, <5>4, Zenon
      <4> QED BY <4>3, <4>4
    <3> QED BY <3>1, <3>2
  <2>8. Table(m, h) BY <2>7, Zenon DEF TableOf
  <2>9. \E d \in [SUBSET (1..m) -> C] : Table(m, d) BY <2>6, <2>8, Zenon
  <2>10. m \in 0..n BY <2>3
  <2> HIDE DEF Table
  <2> QED BY <2>2, <2>9, <2>10
<1> HIDE DEF P
<1>3. \A k \in 0..n : k \in P BY <1>1, <1>2, UpTo
<1>4. n \in P BY <1>3
<1> QED BY <1>4, Zenon DEF P

(* The places before one.                                                  *)
LEMMA Prefix ==
  ASSUME NEW n \in Nat
  PROVE  /\ 1..0 = {} /\ {} \in SUBSET (1..n)
         /\ \A s \in SUBSET (1..n) : s # {} => Max(s) \in 1..n /\ s \ {Max(s)} \in SUBSET (1..n)
         /\ \A k \in 1..n : /\ 1..k \in SUBSET (1..n) /\ 1..k # {}
                            /\ Max(1..k) = k /\ (1..k) \ {k} = 1..(k - 1)
<1>1. 1..0 = {} /\ {} \in SUBSET (1..n) OBVIOUS
<1>2. \A s \in SUBSET (1..n) : s # {} => Max(s) \in 1..n /\ s \ {Max(s)} \in SUBSET (1..n)
  BY MaxIsGreatest
<1>3. ASSUME NEW k \in 1..n
      PROVE  /\ 1..k \in SUBSET (1..n) /\ 1..k # {}
             /\ Max(1..k) = k /\ (1..k) \ {k} = 1..(k - 1)
  <2>1. 1..k \in SUBSET (1..n) /\ k \in 1..k OBVIOUS
  <2>2. Max(1..k) \in 1..k /\ \A j \in 1..k : j <= Max(1..k) BY <2>1, MaxIsGreatest
  <2>3. Max(1..k) = k BY <2>1, <2>2
  <2>4. (1..k) \ {k} = 1..(k - 1) OBVIOUS
  <2> QED BY <2>1, <2>3, <2>4
<1> QED BY <1>1, <1>2, <1>3
(* One round after the other: each of the folds of the modules.            *)
HandledFolded(h, base, seq, n) ==
  /\ h[0] = base /\ h[n] = FoldLeft(Handled, base, seq)
  /\ \A k \in 1..n : h[k] = Handled(h[k - 1], seq[k])

(* The desktop's fold over the calls of a packet, round by round.          *)
LEMMA HandledFold ==
  ASSUME NEW C, NEW E, \A c \in C, e \in E : Handled(c, e) \in C,
         NEW base \in C, NEW n \in Nat, NEW seq \in [1..n -> E]
  PROVE  \E h : HandledFolded(h, base, seq, n)
<1> DEFINE D == SUBSET (1..n)
           IsTable(g) == g = [s \in D |->
              IF s = {} THEN base ELSE Handled(g[s \ {Max(s)}], seq[Max(s)])]
<1>1. PICK f : f = [p \in C \X E |-> Handled(p[1], p[2])] OBVIOUS
<1>2. f \in [C \X E -> C] BY <1>1
<1>3. PICK g \in [D -> C] : TableOf(g, f, base, seq, n) BY <1>2, FoldTable
<1>4. IsTable(g)
  <2>1. \A s \in D : g[s] = IF s = {} THEN base ELSE Handled(g[s \ {Max(s)}], seq[Max(s)])
    BY <1>1, <1>3, Prefix DEF TableOf
  <2> QED BY <1>3, <2>1
<1>5. PICK iter : iter = CHOOSE g1 : IsTable(g1) OBVIOUS
<1>6. IsTable(iter) BY <1>4, <1>5, Zenon
<1>7. FoldLeft(Handled, base, seq) = iter[1..n] BY <1>5, Zenon DEF FoldLeft, MapThenFoldSet
<1>8. PICK h : h = [k \in 0..n |-> iter[1..k]] OBVIOUS
<1>9. h[0] = base /\ h[n] = iter[1..n]
  <2>1. 0 \in 0..n /\ n \in 0..n OBVIOUS
  <2>2. 1..0 = {} /\ {} \in D BY Prefix
  <2>3. iter[{}] = base BY <1>6, <2>2, Zenon
  <2> QED BY <1>8, <2>1, <2>2, <2>3, Zenon
<1>10. ASSUME NEW k \in 1..n PROVE h[k] = Handled(h[k - 1], seq[k])
  <2>1. k \in 0..n /\ k - 1 \in 0..n OBVIOUS
  <2>2. h[k] = iter[1..k] /\ h[k - 1] = iter[1..(k - 1)] BY <1>8, <2>1, Zenon
  <2>3. /\ 1..k \in D /\ 1..k # {} /\ Max(1..k) = k /\ (1..k) \ {k} = 1..(k - 1) BY Prefix
  <2> QED BY <1>6, <2>2, <2>3, Zenon
<1>11. HandledFolded(h, base, seq, n) BY <1>7, <1>9, <1>10, Zenon DEF HandledFolded
<1> QED BY <1>11

PutFolded(h, base, seq, n) ==
  /\ h[0] = base /\ h[n] = FoldLeft(Put, base, seq)
  /\ \A k \in 1..n : h[k] = Put(h[k - 1], seq[k])

(* The fold of printf over the letters of a text.                          *)
LEMMA PutFold ==
  ASSUME NEW C, NEW E, \A c \in C, e \in E : Put(c, e) \in C,
         NEW base \in C, NEW n \in Nat, NEW seq \in [1..n -> E]
  PROVE  \E h : PutFolded(h, base, seq, n)
<1> DEFINE D == SUBSET (1..n)
           IsTable(g) == g = [s \in D |->
              IF s = {} THEN base ELSE Put(g[s \ {Max(s)}], seq[Max(s)])]
<1>1. PICK f : f = [p \in C \X E |-> Put(p[1], p[2])] OBVIOUS
<1>2. f \in [C \X E -> C] BY <1>1
<1>3. PICK g \in [D -> C] : TableOf(g, f, base, seq, n) BY <1>2, FoldTable
<1>4. IsTable(g)
  <2>1. \A s \in D : g[s] = IF s = {} THEN base ELSE Put(g[s \ {Max(s)}], seq[Max(s)])
    BY <1>1, <1>3, Prefix DEF TableOf
  <2> QED BY <1>3, <2>1
<1>5. PICK iter : iter = CHOOSE g1 : IsTable(g1) OBVIOUS
<1>6. IsTable(iter) BY <1>4, <1>5, Zenon
<1>7. FoldLeft(Put, base, seq) = iter[1..n] BY <1>5, Zenon DEF FoldLeft, MapThenFoldSet
<1>8. PICK h : h = [k \in 0..n |-> iter[1..k]] OBVIOUS
<1>9. h[0] = base /\ h[n] = iter[1..n]
  <2>1. 0 \in 0..n /\ n \in 0..n OBVIOUS
  <2>2. 1..0 = {} /\ {} \in D BY Prefix
  <2>3. iter[{}] = base BY <1>6, <2>2, Zenon
  <2> QED BY <1>8, <2>1, <2>2, <2>3, Zenon
<1>10. ASSUME NEW k \in 1..n PROVE h[k] = Put(h[k - 1], seq[k])
  <2>1. k \in 0..n /\ k - 1 \in 0..n OBVIOUS
  <2>2. h[k] = iter[1..k] /\ h[k - 1] = iter[1..(k - 1)] BY <1>8, <2>1, Zenon
  <2>3. /\ 1..k \in D /\ 1..k # {} /\ Max(1..k) = k /\ (1..k) \ {k} = 1..(k - 1) BY Prefix
  <2> QED BY <1>6, <2>2, <2>3, Zenon
<1>11. PutFolded(h, base, seq, n) BY <1>7, <1>9, <1>10, Zenon DEF PutFolded
<1> QED BY <1>11

ToConsoleFolded(h, base, seq, n) ==
  /\ h[0] = base /\ h[n] = FoldLeft(ToConsole, base, seq)
  /\ \A k \in 1..n : h[k] = ToConsole(h[k - 1], seq[k])

(* The fold of MouseToConsole over the calls of a packet.                  *)
LEMMA ToConsoleFold ==
  ASSUME NEW C, NEW E, \A c \in C, e \in E : ToConsole(c, e) \in C,
         NEW base \in C, NEW n \in Nat, NEW seq \in [1..n -> E]
  PROVE  \E h : ToConsoleFolded(h, base, seq, n)
<1> DEFINE D == SUBSET (1..n)
           IsTable(g) == g = [s \in D |->
              IF s = {} THEN base ELSE ToConsole(g[s \ {Max(s)}], seq[Max(s)])]
<1>1. PICK f : f = [p \in C \X E |-> ToConsole(p[1], p[2])] OBVIOUS
<1>2. f \in [C \X E -> C] BY <1>1
<1>3. PICK g \in [D -> C] : TableOf(g, f, base, seq, n) BY <1>2, FoldTable
<1>4. IsTable(g)
  <2>1. \A s \in D : g[s] = IF s = {} THEN base ELSE ToConsole(g[s \ {Max(s)}], seq[Max(s)])
    BY <1>1, <1>3, Prefix DEF TableOf
  <2> QED BY <1>3, <2>1
<1>5. PICK iter : iter = CHOOSE g1 : IsTable(g1) OBVIOUS
<1>6. IsTable(iter) BY <1>4, <1>5, Zenon
<1>7. FoldLeft(ToConsole, base, seq) = iter[1..n] BY <1>5, Zenon DEF FoldLeft, MapThenFoldSet
<1>8. PICK h : h = [k \in 0..n |-> iter[1..k]] OBVIOUS
<1>9. h[0] = base /\ h[n] = iter[1..n]
  <2>1. 0 \in 0..n /\ n \in 0..n OBVIOUS
  <2>2. 1..0 = {} /\ {} \in D BY Prefix
  <2>3. iter[{}] = base BY <1>6, <2>2, Zenon
  <2> QED BY <1>8, <2>1, <2>2, <2>3, Zenon
<1>10. ASSUME NEW k \in 1..n PROVE h[k] = ToConsole(h[k - 1], seq[k])
  <2>1. k \in 0..n /\ k - 1 \in 0..n OBVIOUS
  <2>2. h[k] = iter[1..k] /\ h[k - 1] = iter[1..(k - 1)] BY <1>8, <2>1, Zenon
  <2>3. /\ 1..k \in D /\ 1..k # {} /\ Max(1..k) = k /\ (1..k) \ {k} = 1..(k - 1) BY Prefix
  <2> QED BY <1>6, <2>2, <2>3, Zenon
<1>11. ToConsoleFolded(h, base, seq, n) BY <1>7, <1>9, <1>10, Zenon DEF ToConsoleFolded
<1> QED BY <1>11

PaintFolded(h, base, seq, n, s0, X, Y) ==
  /\ h[0] = base /\ h[n] = FoldLeft(LAMBDA below, i : IF Covers(s0, i, X, Y) THEN i ELSE below, base, seq)
  /\ \A k \in 1..n : h[k] = (IF Covers(s0, seq[k], X, Y) THEN seq[k] ELSE h[k - 1])

(* The fold of Draw over the children, from the last to the first.         *)
LEMMA PaintFold ==
  ASSUME NEW C, NEW E, NEW s0, NEW X, NEW Y, \A c \in C, e \in E : (IF Covers(s0, e, X, Y) THEN e ELSE c) \in C,
         NEW base \in C, NEW n \in Nat, NEW seq \in [1..n -> E]
  PROVE  \E h : PaintFolded(h, base, seq, n, s0, X, Y)
<1> DEFINE D == SUBSET (1..n)
           IsTable(g) == g = [s \in D |->
              IF s = {} THEN base ELSE (IF Covers(s0, seq[Max(s)], X, Y) THEN seq[Max(s)] ELSE g[s \ {Max(s)}])]
<1>1. PICK f : f = [p \in C \X E |-> (IF Covers(s0, p[2], X, Y) THEN p[2] ELSE p[1])] OBVIOUS
<1>2. f \in [C \X E -> C] BY <1>1
<1>3. PICK g \in [D -> C] : TableOf(g, f, base, seq, n) BY <1>2, FoldTable
<1>4. IsTable(g)
  <2>1. \A s \in D : g[s] = IF s = {} THEN base ELSE (IF Covers(s0, seq[Max(s)], X, Y) THEN seq[Max(s)] ELSE g[s \ {Max(s)}])
    BY <1>1, <1>3, Prefix DEF TableOf
  <2> QED BY <1>3, <2>1
<1>5. PICK iter : iter = CHOOSE g1 : IsTable(g1) OBVIOUS
<1>6. IsTable(iter) BY <1>4, <1>5, Zenon
<1>7. FoldLeft(LAMBDA below, i : IF Covers(s0, i, X, Y) THEN i ELSE below, base, seq) = iter[1..n] BY <1>5, Zenon DEF FoldLeft, MapThenFoldSet
<1>8. PICK h : h = [k \in 0..n |-> iter[1..k]] OBVIOUS
<1>9. h[0] = base /\ h[n] = iter[1..n]
  <2>1. 0 \in 0..n /\ n \in 0..n OBVIOUS
  <2>2. 1..0 = {} /\ {} \in D BY Prefix
  <2>3. iter[{}] = base BY <1>6, <2>2, Zenon
  <2> QED BY <1>8, <2>1, <2>2, <2>3, Zenon
<1>10. ASSUME NEW k \in 1..n PROVE h[k] = (IF Covers(s0, seq[k], X, Y) THEN seq[k] ELSE h[k - 1])
  <2>1. k \in 0..n /\ k - 1 \in 0..n OBVIOUS
  <2>2. h[k] = iter[1..k] /\ h[k - 1] = iter[1..(k - 1)] BY <1>8, <2>1, Zenon
  <2>3. /\ 1..k \in D /\ 1..k # {} /\ Max(1..k) = k /\ (1..k) \ {k} = 1..(k - 1) BY Prefix
  <2> QED BY <1>6, <2>2, <2>3, Zenon
<1>11. PaintFolded(h, base, seq, n, s0, X, Y) BY <1>7, <1>9, <1>10, Zenon DEF PaintFolded
<1> QED BY <1>11


-----------------------------------------------------------------------------
(* The mouse driver *)

ButtonCall == [call : {"OnMouseDown", "OnMouseUp"}, button : 1..3]

MoveCall == [call : {"OnMouseMove"}, x : Int, y : Int]

Call == MoveCall \cup ButtonCall

(* The calls for a packet: at most one movement, which comes first, and    *)
(* button calls that tell what the packet says.                            *)
CallsFor(calls, old, new) ==
  /\ calls \in Seq(Call)
  /\ \A k \in 1..Len(calls) :
       /\ k # 1 => calls[k].call # "OnMouseMove"
       /\ calls[k].call = "OnMouseDown" => Holds(new, calls[k].button)
  /\ Holds(old, 1) /\ ~Holds(new, 1) =>
       calls # <<>> /\ calls[Len(calls)].call # "OnMouseMove"

LEMMA Concatenated ==
  ASSUME NEW S, NEW p \in Seq(S), NEW q \in Seq(S)
  PROVE  /\ p \o q \in Seq(S) /\ Len(p \o q) = Len(p) + Len(q)
         /\ \A k \in 1..Len(p) : (p \o q)[k] = p[k]
         /\ \A k \in 1..Len(q) : (p \o q)[Len(p) + k] = q[k]
OBVIOUS

(* One button: nothing, or one call that tells what the packet says.       *)
LEMMA ClickCalls ==
  ASSUME NEW old, NEW new, NEW b \in 1..3,
         NEW S, S = {c \in ButtonCall : c.call = "OnMouseDown" => Holds(new, c.button)}
  PROVE  /\ Click(old, new, b) \in Seq(S)
         /\ Len(Click(old, new, b)) \in 0..1
         /\ Holds(old, b) /\ ~Holds(new, b) => Len(Click(old, new, b)) = 1
<1>1. CASE Holds(old, b) = Holds(new, b)
  <2>1. Click(old, new, b) = <<>> BY <1>1 DEF Click
  <2>2. <<>> \in Seq(S) /\ Len(<<>>) = 0 OBVIOUS
  <2> QED BY <1>1, <2>1, <2>2
<1>2. CASE ~(Holds(old, b) = Holds(new, b))
  <2>1. PICK c : c = [call |-> IF Holds(old, b) THEN "OnMouseUp" ELSE "OnMouseDown",
                      button |-> b]
    OBVIOUS
  <2>2. Click(old, new, b) = <<c>> BY <1>2, <2>1, Zenon DEF Click
  <2>3. /\ c.button = b /\ c.call \in {"OnMouseUp", "OnMouseDown"}
        /\ c.call = "OnMouseDown" => ~Holds(old, b)
    BY <2>1
  <2>4. c \in ButtonCall BY <2>1 DEF ButtonCall
  <2>5. c.call = "OnMouseDown" => Holds(new, c.button)
    <3>1. Holds(old, b) \in BOOLEAN /\ Holds(new, b) \in BOOLEAN BY DEF Holds
    <3>2. Holds(old, b) \/ Holds(new, b) BY <1>2, <3>1
    <3> QED BY <2>3, <3>2
  <2>6. c \in S BY <2>4, <2>5, Zenon
  <2>7. <<c>> \in Seq(S) /\ Len(<<c>>) = 1 BY <2>6
  <2> QED BY <2>2, <2>7
<1> QED BY <1>1, <1>2

(* The clicks of all three buttons.                                        *)
LEMMA ClicksCalls ==
  ASSUME NEW old, NEW new,
         NEW S, S = {c \in ButtonCall : c.call = "OnMouseDown" => Holds(new, c.button)}
  PROVE  /\ Clicks(old, new) \in Seq(S)
         /\ Holds(old, 1) /\ ~Holds(new, 1) => Len(Clicks(old, new)) # 0
<1>1. PICK p, q, r : p = Click(old, new, 1) /\ q = Click(old, new, 2) /\ r = Click(old, new, 3)
  OBVIOUS
<1>2. /\ p \in Seq(S) /\ q \in Seq(S) /\ r \in Seq(S)
      /\ Holds(old, 1) /\ ~Holds(new, 1) => Len(p) = 1
  <2>1. 1 \in 1..3 /\ 2 \in 1..3 /\ 3 \in 1..3 OBVIOUS
  <2> QED BY <1>1, <2>1, ClickCalls, Zenon
<1>3. p \o q \in Seq(S) /\ Len(p \o q) = Len(p) + Len(q) BY <1>2, Concatenated
<1>4. (p \o q) \o r \in Seq(S) /\ Len((p \o q) \o r) = Len(p) + Len(q) + Len(r)
  BY <1>2, <1>3, Concatenated
<1>5. Clicks(old, new) = (p \o q) \o r BY <1>1, Zenon DEF Clicks
<1>6. Len(p) \in Nat /\ Len(q) \in Nat /\ Len(r) \in Nat BY <1>2
<1> QED BY <1>2, <1>4, <1>5, <1>6

(* A packet: the move, if there is one, and the clicks.                    *)
LEMMA EventsCalls ==
  ASSUME NEW old, NEW packet \in Seq(0..255), Len(packet) = 3
  PROVE  CallsFor(Events(old, packet), old, packet[1])
<1> DEFINE S == {c \in ButtonCall : c.call = "OnMouseDown" => Holds(packet[1], c.button)}
<1>1. PICK p, q : p = Moves(packet) /\ q = Clicks(old, packet[1]) OBVIOUS
<1>2. p \in Seq(MoveCall) /\ Len(p) \in 0..1
  <2>1. packet[2] \in 0..255 /\ packet[3] \in 0..255
    <3>1. 2 \in 1..Len(packet) /\ 3 \in 1..Len(packet) OBVIOUS
    <3>2. \A k \in 1..Len(packet) : packet[k] \in 0..255 BY ElementOfSeq
    <3> QED BY <3>1, <3>2, Zenon
  <2>2. Int8(packet[2]) \in Int /\ -Int8(packet[3]) \in Int
    <3>1. \A n \in 0..255 : Int8(n) \in Int BY DEF Int8
    <3>2. \A n \in Int : -n \in Int OBVIOUS
    <3> QED BY <2>1, <3>1, <3>2, Zenon
  <2>3. PICK c : c = [call |-> "OnMouseMove", x |-> Int8(packet[2]), y |-> -Int8(packet[3])]
    OBVIOUS
  <2>4. c \in MoveCall BY <2>2, <2>3 DEF MoveCall
  <2>5. <<>> \in Seq(MoveCall) /\ <<c>> \in Seq(MoveCall) /\ Len(<<>>) = 0 /\ Len(<<c>>) = 1
    BY <2>4
  <2>6. p = <<>> \/ p = <<c>> BY <1>1, <2>3, Zenon DEF Moves
  <2>7. 0 \in 0..1 /\ 1 \in 0..1 OBVIOUS
  <2> QED BY <2>5, <2>6, <2>7, Zenon
<1>3. q \in Seq(S) /\ (Holds(old, 1) /\ ~Holds(packet[1], 1) => Len(q) # 0)
  BY <1>1, ClicksCalls, Zenon
<1>4. S \subseteq ButtonCall OBVIOUS
<1>5. \A c \in S : c.call = "OnMouseDown" => Holds(packet[1], c.button) OBVIOUS
<1> HIDE DEF S
<1>6. q \in Seq(ButtonCall) /\ \A k \in 1..Len(q) : q[k] \in S BY <1>3, <1>4
<1>7. p \in Seq(Call) /\ q \in Seq(Call) BY <1>2, <1>6 DEF Call
<1>8. PICK e : e = p \o q OBVIOUS
<1>9. /\ e \in Seq(Call) /\ Len(e) = Len(p) + Len(q)
      /\ \A k \in 1..Len(p) : e[k] = p[k]
      /\ \A k \in 1..Len(q) : e[Len(p) + k] = q[k]
  BY <1>7, <1>8, Concatenated
<1>10. Len(q) \in Nat /\ Len(e) \in Nat BY <1>6, <1>9
<1>11. \A k \in 1..Len(p) : k = 1 /\ e[k].call = "OnMouseMove"
  <2> SUFFICES ASSUME NEW k \in 1..Len(p) PROVE k = 1 /\ e[k].call = "OnMouseMove"
    OBVIOUS
  <2>1. k = 1
    <3>1. PICK m \in 0..1 : m = Len(p) BY <1>2
    <3>2. k \in 1..m BY <3>1
    <3> QED BY <3>1, <3>2
  <2>2. p[k] \in MoveCall BY <1>2, ElementOfSeq
  <2>3. p[k].call = "OnMouseMove" BY <2>2 DEF MoveCall
  <2> QED BY <1>9, <2>1, <2>3
<1>12. ASSUME NEW k \in 1..Len(e), k > Len(p)
       PROVE  /\ e[k].call # "OnMouseMove"
              /\ e[k].call = "OnMouseDown" => Holds(packet[1], e[k].button)
  <2>1. PICK j : j = k - Len(p) OBVIOUS
  <2>2. j \in 1..Len(q) /\ k = Len(p) + j BY <1>2, <1>9, <1>10, <1>12, <2>1
  <2>3. e[k] = q[j] BY <1>9, <2>2
  <2>4. e[k] \in S /\ e[k] \in ButtonCall BY <1>6, <2>2, <2>3, <1>4
  <2>5. e[k].call # "OnMouseMove" BY <2>4 DEF ButtonCall
  <2> QED BY <1>5, <2>4, <2>5
<1>13. \A k \in 1..Len(e) :
         /\ k # 1 => e[k].call # "OnMouseMove"
         /\ e[k].call = "OnMouseDown" => Holds(packet[1], e[k].button)
  <2> SUFFICES ASSUME NEW k \in 1..Len(e)
               PROVE  /\ k # 1 => e[k].call # "OnMouseMove"
                      /\ e[k].call = "OnMouseDown" => Holds(packet[1], e[k].button)
    OBVIOUS
  <2>1. CASE k > Len(p) BY <1>12, <2>1
  <2>2. CASE ~(k > Len(p))
    <3>1. k \in 1..Len(p) BY <1>2, <2>2
    <3> QED BY <1>11, <3>1
  <2> QED BY <2>1, <2>2
<1>14. ASSUME Holds(old, 1), ~Holds(packet[1], 1)
       PROVE  e # <<>> /\ e[Len(e)].call # "OnMouseMove"
  <2>1. Len(q) # 0 BY <1>3, <1>14
  <2>2. Len(e) \in 1..Len(e) /\ Len(e) > Len(p) BY <1>2, <1>9, <1>10, <2>1
  <2> QED BY <1>12, <2>2
<1>15. Events(old, packet) = e BY <1>1, <1>8, Zenon DEF Events
<1> QED BY <1>9, <1>13, <1>14, <1>15, Zenon DEF CallsFor

-----------------------------------------------------------------------------
(* The desktop *)

(* Where the pointer and the windows may be: no far side of a window goes  *)
(* beyond the numbers.                                                     *)
InReach(s) ==
  \A i \in Window : /\ s.at[i][1] + Windows[i].w < UintRange
                    /\ s.at[i][2] + Windows[i].h < UintRange

Screens ==
  {s \in [x : 0..(W - 1), y : 0..(H - 1),
          at : [Window -> Int \X Int], Dragging : [Window -> BOOLEAN]] : InReach(s)}

(* What DesktopAssumption says of one window.                              *)
LEMMA Sizes ==
  /\ W \in Nat /\ W >= 1 /\ H \in Nat /\ H >= 1 /\ UintRange \in Nat /\ UintRange >= 1
  /\ Len(Windows) \in Nat /\ Window = 1..Len(Windows)
  /\ \A i \in Window :
       /\ Windows[i].x \in Int /\ Windows[i].y \in Int
       /\ Windows[i].w \in Nat /\ Windows[i].h \in Nat
       /\ Windows[i].x + Windows[i].w < UintRange /\ 2 * W + Windows[i].w < UintRange
       /\ Windows[i].y + Windows[i].h < UintRange /\ 2 * H + Windows[i].h < UintRange
<1>1. W \in Nat /\ W >= 1 /\ H \in Nat /\ H >= 1 /\ UintRange \in Nat /\ UintRange >= 1
  BY DesktopAssumption
<1>2. Len(Windows) \in Nat /\ Window = 1..Len(Windows) BY DesktopAssumption DEF Window
<1>3. \A i \in Window : Windows[i] \in [x : Int, y : Int, w : Nat, h : Nat]
  BY <1>2, DesktopAssumption, ElementOfSeq
<1>4. \A i \in Window :
       /\ Windows[i].x + Windows[i].w < UintRange /\ 2 * W + Windows[i].w < UintRange
       /\ Windows[i].y + Windows[i].h < UintRange /\ 2 * H + Windows[i].h < UintRange
  BY DesktopAssumption DEF Window
<1> QED BY <1>1, <1>2, <1>3, <1>4

LEMMA ScreenSize == W \in Nat /\ W >= 1 /\ H \in Nat /\ H >= 1
BY Sizes

(* The child an event goes to is the first one there.                      *)
LEMMA ChildIs ==
  ASSUME NEW s, NEW X, NEW Y
  PROVE  /\ Child(s, X, Y) \in {0} \cup Window
         /\ Child(s, X, Y) # 0 => ContainsCoordinate(s, Child(s, X, Y), X, Y)
         /\ \A j \in Window : ContainsCoordinate(s, j, X, Y) =>
              Child(s, X, Y) # 0 /\ Child(s, X, Y) <= j
<1> DEFINE I == {i \in Window : ContainsCoordinate(s, i, X, Y)}
<1>1. Child(s, X, Y) = IF I # {} THEN Min(I) ELSE 0
  <2>1. PICK seq : seq = [i \in Window |-> i] OBVIOUS
  <2>2. Len(seq) = Len(Windows) /\ \A i \in Window : seq[i] = i BY <2>1, Sizes
  <2>3. {i \in 1..Len(seq) : ContainsCoordinate(s, seq[i], X, Y)} = I BY <2>2, Sizes
  <2> HIDE DEF I
  <2> QED BY <2>1, <2>3, Zenon DEF Child, SelectInSeq
<1>2. I \in SUBSET Nat /\ 0 \notin Window BY Sizes
<1>3. CASE I = {} BY <1>1, <1>3
<1>4. CASE I # {}
  <2>1. Min(I) \in I /\ \A k \in I : Min(I) <= k
    <3> HIDE DEF I
    <3> QED BY <1>2, <1>4, MinIsLeast
  <2>2. Child(s, X, Y) = Min(I) BY <1>1, <1>4
  <2>3. Child(s, X, Y) \in Window BY <2>1, <2>2
  <2>4. Child(s, X, Y) # 0 BY <1>2, <2>3
  <2> QED BY <2>1, <2>2, <2>3, <2>4
<1> QED BY <1>3, <1>4

(* It depends on where the windows are and on nothing else.                *)
LEMMA ChildStays ==
  ASSUME NEW s, NEW t, NEW X, NEW Y, s.at = t.at
  PROVE  Child(t, X, Y) = Child(s, X, Y)
<1>1. PICK a, b : a = Child(s, X, Y) /\ b = Child(t, X, Y) OBVIOUS
<1>2. \A i \in Window : ContainsCoordinate(s, i, X, Y) = ContainsCoordinate(t, i, X, Y)
  BY Zenon DEF ContainsCoordinate
<1>3. /\ a \in {0} \cup Window /\ b \in {0} \cup Window
      /\ a # 0 => ContainsCoordinate(s, a, X, Y) /\ b # 0 /\ b <= a
      /\ b # 0 => ContainsCoordinate(t, b, X, Y) /\ a # 0 /\ a <= b
  <2>1. 0 \notin Window BY Sizes
  <2> QED BY <1>1, <1>2, <2>1, ChildIs, Zenon
<1>4. a \in Nat /\ b \in Nat BY <1>3, Sizes
<1>5. a = b BY <1>3, <1>4
<1> QED BY <1>1, <1>5

(* Window::OnMouseMove moves the window it is given, and no other.         *)
LEMMA DragMoves ==
  ASSUME NEW s \in Screens, NEW i \in {0} \cup Window, NEW dx \in Int, NEW dy \in Int,
         i # 0 => s.at[i][1] + dx <= 2 * W /\ s.at[i][2] + dy <= 2 * H,
         NEW t, t = Drag(s, i, dx, dy)
  PROVE  /\ t \in Screens /\ t.x = s.x /\ t.y = s.y /\ t.Dragging = s.Dragging
         /\ \A j \in Window \ {i} : t.at[j] = s.at[j]
         /\ i # 0 => t.at[i][1] = s.at[i][1] + (IF s.Dragging[i] THEN dx ELSE 0)
         /\ i # 0 => t.at[i][2] = s.at[i][2] + (IF s.Dragging[i] THEN dy ELSE 0)
<1>1. /\ s \in [x : 0..(W - 1), y : 0..(H - 1),
                at : [Window -> Int \X Int], Dragging : [Window -> BOOLEAN]]
      /\ InReach(s)
  BY Zenon DEF Screens
<1>2. \A j \in Window : s.at[j][1] \in Int /\ s.at[j][2] \in Int BY <1>1
<1>3. CASE ~(i # 0 /\ s.Dragging[i])
  <2>1. t = s BY <1>3, Zenon DEF Drag
  <2>2. i # 0 => i \in Window OBVIOUS
  <2> QED BY <1>2, <1>3, <2>1, <2>2
<1>4. CASE i # 0 /\ s.Dragging[i]
  <2>1. i \in Window BY <1>4
  <2>2. PICK d : d = <<s.at[i][1] + dx, s.at[i][2] + dy>> OBVIOUS
  <2>3. d \in Int \X Int /\ d[1] = s.at[i][1] + dx /\ d[2] = s.at[i][2] + dy BY <1>2, <2>1, <2>2
  <2>4. t = [s EXCEPT !.at[i] = d] BY <1>4, <2>2, Zenon DEF Drag
  <2>5. t = [s EXCEPT !.at = [s.at EXCEPT ![i] = d]] BY <2>4
  <2>6. PICK a : a = [s.at EXCEPT ![i] = d] OBVIOUS
  <2>7. /\ a \in [Window -> Int \X Int] /\ a[i] = d
        /\ \A j \in Window \ {i} : a[j] = s.at[j]
    BY <1>1, <2>1, <2>3, <2>6
  <2>8. t = [s EXCEPT !.at = a] BY <2>5, <2>6
  <2>9. /\ t \in [x : 0..(W - 1), y : 0..(H - 1),
                  at : [Window -> Int \X Int], Dragging : [Window -> BOOLEAN]]
        /\ t.x = s.x /\ t.y = s.y /\ t.Dragging = s.Dragging /\ t.at = a
    BY <1>1, <2>7, <2>8
  <2>10. InReach(t)
    <3> SUFFICES ASSUME NEW j \in Window
                 PROVE  t.at[j][1] + Windows[j].w < UintRange /\ t.at[j][2] + Windows[j].h < UintRange
      BY DEF InReach
    <3>1. CASE j = i
      <4>1. t.at[j][1] <= 2 * W /\ t.at[j][2] <= 2 * H /\ t.at[j][1] \in Int /\ t.at[j][2] \in Int
        BY <1>4, <2>3, <2>7, <2>9, <3>1, <1>2
      <4>2. /\ Windows[j].w \in Nat /\ 2 * W + Windows[j].w < UintRange
            /\ Windows[j].h \in Nat /\ 2 * H + Windows[j].h < UintRange
            /\ 2 * W \in Int /\ 2 * H \in Int /\ UintRange \in Int
        BY Sizes
      <4> QED BY <4>1, <4>2
    <3>2. CASE j # i
      <4>1. t.at[j] = s.at[j] BY <2>7, <2>9, <3>2
      <4> QED BY <1>1, <4>1 DEF InReach
    <3> QED BY <3>1, <3>2
  <2>11. t \in Screens BY <2>9, <2>10, Zenon DEF Screens
  <2> QED BY <1>4, <2>3, <2>7, <2>9, <2>11
<1> QED BY <1>3, <1>4

(* The pointer stays on the desktop.                                       *)
LEMMA NextPlace ==
  /\ \A n \in Int : Quarter(n) \in Int
  /\ \A n \in Int : Within(n, W) \in 0..(W - 1) /\ Within(n, H) \in 0..(H - 1)
<1>1. \A n \in Int : Quarter(n) \in Int BY DEF Quarter
<1>2. \A n \in Int : Within(n, W) \in 0..(W - 1) /\ Within(n, H) \in 0..(H - 1)
  BY ScreenSize DEF Within
<1> QED BY <1>1, <1>2

(* A movement takes along the window under the pointer, if it is dragged.  *)
LEMMA MoveDrags ==
  ASSUME NEW s \in Screens, NEW dx \in Int, NEW dy \in Int, NEW t, t = OnMouseMove(s, dx, dy)
  PROVE  /\ t \in Screens /\ t.Dragging = s.Dragging
         /\ \A i \in Window : s.Dragging[i] /\ Child(s, s.x, s.y) = i =>
              t.x - t.at[i][1] = s.x - s.at[i][1] /\ t.y - t.at[i][2] = s.y - s.at[i][2]
<1>1. PICK newx, newy : newx = Within(s.x + Quarter(dx), W) /\ newy = Within(s.y + Quarter(dy), H)
  OBVIOUS
<1>2. PICK first : first = Child(s, s.x, s.y) OBVIOUS
<1>3. PICK u : u = Drag(s, first, newx - s.x, newy - s.y) OBVIOUS
<1>4. PICK second : second = Child(u, newx, newy) OBVIOUS
<1>5. PICK v : v = IF second = first THEN u ELSE Drag(u, second, newx - s.x, newy - s.y) OBVIOUS
<1>6. t = [v EXCEPT !.x = newx, !.y = newy]
  <2>1. v = Passed(s, newx, newy) BY <1>2, <1>3, <1>4, <1>5, Zenon DEF Passed
  <2> QED BY <1>1, <2>1, Zenon DEF OnMouseMove
<1>7. s.x \in 0..(W - 1) /\ s.y \in 0..(H - 1) BY DEF Screens
<1>8. newx \in 0..(W - 1) /\ newy \in 0..(H - 1)
  <2>1. Quarter(dx) \in Int /\ Quarter(dy) \in Int BY NextPlace
  <2>2. PICK a, b : a = s.x + Quarter(dx) /\ b = s.y + Quarter(dy) OBVIOUS
  <2>3. a \in Int /\ b \in Int BY <1>7, <2>1, <2>2
  <2> QED BY <1>1, <2>2, <2>3, NextPlace
<1>9. newx - s.x \in Int /\ newy - s.y \in Int /\ newx - s.x <= W /\ newy - s.y <= H
  BY <1>7, <1>8, ScreenSize
<1>10. first \in {0} \cup Window /\ second \in {0} \cup Window BY <1>2, <1>4, ChildIs
<1>11. first # 0 => s.at[first][1] <= W /\ s.at[first][2] <= H
                    /\ s.at[first][1] \in Int /\ s.at[first][2] \in Int
  <2> SUFFICES ASSUME first # 0
               PROVE  s.at[first][1] <= W /\ s.at[first][2] <= H
                      /\ s.at[first][1] \in Int /\ s.at[first][2] \in Int
    OBVIOUS
  <2>1. ContainsCoordinate(s, first, s.x, s.y) BY <1>2, ChildIs
  <2>2. s.at[first][1] <= s.x /\ s.at[first][2] <= s.y BY <2>1 DEF ContainsCoordinate
  <2>3. s.at[first][1] \in Int /\ s.at[first][2] \in Int BY <1>10 DEF Screens
  <2> QED BY <1>7, <2>2, <2>3, ScreenSize
<1>12. /\ u \in Screens /\ u.x = s.x /\ u.y = s.y /\ u.Dragging = s.Dragging
       /\ \A j \in Window \ {first} : u.at[j] = s.at[j]
       /\ first # 0 => u.at[first][1] = s.at[first][1] + (IF s.Dragging[first] THEN newx - s.x ELSE 0)
       /\ first # 0 => u.at[first][2] = s.at[first][2] + (IF s.Dragging[first] THEN newy - s.y ELSE 0)
  <2>1. first # 0 => s.at[first][1] + (newx - s.x) <= 2 * W /\ s.at[first][2] + (newy - s.y) <= 2 * H
    BY <1>9, <1>11, ScreenSize
  <2>2. PICK ex, ey : ex = newx - s.x /\ ey = newy - s.y OBVIOUS
  <2>3. /\ ex \in Int /\ ey \in Int /\ u = Drag(s, first, ex, ey)
        /\ first # 0 => s.at[first][1] + ex <= 2 * W /\ s.at[first][2] + ey <= 2 * H
    BY <1>3, <1>9, <2>1, <2>2
  <2> QED BY <1>10, <2>2, <2>3, DragMoves
<1>13. second # 0 => u.at[second][1] <= W /\ u.at[second][2] <= H
                     /\ u.at[second][1] \in Int /\ u.at[second][2] \in Int
  <2> SUFFICES ASSUME second # 0
               PROVE  u.at[second][1] <= W /\ u.at[second][2] <= H
                      /\ u.at[second][1] \in Int /\ u.at[second][2] \in Int
    OBVIOUS
  <2>1. ContainsCoordinate(u, second, newx, newy) BY <1>4, ChildIs
  <2>2. u.at[second][1] <= newx /\ u.at[second][2] <= newy BY <2>1 DEF ContainsCoordinate
  <2>3. u.at[second][1] \in Int /\ u.at[second][2] \in Int BY <1>10, <1>12 DEF Screens
  <2> QED BY <1>8, <2>2, <2>3, ScreenSize
<1>14. /\ v \in Screens /\ v.Dragging = s.Dragging
       /\ first # 0 => v.at[first] = u.at[first]
  <2>1. CASE second = first BY <1>5, <1>12, <2>1
  <2>2. CASE second # first
    <3>1. second # 0 => u.at[second][1] + (newx - s.x) <= 2 * W /\ u.at[second][2] + (newy - s.y) <= 2 * H
      BY <1>9, <1>13, ScreenSize
    <3>2. v = Drag(u, second, newx - s.x, newy - s.y) BY <1>5, <2>2
    <3>3. PICK ex, ey : ex = newx - s.x /\ ey = newy - s.y OBVIOUS
    <3>4. /\ ex \in Int /\ ey \in Int /\ v = Drag(u, second, ex, ey)
          /\ second # 0 => u.at[second][1] + ex <= 2 * W /\ u.at[second][2] + ey <= 2 * H
      BY <1>9, <3>1, <3>2, <3>3
    <3>5. v \in Screens /\ v.Dragging = u.Dragging /\ \A j \in Window \ {second} : v.at[j] = u.at[j]
      BY <1>10, <1>12, <3>4, DragMoves
    <3> QED BY <1>10, <1>12, <2>2, <3>5
  <2> QED BY <2>1, <2>2
<1>15. t \in Screens /\ t.x = newx /\ t.y = newy /\ t.at = v.at /\ t.Dragging = v.Dragging
  <2>1. v \in [x : 0..(W - 1), y : 0..(H - 1),
               at : [Window -> Int \X Int], Dragging : [Window -> BOOLEAN]] /\ InReach(v)
    BY <1>14, Zenon DEF Screens
  <2>2. /\ t \in [x : 0..(W - 1), y : 0..(H - 1),
                   at : [Window -> Int \X Int], Dragging : [Window -> BOOLEAN]]
        /\ t.x = newx /\ t.y = newy /\ t.at = v.at /\ t.Dragging = v.Dragging
    BY <1>6, <1>8, <2>1
  <2>3. InReach(t) BY <2>1, <2>2, Zenon DEF InReach
  <2> QED BY <2>2, <2>3, Zenon DEF Screens
<1>16. ASSUME NEW i \in Window, s.Dragging[i], Child(s, s.x, s.y) = i
       PROVE  t.x - t.at[i][1] = s.x - s.at[i][1] /\ t.y - t.at[i][2] = s.y - s.at[i][2]
  <2>1. first = i /\ first # 0 BY <1>2, <1>16, Sizes
  <2>2. /\ t.at[i][1] = s.at[i][1] + (newx - s.x)
        /\ t.at[i][2] = s.at[i][2] + (newy - s.y)
    BY <1>12, <1>14, <1>15, <1>16, <2>1
  <2> QED BY <1>7, <1>8, <1>11, <1>15, <2>1, <2>2
<1> QED BY <1>14, <1>15, <1>16

(* A button changes at most Dragging of the window under the pointer.      *)
LEMMA ButtonDrags ==
  ASSUME NEW s \in Screens, NEW e \in ButtonCall, NEW t, t = Handled(s, e)
  PROVE  /\ t \in Screens /\ t.x = s.x /\ t.y = s.y /\ t.at = s.at
         /\ \A i \in Window : t.Dragging[i] /\ Child(t, t.x, t.y) = i =>
              e.call = "OnMouseDown" /\ e.button = 1
<1>1. /\ s \in [x : 0..(W - 1), y : 0..(H - 1),
                at : [Window -> Int \X Int], Dragging : [Window -> BOOLEAN]]
      /\ InReach(s)
  BY Zenon DEF Screens
<1>2. PICK c : c = Child(s, s.x, s.y) OBVIOUS
<1>3. c \in {0} \cup Window /\ 0 \notin Window BY <1>2, ChildIs, Sizes
<1>4. PICK b \in BOOLEAN : b = (e.call = "OnMouseDown" /\ e.button = 1) OBVIOUS
<1>5. t = IF c = 0 THEN s ELSE [s EXCEPT !.Dragging[c] = b]
  <2>1. CASE e.call = "OnMouseDown"
    <3>1. t = Pressed(s, c, e.button)
      BY <1>2, <2>1, Zenon DEF Handled, OnMouseDown
    <3>2. b = (e.button = 1) BY <1>4, <2>1, Zenon
    <3> QED BY <3>1, <3>2, Zenon DEF Pressed
  <2>2. CASE e.call = "OnMouseUp"
    <3>1. t = Released(s, c)
      BY <1>2, <2>2, Zenon DEF Handled, OnMouseUp
    <3>2. b = FALSE BY <1>4, <2>2
    <3> QED BY <3>1, <3>2, Zenon DEF Released
  <2>3. e.call \in {"OnMouseDown", "OnMouseUp"} BY DEF ButtonCall
  <2> QED BY <2>1, <2>2, <2>3
<1>6. CASE c = 0
  <2>1. t = s BY <1>5, <1>6
  <2> QED BY <1>2, <1>3, <1>6, <2>1
<1>7. CASE c # 0
  <2>1. PICK d : d = [s.Dragging EXCEPT ![c] = b] OBVIOUS
  <2>2. t = [s EXCEPT !.Dragging = d] BY <1>5, <1>7, <2>1, Zenon
  <2>3. c \in Window BY <1>3, <1>7
  <2>4. d \in [Window -> BOOLEAN] /\ d[c] = b BY <1>1, <2>1, <2>3, Zenon
  <2>5. /\ t \in [x : 0..(W - 1), y : 0..(H - 1),
                  at : [Window -> Int \X Int], Dragging : [Window -> BOOLEAN]]
        /\ t.x = s.x /\ t.y = s.y /\ t.at = s.at /\ t.Dragging = d
    BY <1>1, <2>2, <2>4
  <2>6. InReach(t) BY <1>1, <2>5, Zenon DEF InReach
  <2>7. t \in Screens BY <2>5, <2>6, Zenon DEF Screens
  <2>8. Child(t, t.x, t.y) = c BY <1>2, <2>5, ChildStays
  <2> QED BY <1>4, <2>4, <2>5, <2>7, <2>8, Zenon
<1> QED BY <1>6, <1>7

(* Every call leaves the windows and the pointer in reach.                 *)
LEMMA HandledScreens ==
  ASSUME NEW s \in Screens, NEW e \in Call
  PROVE  /\ Handled(s, e) \in Screens
         /\ e.call = "OnMouseMove" => /\ e \in MoveCall
                                      /\ Handled(s, e) = OnMouseMove(s, e.x, e.y)
         /\ e.call # "OnMouseMove" => e \in ButtonCall
<1>1. CASE e \in MoveCall
  <2>1. e.call = "OnMouseMove" /\ e.x \in Int /\ e.y \in Int BY <1>1 DEF MoveCall
  <2>2. Handled(s, e) = OnMouseMove(s, e.x, e.y) BY <2>1, Zenon DEF Handled
  <2> QED BY <1>1, <2>1, <2>2, MoveDrags
<1>2. CASE e \in ButtonCall
  <2>1. e.call # "OnMouseMove" BY <1>2 DEF ButtonCall
  <2> QED BY <1>2, <2>1, ButtonDrags
<1> QED BY <1>1, <1>2 DEF Call

(* What all the calls of a packet do: a window that is dragged and is the  *)
(* one under the pointer stays under it where it was, and behind a button  *)
(* call only button 1 drags.                                               *)
LEMMA PacketHandled ==
  ASSUME NEW s \in Screens, NEW calls, NEW old, NEW new, CallsFor(calls, old, new),
         NEW t, t = FoldLeft(Handled, s, calls)
  PROVE  /\ t \in Screens
         /\ \A i \in Window : s.Dragging[i] /\ Child(s, s.x, s.y) = i =>
              t.x - t.at[i][1] = s.x - s.at[i][1] /\ t.y - t.at[i][2] = s.y - s.at[i][2]
         /\ \A i \in Window : t.Dragging[i] /\ Child(t, t.x, t.y) = i =>
              Holds(new, 1) \/ (s.Dragging[i] /\ (Holds(old, 1) => Holds(new, 1)))
<1>1. PICK n : n = Len(calls) OBVIOUS
<1>2. /\ n \in Nat /\ calls \in [1..n -> Call]
      /\ \A k \in 1..n : /\ k # 1 => calls[k].call # "OnMouseMove"
                         /\ calls[k].call = "OnMouseDown" => Holds(new, calls[k].button)
      /\ Holds(old, 1) /\ ~Holds(new, 1) => n # 0 /\ calls[n].call # "OnMouseMove"
  <2>1. calls \in Seq(Call) BY Zenon DEF CallsFor
  <2>2. n \in Nat /\ calls \in [1..n -> Call] BY <1>1, <2>1
  <2>3. calls # <<>> => n # 0 BY <1>1, <2>1
  <2> QED BY <1>1, <2>2, <2>3, Zenon DEF CallsFor
<1>3. \A c \in Screens, e \in Call : Handled(c, e) \in Screens BY HandledScreens
<1>4. PICK h : /\ h[0] = s /\ h[n] = t
               /\ \A k \in 1..n : h[k] = Handled(h[k - 1], calls[k])
  <2>1. PICK h : HandledFolded(h, s, calls, n) BY <1>2, <1>3, HandledFold
  <2> QED BY <2>1, Zenon DEF HandledFolded
<1> DEFINE Along(k) ==
             /\ h[k] \in Screens
             /\ \A i \in Window : s.Dragging[i] /\ Child(s, s.x, s.y) = i =>
                  /\ h[k].x - h[k].at[i][1] = s.x - s.at[i][1]
                  /\ h[k].y - h[k].at[i][2] = s.y - s.at[i][2]
           P == {k \in 0..n : Along(k)}
<1>5. 0 \in P BY <1>2, <1>4
<1>6. ASSUME NEW k \in 0..(n - 1), k \in P PROVE k + 1 \in P
  <2>1. PICK m : m = k + 1 OBVIOUS
  <2>2. m \in 1..n /\ m \in 0..n /\ m - 1 = k /\ (m = 1 => k = 0) BY <1>2, <2>1
  <2>3. PICK e \in Call : e = calls[m] BY <1>2, <2>2
  <2>4. Along(k) BY <1>6, Zenon
  <2>5. PICK a, b : a = h[k] /\ b = h[m] OBVIOUS
  <2>6. b = Handled(a, e) /\ a \in Screens BY <1>4, <2>2, <2>3, <2>4, <2>5
  <2>7. CASE e.call = "OnMouseMove"
    <3>1. a = s BY <1>2, <1>4, <2>2, <2>3, <2>5, <2>7
    <3>2. /\ e.x \in Int /\ e.y \in Int
          /\ b = OnMouseMove(s, e.x, e.y)
      BY <2>6, <2>7, <3>1, HandledScreens DEF MoveCall
    <3>3. Along(m) BY <2>5, <3>2, MoveDrags
    <3> QED BY <2>1, <2>2, <3>3
  <2>8. CASE e.call # "OnMouseMove"
    <3>1. e \in ButtonCall BY <2>6, <2>8, HandledScreens
    <3>2. b \in Screens /\ b.x = a.x /\ b.y = a.y /\ b.at = a.at BY <2>6, <3>1, ButtonDrags
    <3>3. Along(m) BY <2>4, <2>5, <3>2
    <3> QED BY <2>1, <2>2, <3>3
  <2> QED BY <2>7, <2>8
<1>7. Along(n)
  <2> HIDE DEF P
  <2>1. \A k \in 0..n : k \in P BY <1>2, <1>5, <1>6, UpTo
  <2>2. n \in P BY <1>2, <2>1
  <2> QED BY <2>2, Zenon DEF P
<1>8. ASSUME NEW i \in Window, t.Dragging[i], Child(t, t.x, t.y) = i
      PROVE  Holds(new, 1) \/ (s.Dragging[i] /\ (Holds(old, 1) => Holds(new, 1)))
  <2>1. CASE n = 0
    <3>1. t = s BY <1>4, <2>1
    <3>2. Holds(old, 1) => Holds(new, 1) BY <1>2, <2>1
    <3> QED BY <1>8, <3>1, <3>2
  <2>2. CASE n # 0
    <3>1. n \in 1..n /\ n - 1 \in 0..n BY <1>2, <2>2
    <3>2. PICK e \in Call : e = calls[n] BY <1>2, <3>1
    <3>3. PICK a : a = h[n - 1] OBVIOUS
    <3>4. t = Handled(a, e) BY <1>4, <3>1, <3>2, <3>3
    <3>5. CASE e.call = "OnMouseMove"
      <4>1. n = 1 /\ a = s BY <1>2, <1>4, <3>1, <3>2, <3>3, <3>5
      <4>2. e.x \in Int /\ e.y \in Int /\ t = OnMouseMove(s, e.x, e.y)
        BY <3>4, <3>5, <4>1, HandledScreens DEF MoveCall
      <4>3. t.Dragging = s.Dragging BY <4>2, MoveDrags
      <4>4. Holds(old, 1) => Holds(new, 1) BY <1>2, <3>2, <3>5
      <4> QED BY <1>8, <4>3, <4>4
    <3>6. CASE e.call # "OnMouseMove"
      <4>1. n - 1 \in P
        <5> HIDE DEF P
        <5>1. \A k \in 0..n : k \in P BY <1>2, <1>5, <1>6, UpTo
        <5> QED BY <3>1, <5>1
      <4>2. a \in Screens BY <3>3, <4>1, Zenon
      <4>3. e \in ButtonCall BY <3>6, <4>2, HandledScreens
      <4>4. e.call = "OnMouseDown" /\ e.button = 1 BY <1>8, <3>4, <4>2, <4>3, ButtonDrags
      <4> QED BY <1>2, <3>1, <3>2, <4>4
    <3> QED BY <3>5, <3>6
  <2> QED BY <2>1, <2>2
<1> QED BY <1>4, <1>7, <1>8

-----------------------------------------------------------------------------
(* Drawing *)

(* Unsigned, a number is itself or, if negative, the range more.           *)
LEMMA Unsigned ==
  ASSUME NEW U \in Nat, U >= 1, NEW n \in Int
  PROVE  /\ n \in 0..(U - 1) => n % U = n
         /\ -U <= n /\ n < 0 => n % U = n + U
OBVIOUS

(* On the screen the loops fill what the window covers; from behind its    *)
(* left or upper edge they fill nothing of it.                             *)
LEMMA FilledIs ==
  ASSUME NEW from \in Int, NEW w \in Nat, w < UintRange, from + w < UintRange, NEW X \in Nat
  PROVE  X \in Filled(from, w) <=> from >= 0 /\ from <= X /\ X < from + w
<1>1. UintRange \in Nat /\ UintRange >= 1 BY Sizes
<1>2. PICK U \in Nat : U = UintRange BY <1>1
<1>3. U >= 1 /\ w < U /\ from + w < U BY <1>1, <1>2
<1>4. X \in Filled(from, w) <=>
        /\ X \in from..(from + w - 1)
        /\ \A before \in from..X : before % U < (from + w) % U
  BY <1>2 DEF Filled
<1>5. CASE from >= 0
  <2>1. (from + w) % U = from + w BY <1>3, <1>5, Unsigned
  <2>2. ASSUME X \in from..(from + w - 1), NEW before \in from..X
        PROVE  before % U < (from + w) % U
    <3>1. before \in 0..(U - 1) /\ before < from + w BY <1>3, <1>5, <2>2
    <3>2. before % U = before BY <1>3, <3>1, Unsigned
    <3> QED BY <2>1, <3>1, <3>2
  <2> QED BY <1>4, <1>5, <2>2
<1>6. CASE from < 0
  <2> SUFFICES ASSUME X \in from..(from + w - 1), \A before \in from..X : before % U < (from + w) % U
               PROVE  FALSE
    BY <1>4, <1>6
  <2>1. -U <= from /\ from + w \in 0..(U - 1) /\ from \in from..X BY <1>3, <1>6
  <2>2. from % U = from + U /\ (from + w) % U = from + w BY <1>3, <1>6, <2>1, Unsigned
  <2> QED BY <1>3, <2>1, <2>2
<1> QED BY <1>5, <1>6

(* On the screen a window covers what it contains.                         *)
LEMMA CoversIs ==
  ASSUME NEW s \in Screens, NEW i \in Window, NEW X \in Nat, NEW Y \in Nat
  PROVE  Covers(s, i, X, Y) <=>
           s.at[i][1] >= 0 /\ s.at[i][2] >= 0 /\ ContainsCoordinate(s, i, X, Y)
<1>1. s.at[i][1] \in Int /\ s.at[i][2] \in Int BY DEF Screens
<1>2. s.at[i][1] + Windows[i].w < UintRange /\ s.at[i][2] + Windows[i].h < UintRange
  BY DEF Screens, InReach
<1>3. /\ Windows[i].w \in Nat /\ Windows[i].h \in Nat
      /\ Windows[i].w < UintRange /\ Windows[i].h < UintRange
  <2>1. /\ Windows[i].w \in Nat /\ 2 * W + Windows[i].w < UintRange /\ W \in Nat
        /\ Windows[i].h \in Nat /\ 2 * H + Windows[i].h < UintRange /\ H \in Nat
        /\ UintRange \in Nat
    BY Sizes
  <2> QED BY <2>1
<1>4. X \in Filled(s.at[i][1], Windows[i].w) <=>
        s.at[i][1] >= 0 /\ s.at[i][1] <= X /\ X < s.at[i][1] + Windows[i].w
  BY <1>1, <1>2, <1>3, FilledIs
<1>5. Y \in Filled(s.at[i][2], Windows[i].h) <=>
        s.at[i][2] >= 0 /\ s.at[i][2] <= Y /\ Y < s.at[i][2] + Windows[i].h
  BY <1>1, <1>2, <1>3, FilledIs
<1> QED BY <1>4, <1>5, Zenon DEF Covers, ContainsCoordinate

(* Painted from the last to the first, a pixel shows the first window that *)
(* covers it.                                                              *)
LEMMA SeenIs ==
  ASSUME NEW s, NEW X, NEW Y
  PROVE  /\ Seen(s, X, Y) \in {0} \cup Window
         /\ Seen(s, X, Y) # 0 => Covers(s, Seen(s, X, Y), X, Y)
         /\ \A j \in Window : Covers(s, j, X, Y) => Seen(s, X, Y) # 0 /\ Seen(s, X, Y) <= j
<1>1. PICK n : n = Len(Windows) OBVIOUS
<1>2. n \in Nat /\ Window = 1..n BY <1>1, Sizes
<1>3. PICK seq : seq = Reverse([i \in Window |-> i]) OBVIOUS
<1>4. seq \in [1..n -> Window] /\ \A k \in 1..n : seq[k] = n + 1 - k
  <2>1. PICK id : id = [i \in Window |-> i] OBVIOUS
  <2>2. Len(id) = n /\ \A i \in Window : id[i] = i BY <1>2, <2>1
  <2>3. seq = [k \in 1..n |-> id[(n - k) + 1]] BY <1>3, <2>1, <2>2 DEF Reverse
  <2>4. \A k \in 1..n : (n - k) + 1 \in Window /\ (n - k) + 1 = n + 1 - k BY <1>2
  <2> QED BY <2>2, <2>3, <2>4
<1>5. PICK C : C = {0} \cup Window OBVIOUS
<1>6. 0 \in C /\ \A c \in C, e \in Window : (IF Covers(s, e, X, Y) THEN e ELSE c) \in C
  BY <1>5
<1>7. PICK h : PaintFolded(h, 0, seq, n, s, X, Y) BY <1>2, <1>4, <1>6, PaintFold
<1>8. /\ h[0] = 0 /\ h[n] = Seen(s, X, Y)
      /\ \A k \in 1..n : h[k] = (IF Covers(s, seq[k], X, Y) THEN seq[k] ELSE h[k - 1])
  BY <1>3, <1>7, Zenon DEF PaintFolded, Seen
<1> DEFINE Top(k) ==
             /\ h[k] \in C
             /\ h[k] # 0 => Covers(s, h[k], X, Y)
             /\ \A j \in (n + 1 - k)..n : Covers(s, j, X, Y) => h[k] # 0 /\ h[k] <= j
           P == {k \in 0..n : Top(k)}
<1>9. 0 \in P
  <2>1. (n + 1 - 0)..n = {} /\ 0 \in 0..n BY <1>2
  <2> QED BY <1>6, <1>8, <2>1
<1>10. ASSUME NEW k \in 0..(n - 1), k \in P PROVE k + 1 \in P
  <2>1. PICK m : m = k + 1 OBVIOUS
  <2>2. /\ m \in 1..n /\ m \in 0..n /\ m - 1 = k
        /\ (n + 1 - m)..n = {n + 1 - m} \cup (n + 1 - k)..n /\ n + 1 - m \in Window /\ n + 1 - m # 0
        /\ \A j \in (n + 1 - m)..n : n + 1 - m <= j
    BY <1>2, <2>1
  <2>3. Top(k) BY <1>10, Zenon
  <2>4. PICK i \in Window : i = n + 1 - m BY <2>2
  <2>5. h[m] = (IF Covers(s, i, X, Y) THEN i ELSE h[k]) BY <1>4, <1>8, <2>2, <2>4
  <2>6. Top(m)
    <3>1. CASE Covers(s, i, X, Y)
      <4>1. h[m] = i BY <2>5, <3>1
      <4> QED BY <1>5, <2>2, <2>4, <3>1, <4>1
    <3>2. CASE ~Covers(s, i, X, Y)
      <4>1. h[m] = h[k] BY <2>5, <3>2
      <4> QED BY <2>2, <2>3, <2>4, <3>2, <4>1
    <3> QED BY <3>1, <3>2
  <2> QED BY <2>1, <2>2, <2>6
<1>11. Top(n)
  <2> HIDE DEF P
  <2>1. \A k \in 0..n : k \in P BY <1>2, <1>9, <1>10, UpTo
  <2>2. n \in P BY <1>2, <2>1
  <2> QED BY <2>2, Zenon DEF P
<1>12. (n + 1 - n)..n = Window BY <1>2
<1> QED BY <1>5, <1>8, <1>11, <1>12

(* What is drawn is what gets the events.                                  *)
LEMMA ScreensDrawn ==
  ASSUME NEW s \in Screens, NEW X \in Nat, NEW Y \in Nat,
         NEW i, i = Child(s, X, Y), i # 0 => s.at[i][1] >= 0 /\ s.at[i][2] >= 0
  PROVE  Seen(s, X, Y) = i
<1>1. PICK k : k = Seen(s, X, Y) OBVIOUS
<1>2. /\ i \in {0} \cup Window /\ (i # 0 => ContainsCoordinate(s, i, X, Y))
      /\ \A j \in Window : ContainsCoordinate(s, j, X, Y) => i # 0 /\ i <= j
  BY ChildIs
<1>3. /\ k \in {0} \cup Window /\ (k # 0 => Covers(s, k, X, Y))
      /\ \A j \in Window : Covers(s, j, X, Y) => k # 0 /\ k <= j
  BY <1>1, SeenIs
<1>4. i # 0 => Covers(s, i, X, Y) BY <1>2, CoversIs
<1>5. k # 0 => ContainsCoordinate(s, k, X, Y) BY <1>3, CoversIs
<1>6. i \in Nat /\ k \in Nat BY <1>2, <1>3, Sizes
<1> QED BY <1>1, <1>2, <1>3, <1>4, <1>5, <1>6

-----------------------------------------------------------------------------
(* The text screen *)

Letters == {"character", "newline"}

LEMMA ConsoleSizes ==
  /\ Columns \in Nat /\ Columns >= 1 /\ Rows \in Nat /\ Rows >= 1
  /\ CharRange \in Nat /\ CharRange >= 1
  /\ Texts \subseteq Seq(Letters) /\ Received \subseteq Seq(Letters)
BY ConsoleAssumption DEF Letters

(* A place on the screen, or at most a row and a column behind it, is not  *)
(* a stray one.                                                            *)
LEMMA CellBound ==
  ASSUME NEW col \in 0..Columns, NEW row \in 0..Rows
  PROVE  Cell(col, row) \in 0..Cell(Columns, Rows) /\ ~Stray(Cell(col, row))
<1>1. Columns \in Nat /\ Rows \in Nat BY ConsoleSizes
<1>2. \A a, b, c \in Nat : b <= c => a * b <= a * c /\ a * b \in Nat /\ a * c \in Nat OBVIOUS
<1>3. Columns * row <= Columns * Rows /\ Columns * row \in Nat /\ Columns * Rows \in Nat
  BY <1>1, <1>2
<1>4. PICK m, n : m = Columns * row /\ n = Columns * Rows OBVIOUS
<1>5. m + col \in 0..(n + Columns) BY <1>1, <1>3, <1>4
<1>6. Cell(col, row) = m + col /\ Cell(Columns, Rows) = n + Columns BY <1>4, Zenon DEF Cell
<1>7. ~(m + col > n + Columns) BY <1>1, <1>3, <1>4, <1>5
<1> QED BY <1>5, <1>6, <1>7, Zenon DEF Stray

LEMMA LastCell == Cell(Columns, Rows) \in Nat
<1>1. Columns \in Nat /\ Rows \in Nat BY ConsoleSizes
<1>2. \A a, b \in Nat : a * b + a \in Nat OBVIOUS
<1> QED BY <1>1, <1>2 DEF Cell

Cursors == [x : 0..Columns, y : 0..Rows, strayed : {FALSE}]

(* printf in a handler comes back to the screen with every character.      *)
LEMMA PutReturns ==
  ASSUME NEW c \in Cursors, NEW character
  PROVE  /\ Put(c, character) \in Cursors
         /\ Put(c, character).x < Columns /\ Put(c, character).y < Rows
<1>1. Columns \in Nat /\ Columns >= 1 /\ Rows \in Nat /\ Rows >= 1 BY ConsoleSizes
<1>2. c.x \in 0..Columns /\ c.y \in 0..Rows /\ c.strayed = FALSE BY DEF Cursors
<1>3. ASSUME NEW d, NEW a \in Nat, NEW b \in Nat, d = [x |-> a, y |-> b, strayed |-> FALSE]
      PROVE  Advanced(d) \in Cursors /\ Advanced(d).x < Columns /\ Advanced(d).y < Rows
  <2>1. PICK e : e = IF d.x >= Columns THEN [d EXCEPT !.x = 0, !.y = d.y + 1] ELSE d OBVIOUS
  <2>2. PICK a1 \in Nat, b1 \in Nat :
          e = [x |-> a1, y |-> b1, strayed |-> FALSE] /\ a1 < Columns
    <3>1. CASE a >= Columns
      <4>1. PICK b2 : b2 = b + 1 OBVIOUS
      <4>2. e = [d EXCEPT !.x = 0, !.y = b2] BY <1>3, <2>1, <3>1, <4>1
      <4>3. e = [x |-> 0, y |-> b2, strayed |-> FALSE] BY <1>3, <4>2
      <4>4. 0 \in Nat /\ b2 \in Nat /\ 0 < Columns BY <1>1, <4>1
      <4> QED BY <4>3, <4>4, Zenon
    <3>2. CASE ~(a >= Columns)
      <4>1. e = d BY <1>3, <2>1, <3>2
      <4>2. a < Columns BY <1>1, <3>2
      <4> QED BY <1>3, <4>1, <4>2, Zenon
    <3> QED BY <3>1, <3>2
  <2>3. PICK f : f = IF e.y >= Rows THEN [e EXCEPT !.x = 0, !.y = 0] ELSE e OBVIOUS
  <2>4. PICK a2 \in Nat, b2 \in Nat :
          f = [x |-> a2, y |-> b2, strayed |-> FALSE] /\ a2 < Columns /\ b2 < Rows
    <3>1. CASE b1 >= Rows
      <4>1. f = [e EXCEPT !.x = 0, !.y = 0] BY <2>2, <2>3, <3>1
      <4>2. f = [x |-> 0, y |-> 0, strayed |-> FALSE] BY <2>2, <4>1
      <4>3. 0 \in Nat /\ 0 < Columns /\ 0 < Rows BY <1>1
      <4> QED BY <4>2, <4>3, Zenon
    <3>2. CASE ~(b1 >= Rows)
      <4>1. f = e BY <2>2, <2>3, <3>2
      <4>2. b1 < Rows BY <1>1, <3>2
      <4> QED BY <2>2, <4>1, <4>2, Zenon
    <3> QED BY <3>1, <3>2
  <2>5. Advanced(d) = f BY <2>1, <2>3, Zenon DEF Advanced
  <2>6. a2 \in 0..Columns /\ b2 \in 0..Rows BY <1>1, <2>4
  <2>7. f \in Cursors BY <2>4, <2>6 DEF Cursors
  <2> QED BY <2>4, <2>5, <2>7
<1>4. CASE character = "newline"
  <2>1. PICK d : d = [c EXCEPT !.x = 0, !.y = c.y + 1] OBVIOUS
  <2>2. PICK b : b = c.y + 1 OBVIOUS
  <2>3. b \in Nat BY <1>2, <2>2, <1>1
  <2>4. d = [x |-> 0, y |-> b, strayed |-> FALSE] BY <1>2, <2>1, <2>2 DEF Cursors
  <2>5. Put(c, character) = Advanced(d) BY <1>4, <2>1, Zenon DEF Put
  <2> QED BY <1>3, <2>3, <2>4, <2>5
<1>5. CASE character # "newline"
  <2>1. ~Stray(Cell(c.x, c.y)) BY <1>2, CellBound
  <2>2. PICK d : d = [c EXCEPT !.x = c.x + 1, !.strayed = @ \/ Stray(Cell(c.x, c.y))] OBVIOUS
  <2>3. PICK a : a = c.x + 1 OBVIOUS
  <2>4. a \in Nat /\ c.y \in Nat BY <1>2, <2>3, <1>1
  <2>5. (c.strayed \/ Stray(Cell(c.x, c.y))) = FALSE BY <1>2, <2>1
  <2>6. d = [c EXCEPT !.x = a, !.strayed = FALSE] BY <2>2, <2>3, <2>5, Zenon
  <2>7. d = [x |-> a, y |-> c.y, strayed |-> FALSE] BY <2>6 DEF Cursors
  <2>8. Put(c, character) = Advanced(d) BY <1>5, <2>2, Zenon DEF Put
  <2> QED BY <1>3, <2>4, <2>7, <2>8
<1> QED BY <1>4, <1>5

(* A handler that prints leaves the cursor on the screen.                  *)
LEMMA PrintsReturns ==
  ASSUME NEW text \in Seq(Letters), Prints(text),
         x \in 0..Columns, y \in 0..Rows, strayed = FALSE
  PROVE  /\ x' \in 0..(Columns - 1) /\ y' \in 0..(Rows - 1) /\ strayed' = FALSE
         /\ UNCHANGED <<swapped, pointer, main>>
         /\ smeared' = (smeared \/ main.at = "store")
<1>1. PICK base : base = [x |-> x, y |-> y, strayed |-> strayed] OBVIOUS
<1>2. PICK c : c = FoldLeft(Put, base, text) OBVIOUS
<1>3. /\ text # <<>> /\ x' = c.x /\ y' = c.y /\ strayed' = c.strayed
      /\ UNCHANGED <<swapped, pointer, main>>
      /\ smeared' = (smeared \/ main.at = "store")
  BY <1>1, <1>2, Zenon DEF Prints, Interrupted
<1>4. base \in Cursors BY <1>1 DEF Cursors
<1>5. PICK n : n = Len(text) OBVIOUS
<1>6. n \in Nat /\ text \in [1..n -> Letters] /\ n # 0 BY <1>3, <1>5
<1>7. \A d \in Cursors, e \in Letters : Put(d, e) \in Cursors BY PutReturns
<1>8. PICK h : PutFolded(h, base, text, n) BY <1>4, <1>6, <1>7, PutFold
<1>9. h[0] = base /\ h[n] = c /\ \A k \in 1..n : h[k] = Put(h[k - 1], text[k])
  BY <1>2, <1>8, Zenon DEF PutFolded
<1> DEFINE P == {k \in 0..n : h[k] \in Cursors}
<1>10. 0 \in P BY <1>4, <1>6, <1>9
<1>11. ASSUME NEW k \in 0..(n - 1), k \in P PROVE k + 1 \in P
  <2>1. PICK m : m = k + 1 OBVIOUS
  <2>2. m \in 1..n /\ m \in 0..n /\ m - 1 = k BY <1>6, <2>1
  <2>3. h[m] = Put(h[k], text[m]) /\ h[k] \in Cursors BY <1>9, <1>11, <2>2
  <2> QED BY <2>1, <2>2, <2>3, PutReturns
<1>12. \A k \in 0..n : k \in P
  <2> HIDE DEF P
  <2> QED BY <1>6, <1>10, <1>11, UpTo
<1>13. n \in 1..n /\ n - 1 \in 0..n BY <1>6
<1>14. PICK d : d = h[n - 1] OBVIOUS
<1>15. d \in Cursors /\ c = Put(d, text[n]) BY <1>9, <1>12, <1>13, <1>14
<1>16. c \in Cursors /\ c.x < Columns /\ c.y < Rows BY <1>15, PutReturns
<1>17. c.x \in 0..(Columns - 1) /\ c.y \in 0..(Rows - 1) /\ c.strayed = FALSE
  <2>1. c.x \in 0..Columns /\ c.y \in 0..Rows /\ c.strayed = FALSE BY <1>16 DEF Cursors
  <2>2. Columns \in Nat /\ Rows \in Nat BY ConsoleSizes
  <2> QED BY <1>16, <2>1, <2>2
<1> QED BY <1>3, <1>17

(* What a key prints is a text.                                            *)
LEMMA PrintedLetters ==
  ASSUME NEW key
  PROVE  Printed(key) \in Seq(Letters)
<1>1. <<"character">> \in Seq(Letters) /\ <<"newline">> \in Seq(Letters) /\ <<>> \in Seq(Letters)
  BY DEF Letters
<1>2. [i \in 1..UnknownKeyText |-> "character"] \in Seq(Letters)
  BY ConsoleAssumption DEF Letters
<1> QED BY <1>1, <1>2, Zenon DEF Printed

(* Where kernelMain is in printf, what it will do next, and what bounds    *)
(* the cursor there.                                                       *)
Printfs ==
  [at : {"idle", "character", "load", "store", "column", "nextColumn", "row", "nextRow",
         "wrap", "full", "rows", "columns", "home"},
   text : Seq(Letters), after : {"wrap", "full", "rows", "columns"},
   cell : 0..Cell(Columns, Rows), colours : BOOLEAN, register : Nat]

CursorAt(m, col, row) ==
  /\ m.at \in {"idle", "character"} => col < Columns /\ row < Rows
  /\ m.at \in {"load", "store", "column", "nextColumn"} =>
       col < Columns /\ row < Rows /\ m.after \in {"wrap", "columns"}
  /\ m.at = "nextColumn" => m.register < Columns
  /\ m.at = "wrap" => col < Columns \/ row < Rows
  /\ m.at \in {"full", "home"} => col < Columns
  /\ m.at = "columns" => row < Rows
  /\ m.at \in {"row", "nextRow"} =>
       /\ row < Rows /\ m.after \in {"wrap", "full", "rows"}
       /\ m.after = "rows" \/ col < Columns
  /\ m.at = "nextRow" => m.register < Rows
  /\ m.at \in {"idle", "character"} \/ m.text # <<>>

CursorInv ==
  /\ main \in Printfs
  /\ x \in 0..Columns /\ y \in 0..Rows /\ strayed = FALSE
  /\ CursorAt(main, x, y)

Pointers == [x : 0..(Columns - 1), y : 0..(Rows - 1)]

PointerCell == Cell(pointer.x, pointer.y)

(* The colours of one cell are swapped, and what printf has read of them   *)
(* is what they are.                                                       *)
PointerInv ==
  /\ pointer \in Pointers /\ swapped \subseteq 0..Cell(Columns, Rows) /\ smeared \in BOOLEAN
  /\ smeared \/ /\ swapped = {PointerCell}
                /\ main.at = "store" => /\ main.cell = Cell(x, y)
                                        /\ main.colours <=> main.cell \in swapped

(* Every round of a fold stays where its steps do.                         *)
LEMMA ConsoleFoldIn ==
  ASSUME NEW C, NEW E, \A c \in C, e \in E : ToConsole(c, e) \in C,
         NEW base \in C, NEW calls \in Seq(E)
  PROVE  FoldLeft(ToConsole, base, calls) \in C
<1>1. PICK n : n = Len(calls) OBVIOUS
<1>2. n \in Nat /\ calls \in [1..n -> E] BY <1>1
<1>3. PICK h : ToConsoleFolded(h, base, calls, n) BY <1>2, ToConsoleFold
<1>4. /\ h[0] = base /\ h[n] = FoldLeft(ToConsole, base, calls)
      /\ \A k \in 1..n : h[k] = ToConsole(h[k - 1], calls[k])
  BY <1>3, Zenon DEF ToConsoleFolded
<1> DEFINE P == {k \in 0..n : h[k] \in C}
<1>5. 0 \in P BY <1>2, <1>4
<1>6. ASSUME NEW k \in 0..(n - 1), k \in P PROVE k + 1 \in P
  <2>1. PICK m : m = k + 1 OBVIOUS
  <2>2. m \in 1..n /\ m \in 0..n /\ m - 1 = k BY <1>2, <2>1
  <2>3. h[m] = ToConsole(h[k], calls[m]) /\ h[k] \in C /\ calls[m] \in E
    BY <1>2, <1>4, <1>6, <2>2
  <2> QED BY <2>1, <2>2, <2>3
<1>7. n \in P
  <2> HIDE DEF P
  <2>1. \A k \in 0..n : k \in P BY <1>2, <1>5, <1>6, UpTo
  <2> QED BY <1>2, <2>1
<1> QED BY <1>4, <1>7, Zenon

(* The pointer of MouseToConsole stays on the text screen.                 *)
LEMMA Clamped ==
  ASSUME NEW n \in Int, NEW by \in Int
  PROVE  /\ Clamp(Int8Sum(n, by), Columns) \in 0..(Columns - 1)
         /\ Clamp(Int8Sum(n, by), Rows) \in 0..(Rows - 1)
<1>1. PICK m : m = Int8Sum(n, by) OBVIOUS
<1>2. m \in Int
  <2>1. CharRange \in Nat /\ CharRange >= 1 BY ConsoleSizes
  <2>2. PICK r : r = 2 * CharRange OBVIOUS
  <2>3. PICK q : q = n + by + CharRange OBVIOUS
  <2>4. r \in Nat /\ r >= 1 /\ q \in Int BY <2>1, <2>2, <2>3
  <2>5. q % r \in Int BY <2>4
  <2>6. m = (q % r) - CharRange BY <1>1, <2>2, <2>3, Zenon DEF Int8Sum
  <2> QED BY <2>1, <2>5, <2>6
<1>3. Columns \in Nat /\ Columns >= 1 /\ Rows \in Nat /\ Rows >= 1 BY ConsoleSizes
<1> QED BY <1>1, <1>2, <1>3 DEF Clamp

(* The pointer leaves one cell and swaps the colours of the next one.      *)
LEMMA PointerMoves ==
  ASSUME NEW s \in [pointer : Pointers, swapped : SUBSET (0..Cell(Columns, Rows))],
         NEW e \in MoveCall, NEW t, t = ToConsole(s, e)
  PROVE  /\ t \in [pointer : Pointers, swapped : SUBSET (0..Cell(Columns, Rows))]
         /\ s.swapped = {Cell(s.pointer.x, s.pointer.y)} =>
              t.swapped = {Cell(t.pointer.x, t.pointer.y)}
<1>1. e.call = "OnMouseMove" /\ e.x \in Int /\ e.y \in Int BY DEF MoveCall
<1>2. PICK p : p = [x |-> Clamp(Int8Sum(s.pointer.x, e.x), Columns),
                    y |-> Clamp(Int8Sum(s.pointer.y, e.y), Rows)]
  OBVIOUS
<1>3. PICK a, b : a = Cell(s.pointer.x, s.pointer.y) /\ b = Cell(p.x, p.y) OBVIOUS
<1>4. t = [pointer |-> p, swapped |-> Swap(Swap(s.swapped, a), b)]
  BY <1>1, <1>2, <1>3, Zenon DEF ToConsole, MovePointer
<1>5. s.pointer.x \in 0..(Columns - 1) /\ s.pointer.y \in 0..(Rows - 1) BY DEF Pointers
<1>6. p.x \in 0..(Columns - 1) /\ p.y \in 0..(Rows - 1)
  <2>1. s.pointer.x \in Int /\ s.pointer.y \in Int BY <1>5
  <2> QED BY <1>1, <1>2, <2>1, Clamped
<1>7. p \in Pointers BY <1>2, <1>6 DEF Pointers
<1>8. a \in 0..Cell(Columns, Rows) /\ b \in 0..Cell(Columns, Rows)
  <2>1. Columns \in Nat /\ Rows \in Nat BY ConsoleSizes
  <2>2. s.pointer.x \in 0..Columns /\ s.pointer.y \in 0..Rows /\ p.x \in 0..Columns /\ p.y \in 0..Rows
    BY <1>5, <1>6, <2>1
  <2> QED BY <1>3, <2>2, CellBound
<1>9. PICK cells : cells = 0..Cell(Columns, Rows) OBVIOUS
<1>10. s.swapped \in SUBSET cells BY <1>9
<1>11. /\ Swap(Swap(s.swapped, a), b) \in SUBSET cells
       /\ s.swapped = {a} => Swap(Swap(s.swapped, a), b) = {b}
  BY <1>8, <1>9, <1>10, Zenon DEF Swap
<1>12. t.pointer = p /\ t.swapped = Swap(Swap(s.swapped, a), b) BY <1>4
<1> QED BY <1>3, <1>4, <1>7, <1>9, <1>11, <1>12

(* The calls of a packet on the text screen.                               *)
LEMMA ConsoleHandled ==
  ASSUME CursorInv, PointerInv, NEW calls \in Seq(Call), ConsoleHandles(calls)
  PROVE  CursorInv' /\ PointerInv'
<1>1. PICK base : base = [pointer |-> pointer, swapped |-> swapped] OBVIOUS
<1>2. PICK s : s = FoldLeft(ToConsole, base, calls) OBVIOUS
<1>3. /\ pointer' = s.pointer /\ swapped' = s.swapped
      /\ IF \E k \in DOMAIN calls : calls[k].call = "OnMouseMove"
           THEN smeared' = (smeared \/ main.at = "store") ELSE smeared' = smeared
      /\ x' = x /\ y' = y /\ main' = main /\ strayed' = strayed
  BY <1>1, <1>2, Zenon DEF ConsoleHandles, Interrupted
<1>4. CursorInv' BY <1>3 DEF CursorInv
<1> DEFINE Some == [pointer : Pointers, swapped : SUBSET (0..Cell(Columns, Rows))]
           One == {c \in Some : c.swapped = {Cell(c.pointer.x, c.pointer.y)}}
<1>5. base \in Some /\ base.pointer = pointer /\ base.swapped = swapped
  BY <1>1 DEF PointerInv
<1>6. \A c \in Some, e \in ButtonCall : ToConsole(c, e) = c
  BY DEF ButtonCall, ToConsole
<1>7. \A c \in Some, e \in Call : ToConsole(c, e) \in Some
  BY <1>6, PointerMoves DEF Call
<1>8. \A c \in One, e \in Call : ToConsole(c, e) \in One
  <2> SUFFICES ASSUME NEW c \in One, NEW e \in Call PROVE ToConsole(c, e) \in One
    OBVIOUS
  <2>1. CASE e \in ButtonCall BY <1>6, <2>1
  <2>2. CASE e \in MoveCall
    <3>1. PICK t : t = ToConsole(c, e) OBVIOUS
    <3>2. t \in Some /\ t.swapped = {Cell(t.pointer.x, t.pointer.y)} BY <2>2, <3>1, PointerMoves
    <3> QED BY <3>1, <3>2
  <2> QED BY <2>1, <2>2 DEF Call
<1>9. s \in Some
  <2> HIDE DEF Some
  <2> QED BY <1>2, <1>5, <1>7, ConsoleFoldIn, Zenon
<1>10. base \in One => s \in One
  <2> HIDE DEF One
  <2> QED BY <1>2, <1>8, ConsoleFoldIn, Zenon
<1>11. pointer' \in Pointers /\ swapped' \subseteq 0..Cell(Columns, Rows) BY <1>3, <1>9
<1>12. smeared' \in BOOLEAN BY <1>3 DEF PointerInv
<1>13. ASSUME ~smeared'
       PROVE  /\ swapped' = {PointerCell'}
              /\ main'.at = "store" => /\ main'.cell = Cell(x', y')
                                       /\ main'.colours <=> main'.cell \in swapped'
  <2>1. ~smeared BY <1>3, <1>13 DEF PointerInv
  <2>2. base \in One BY <1>5, <2>1 DEF PointerInv, PointerCell
  <2>3. swapped' = {PointerCell'} BY <1>3, <1>10, <2>2 DEF PointerCell
  <2>4. CASE \E k \in DOMAIN calls : calls[k].call = "OnMouseMove"
    <3>1. main.at # "store" BY <1>3, <1>13, <2>4
    <3> QED BY <1>3, <2>3, <3>1
  <2>5. CASE ~ \E k \in DOMAIN calls : calls[k].call = "OnMouseMove"
    <3>1. calls \in Seq(ButtonCall)
      <4>1. \A k \in 1..Len(calls) : calls[k] \in Call /\ calls[k].call # "OnMouseMove"
        BY <2>5, ElementOfSeq
      <4>2. \A k \in 1..Len(calls) : calls[k] \in ButtonCall BY <4>1 DEF Call, MoveCall
      <4>3. Len(calls) \in Nat /\ calls \in [1..Len(calls) -> Call] OBVIOUS
      <4>4. calls \in [1..Len(calls) -> ButtonCall] BY <4>2, <4>3
      <4> QED BY <4>3, <4>4
    <3>2. \A c \in {base}, e \in ButtonCall : ToConsole(c, e) \in {base}
      <4> HIDE DEF Some
      <4> QED BY <1>5, <1>6
    <3>3. s \in {base} BY <1>2, <3>1, <3>2, ConsoleFoldIn, Zenon
    <3>4. swapped' = swapped BY <1>3, <1>5, <3>3
    <3> QED BY <1>3, <2>1, <2>3, <3>4, Zenon DEF PointerInv
  <2> QED BY <2>4, <2>5
<1> QED BY <1>4, <1>11, <1>12, <1>13, Zenon DEF PointerInv

(* A handler that prints.                                                  *)
LEMMA PrintsHandled ==
  ASSUME CursorInv, PointerInv, NEW text \in Seq(Letters), Prints(text)
  PROVE  CursorInv' /\ PointerInv'
<1>1. /\ x' \in 0..(Columns - 1) /\ y' \in 0..(Rows - 1) /\ strayed' = FALSE
      /\ swapped' = swapped /\ pointer' = pointer /\ main' = main
      /\ smeared' = (smeared \/ main.at = "store")
  BY PrintsReturns DEF CursorInv
<1>2. Columns \in Nat /\ Rows \in Nat BY ConsoleSizes
<1>3. x' \in 0..Columns /\ y' \in 0..Rows /\ x' < Columns /\ y' < Rows BY <1>1, <1>2
<1>4. CursorAt(main, x', y') BY <1>3 DEF CursorInv, CursorAt
<1>5. CursorInv' BY <1>1, <1>3, <1>4, Zenon DEF CursorInv
<1>6. smeared' \in BOOLEAN BY <1>1 DEF PointerInv
<1>7. PointerInv' BY <1>1, <1>6, Zenon DEF PointerInv, PointerCell
<1> QED BY <1>5, <1>7

(* The steps of kernelMain that touch no cell: only the cursor and the     *)
(* place count.                                                            *)
LEMMA ScreenKept ==
  ASSUME PointerInv, KeepScreen, main'.at # "store"
  PROVE  PointerInv' /\ strayed' = strayed
<1>1. swapped' = swapped /\ strayed' = strayed /\ pointer' = pointer /\ smeared' = smeared
  BY DEF KeepScreen, Keep
<1> QED BY <1>1, Zenon DEF PointerInv, PointerCell

LEMMA TextGoesOn ==
  ASSUME main \in Printfs, main.text # <<>>
  PROVE  LET m == [main EXCEPT !.at = "character", !.text = Tail(@)] IN
         m \in Printfs /\ m.at = "character"
<1>1. main.text \in Seq(Letters) BY DEF Printfs
<1>2. PICK text \in Seq(Letters) : text = main.text /\ text # <<>> BY <1>1
<1>3. PICK rest : rest = Tail(text) OBVIOUS
<1>4. rest \in Seq(Letters) BY <1>2, <1>3
<1>5. PICK m : m = [main EXCEPT !.at = "character", !.text = rest] OBVIOUS
<1>6. m \in Printfs /\ m.at = "character" BY <1>4, <1>5 DEF Printfs
<1>7. m = [main EXCEPT !.at = "character", !.text = Tail(@)] BY <1>2, <1>3, <1>5
<1> QED BY <1>6, <1>7, Zenon

(* One lemma for each statement of printf: the cursor and the colours are  *)
(* as CursorAt and PointerInv say of the next one.                         *)
LEMMA BeginStep ==
  ASSUME CursorInv, PointerInv, NEW text \in Texts, Begin(text)
  PROVE  CursorInv' /\ PointerInv'
<1>1. text \in Seq(Letters) BY ConsoleSizes
<1>2. main' = [main EXCEPT !.at = "character", !.text = text] /\ main.at = "idle"
  BY DEF Begin, At
<1>3. x' = x /\ y' = y /\ KeepScreen BY DEF Begin
<1>4. main' \in Printfs /\ main'.at = "character" BY <1>1, <1>2 DEF CursorInv, Printfs
<1>5. PointerInv' /\ strayed' = strayed BY <1>3, <1>4, ScreenKept
<1>6. CursorAt(main', x', y') BY <1>2, <1>3, <1>4 DEF CursorInv, CursorAt
<1> QED BY <1>3, <1>4, <1>5, <1>6, Zenon DEF CursorInv

LEMMA CharacterStep ==
  ASSUME CursorInv, PointerInv, Character
  PROVE  CursorInv' /\ PointerInv'
<1>1. main.at = "character" /\ x < Columns /\ y < Rows /\ main \in Printfs
  BY DEF CursorInv, CursorAt, Character, At
<1>2. y' = y /\ KeepScreen BY DEF Character
<1>3. Columns \in Nat /\ Columns >= 1 /\ Rows \in Nat BY ConsoleSizes
<1>4. CASE main.text = <<>>
  <2>1. main' = [main EXCEPT !.at = "idle"] /\ x' = x BY <1>4 DEF Character
  <2>2. main' \in Printfs /\ main'.at = "idle" BY <1>1, <2>1 DEF Printfs
  <2>3. CursorAt(main', x', y') BY <1>1, <1>2, <2>1, <2>2 DEF CursorAt
  <2>4. PointerInv' /\ strayed' = strayed BY <1>2, <2>2, ScreenKept
  <2> QED BY <1>2, <2>1, <2>2, <2>3, <2>4, Zenon DEF CursorInv
<1>5. CASE main.text # <<>>
  <2>1. PICK w \in {"row", "load"} : w = IF Head(main.text) = "newline" THEN "row" ELSE "load"
    OBVIOUS
  <2>2. main' = [main EXCEPT !.after = "wrap", !.at = w] BY <1>5, <2>1 DEF Character
  <2>3. /\ main' \in Printfs /\ main'.at = w /\ main'.after = "wrap" /\ main'.text = main.text
    BY <1>1, <2>2 DEF Printfs
  <2>4. x' \in 0..Columns /\ x' < Columns
    <3>1. x' = IF Head(main.text) = "newline" THEN 0 ELSE x BY <1>5 DEF Character
    <3> QED BY <1>1, <1>3, <3>1 DEF CursorInv
  <2>5. CursorAt(main', x', y') BY <1>1, <1>2, <1>5, <2>1, <2>3, <2>4 DEF CursorAt
  <2>6. PointerInv' /\ strayed' = strayed BY <1>2, <2>1, <2>3, ScreenKept
  <2> QED BY <1>2, <2>3, <2>4, <2>5, <2>6, Zenon DEF CursorInv
<1> QED BY <1>4, <1>5

LEMMA LoadStep ==
  ASSUME CursorInv, PointerInv, Load
  PROVE  CursorInv' /\ PointerInv'
<1>1. /\ main.at = "load" /\ x < Columns /\ y < Rows /\ main \in Printfs
      /\ main.after \in {"wrap", "columns"} /\ main.text # <<>>
  BY DEF CursorInv, CursorAt, Load, At
<1>2. PICK cell : cell = Cell(x, y) OBVIOUS
<1>3. cell \in 0..Cell(Columns, Rows) BY <1>2, CellBound DEF CursorInv
<1>4. PICK b \in BOOLEAN : b <=> cell \in swapped
  <2>1. CASE cell \in swapped
    <3>1. TRUE \in BOOLEAN /\ (TRUE <=> cell \in swapped) BY <2>1
    <3> QED BY <3>1, Zenon
  <2>2. CASE cell \notin swapped
    <3>1. FALSE \in BOOLEAN /\ (FALSE <=> cell \in swapped) BY <2>2
    <3> QED BY <3>1, Zenon
  <2> QED BY <2>1, <2>2
<1>5. main' = [main EXCEPT !.at = "store", !.cell = cell, !.colours = b]
  BY <1>2, <1>4, Zenon DEF Load
<1>6. x' = x /\ y' = y /\ swapped' = swapped /\ pointer' = pointer /\ smeared' = smeared
      /\ strayed' = strayed
  BY DEF Load, KeepScreen, Keep
<1>7. /\ main' \in Printfs /\ main'.at = "store" /\ main'.after = main.after
      /\ main'.text = main.text
  BY <1>1, <1>3, <1>5 DEF Printfs
<1>8. main'.cell = cell /\ main'.colours = b BY <1>1, <1>5, Zenon DEF Printfs
<1>9. CursorAt(main', x', y') BY <1>1, <1>6, <1>7 DEF CursorAt
<1>10. CursorInv' BY <1>6, <1>7, <1>9, Zenon DEF CursorInv
<1>11. PointerInv' BY <1>2, <1>4, <1>6, <1>8, Zenon DEF PointerInv, PointerCell
<1> QED BY <1>10, <1>11

LEMMA StoreStep ==
  ASSUME CursorInv, PointerInv, Store
  PROVE  CursorInv' /\ PointerInv'
<1>1. /\ main.at = "store" /\ x < Columns /\ y < Rows /\ main \in Printfs
      /\ main.after \in {"wrap", "columns"} /\ main.text # <<>>
  BY DEF CursorInv, CursorAt, Store, At
<1>2. PICK cell \in {main.cell, Cell(x, y)} :
        /\ swapped' = IF main.colours THEN swapped \cup {cell} ELSE swapped \ {cell}
        /\ strayed' = (strayed \/ Stray(cell))
  BY Zenon DEF Store
<1>3. /\ main' = [main EXCEPT !.at = "column", !.cell = 0, !.colours = FALSE]
      /\ x' = x /\ y' = y /\ pointer' = pointer /\ smeared' = smeared
  BY DEF Store, Keep
<1>4. Cell(x, y) \in 0..Cell(Columns, Rows) BY CellBound DEF CursorInv
<1>5. main.cell \in 0..Cell(Columns, Rows) BY <1>1 DEF Printfs
<1>6. ~Stray(cell)
  <2>1. cell \in 0..Cell(Columns, Rows) BY <1>2, <1>4, <1>5
  <2>3. PICK bound \in Nat : bound = Cell(Columns, Rows) BY LastCell
  <2>4. ~(cell > bound) BY <2>1, <2>3
  <2> QED BY <2>3, <2>4, Zenon DEF Stray
<1>7. strayed' = FALSE BY <1>2, <1>6 DEF CursorInv
<1>8. 0 \in 0..Cell(Columns, Rows) BY LastCell
<1>9. /\ main' \in Printfs /\ main'.at = "column" /\ main'.after = main.after
      /\ main'.text = main.text
  BY <1>1, <1>3, <1>8 DEF Printfs
<1>10. CursorAt(main', x', y') BY <1>1, <1>3, <1>9 DEF CursorAt
<1>11. CursorInv' BY <1>3, <1>7, <1>9, <1>10, Zenon DEF CursorInv
<1>12. swapped' \subseteq 0..Cell(Columns, Rows)
  <2>1. cell \in 0..Cell(Columns, Rows) BY <1>2, <1>4, <1>5
  <2> QED BY <1>2, <2>1 DEF PointerInv
<1>13. ASSUME ~smeared PROVE swapped' = {PointerCell}
  <2>1. /\ swapped = {PointerCell} /\ cell = main.cell
        /\ main.colours <=> main.cell \in swapped
    BY <1>1, <1>2, <1>13, Zenon DEF PointerInv
  <2>2. CASE main.colours BY <1>2, <2>1, <2>2, Zenon
  <2>3. CASE ~main.colours BY <1>2, <2>1, <2>3, Zenon
  <2> QED BY <2>2, <2>3
<1>14. main'.at # "store" BY <1>9
<1>15. PointerInv' BY <1>3, <1>12, <1>13, <1>14, Zenon DEF PointerInv, PointerCell
<1> QED BY <1>11, <1>15

LEMMA ReadColumnStep ==
  ASSUME CursorInv, PointerInv, ReadColumn
  PROVE  CursorInv' /\ PointerInv'
<1>1. /\ main.at = "column" /\ x < Columns /\ y < Rows /\ main \in Printfs
      /\ main.after \in {"wrap", "columns"} /\ main.text # <<>> /\ x \in Nat
  BY DEF CursorInv, CursorAt, ReadColumn, At
<1>2. main' = [main EXCEPT !.at = "nextColumn", !.register = x] BY DEF ReadColumn
<1>3. x' = x /\ y' = y /\ KeepScreen BY DEF ReadColumn
<1>4. /\ main' \in Printfs /\ main'.at = "nextColumn" /\ main'.after = main.after
      /\ main'.text = main.text /\ main'.register = x
  BY <1>1, <1>2 DEF Printfs
<1>5. CursorAt(main', x', y') BY <1>1, <1>3, <1>4 DEF CursorAt
<1>6. PointerInv' /\ strayed' = strayed BY <1>3, <1>4, ScreenKept
<1> QED BY <1>3, <1>4, <1>5, <1>6, Zenon DEF CursorInv

LEMMA WriteColumnStep ==
  ASSUME CursorInv, PointerInv, WriteColumn
  PROVE  CursorInv' /\ PointerInv'
<1>1. /\ main.at = "nextColumn" /\ y < Rows /\ main \in Printfs
      /\ main.after \in {"wrap", "columns"} /\ main.text # <<>>
      /\ main.register < Columns /\ main.register \in Nat
  BY DEF CursorInv, CursorAt, WriteColumn, At, Printfs
<1>2. main' = [main EXCEPT !.at = main.after, !.register = 0] BY DEF WriteColumn, Counted
<1>3. x' = main.register + 1 /\ y' = y /\ KeepScreen BY DEF WriteColumn
<1>4. /\ main' \in Printfs /\ main'.at = main.after /\ main'.text = main.text
  BY <1>1, <1>2 DEF Printfs
<1>5. x' \in 0..Columns BY <1>1, <1>3, ConsoleSizes
<1>6. CursorAt(main', x', y') BY <1>1, <1>3, <1>4 DEF CursorAt
<1>7. PointerInv' /\ strayed' = strayed BY <1>1, <1>3, <1>4, ScreenKept
<1> QED BY <1>3, <1>4, <1>5, <1>6, <1>7, Zenon DEF CursorInv

LEMMA ReadRowStep ==
  ASSUME CursorInv, PointerInv, ReadRow
  PROVE  CursorInv' /\ PointerInv'
<1>1. /\ main.at = "row" /\ y < Rows /\ main \in Printfs /\ main.text # <<>> /\ y \in Nat
      /\ main.after \in {"wrap", "full", "rows"} /\ (main.after = "rows" \/ x < Columns)
  BY DEF CursorInv, CursorAt, ReadRow, At
<1>2. main' = [main EXCEPT !.at = "nextRow", !.register = y] BY DEF ReadRow
<1>3. x' = x /\ y' = y /\ KeepScreen BY DEF ReadRow
<1>4. /\ main' \in Printfs /\ main'.at = "nextRow" /\ main'.after = main.after
      /\ main'.text = main.text /\ main'.register = y
  BY <1>1, <1>2 DEF Printfs
<1>5. CursorAt(main', x', y') BY <1>1, <1>3, <1>4 DEF CursorAt
<1>6. PointerInv' /\ strayed' = strayed BY <1>3, <1>4, ScreenKept
<1> QED BY <1>3, <1>4, <1>5, <1>6, Zenon DEF CursorInv

LEMMA WriteRowStep ==
  ASSUME CursorInv, PointerInv, WriteRow
  PROVE  CursorInv' /\ PointerInv'
<1>1. /\ main.at = "nextRow" /\ main \in Printfs /\ main.text # <<>>
      /\ main.after \in {"wrap", "full", "rows"} /\ (main.after = "rows" \/ x < Columns)
      /\ main.register < Rows /\ main.register \in Nat
  BY DEF CursorInv, CursorAt, WriteRow, At, Printfs
<1>2. main' = [main EXCEPT !.at = main.after, !.register = 0] BY DEF WriteRow, Counted
<1>3. y' = main.register + 1 /\ x' = x /\ KeepScreen BY DEF WriteRow
<1>4. /\ main' \in Printfs /\ main'.at = main.after /\ main'.text = main.text
  BY <1>1, <1>2 DEF Printfs
<1>5. y' \in 0..Rows BY <1>1, <1>3, ConsoleSizes
<1>6. CursorAt(main', x', y') BY <1>1, <1>3, <1>4 DEF CursorAt
<1>7. PointerInv' /\ strayed' = strayed BY <1>1, <1>3, <1>4, ScreenKept
<1> QED BY <1>3, <1>4, <1>5, <1>6, <1>7, Zenon DEF CursorInv

LEMMA WrapStep ==
  ASSUME CursorInv, PointerInv, Wrap
  PROVE  CursorInv' /\ PointerInv'
<1>1. /\ main.at = "wrap" /\ main \in Printfs /\ main.text # <<>>
      /\ x < Columns \/ y < Rows
      /\ x \in 0..Columns
  BY DEF CursorInv, CursorAt, Wrap, At
<1>2. y' = y /\ KeepScreen BY DEF Wrap
<1>3. Columns \in Nat /\ Columns >= 1 BY ConsoleSizes
<1>4. CASE x >= Columns
  <2>1. x' = 0 /\ main' = [main EXCEPT !.at = "row", !.after = "full"] BY <1>4 DEF Wrap
  <2>2. /\ main' \in Printfs /\ main'.at = "row" /\ main'.after = "full"
        /\ main'.text = main.text
    BY <1>1, <2>1 DEF Printfs
  <2>3. y < Rows BY <1>1, <1>3, <1>4
  <2>4. x' \in 0..Columns /\ x' < Columns BY <1>3, <2>1
  <2>5. CursorAt(main', x', y') BY <1>1, <1>2, <2>2, <2>3, <2>4 DEF CursorAt
  <2>6. PointerInv' /\ strayed' = strayed BY <1>2, <2>2, ScreenKept
  <2> QED BY <1>2, <2>2, <2>4, <2>5, <2>6, Zenon DEF CursorInv
<1>5. CASE ~(x >= Columns)
  <2>1. x' = x /\ main' = [main EXCEPT !.at = "full"] BY <1>5 DEF Wrap, GoTo
  <2>2. main' \in Printfs /\ main'.at = "full" /\ main'.text = main.text
    BY <1>1, <2>1 DEF Printfs
  <2>3. x' < Columns BY <1>1, <1>3, <1>5, <2>1
  <2>4. CursorAt(main', x', y') BY <1>1, <2>2, <2>3 DEF CursorAt
  <2>5. PointerInv' /\ strayed' = strayed BY <1>2, <2>2, ScreenKept
  <2> QED BY <1>2, <2>1, <2>2, <2>4, <2>5, Zenon DEF CursorInv
<1> QED BY <1>4, <1>5

LEMMA FullScreenStep ==
  ASSUME CursorInv, PointerInv, FullScreen
  PROVE  CursorInv' /\ PointerInv'
<1>1. /\ main.at = "full" /\ main \in Printfs /\ main.text # <<>> /\ x < Columns /\ y \in 0..Rows
  BY DEF CursorInv, CursorAt, FullScreen, At
<1>2. x' = x /\ KeepScreen BY DEF FullScreen
<1>3. Rows \in Nat /\ Rows >= 1 BY ConsoleSizes
<1>4. CASE y >= Rows
  <2>1. y' = 0 /\ main' = [main EXCEPT !.at = "rows"] BY <1>4 DEF FullScreen, GoTo
  <2>2. main' \in Printfs /\ main'.at = "rows" /\ main'.text = main.text
    BY <1>1, <2>1 DEF Printfs
  <2>3. y' \in 0..Rows BY <1>3, <2>1
  <2>4. CursorAt(main', x', y') BY <1>1, <2>2 DEF CursorAt
  <2>5. PointerInv' /\ strayed' = strayed BY <1>2, <2>2, ScreenKept
  <2> QED BY <1>2, <2>2, <2>3, <2>4, <2>5, Zenon DEF CursorInv
<1>5. CASE ~(y >= Rows)
  <2>1. y' = y /\ main' = [main EXCEPT !.at = "character", !.text = Tail(@)]
    BY <1>5 DEF FullScreen, NextCharacter
  <2>2. main' \in Printfs /\ main'.at = "character" BY <1>1, <2>1, TextGoesOn
  <2>3. y' < Rows BY <1>1, <1>3, <1>5, <2>1
  <2>4. CursorAt(main', x', y') BY <1>1, <1>2, <2>2, <2>3 DEF CursorAt
  <2>5. PointerInv' /\ strayed' = strayed BY <1>2, <2>2, ScreenKept
  <2> QED BY <1>2, <2>1, <2>2, <2>4, <2>5, Zenon DEF CursorInv
<1> QED BY <1>4, <1>5

LEMMA ClearStep ==
  ASSUME CursorInv, PointerInv, ClearRows \/ ClearColumns \/ Home
  PROVE  CursorInv' /\ PointerInv'
<1>1. Columns \in Nat /\ Columns >= 1 /\ Rows \in Nat /\ Rows >= 1 BY ConsoleSizes
<1>2. main \in Printfs /\ x \in 0..Columns /\ y \in 0..Rows BY DEF CursorInv
<1>3. CASE ClearRows
  <2>1. main.at = "rows" /\ main.text # <<>>
    BY <1>3 DEF ClearRows, At, CursorInv, CursorAt
  <2>2. x' = 0 /\ y' = y /\ KeepScreen BY <1>3 DEF ClearRows
  <2>3. PICK w \in {"columns", "home"} : w = (IF y < Rows THEN "columns" ELSE "home")
    OBVIOUS
  <2>4. main' = [main EXCEPT !.at = w] BY <1>3, <2>3 DEF ClearRows, GoTo
  <2>5. main' \in Printfs /\ main'.at = w /\ main'.text = main.text
    BY <1>2, <2>4 DEF Printfs
  <2>6. x' \in 0..Columns /\ x' < Columns /\ (w = "columns" => y < Rows) BY <1>1, <2>2, <2>3
  <2>7. CursorAt(main', x', y') BY <2>1, <2>2, <2>3, <2>5, <2>6 DEF CursorAt
  <2>8. PointerInv' /\ strayed' = strayed BY <2>2, <2>3, <2>5, ScreenKept
  <2> QED BY <2>2, <2>5, <2>6, <2>7, <2>8, Zenon DEF CursorInv
<1>4. CASE ClearColumns
  <2>1. main.at = "columns" /\ main.text # <<>> /\ y < Rows
    BY <1>4 DEF ClearColumns, At, CursorInv, CursorAt
  <2>2. x' = x /\ y' = y /\ KeepScreen BY <1>4 DEF ClearColumns
  <2>3. CASE x < Columns
    <3>1. main' = [main EXCEPT !.at = "load", !.after = "columns"] BY <1>4, <2>3 DEF ClearColumns
    <3>2. /\ main' \in Printfs /\ main'.at = "load" /\ main'.after = "columns"
          /\ main'.text = main.text
      BY <1>2, <3>1 DEF Printfs
    <3>3. CursorAt(main', x', y') BY <2>1, <2>2, <2>3, <3>2 DEF CursorAt
    <3>4. PointerInv' /\ strayed' = strayed BY <2>2, <3>2, ScreenKept
    <3> QED BY <2>2, <3>2, <3>3, <3>4, Zenon DEF CursorInv
  <2>4. CASE ~(x < Columns)
    <3>1. main' = [main EXCEPT !.at = "row", !.after = "rows"] BY <1>4, <2>4 DEF ClearColumns
    <3>2. /\ main' \in Printfs /\ main'.at = "row" /\ main'.after = "rows"
          /\ main'.text = main.text
      BY <1>2, <3>1 DEF Printfs
    <3>3. CursorAt(main', x', y') BY <2>1, <2>2, <3>2 DEF CursorAt
    <3>4. PointerInv' /\ strayed' = strayed BY <2>2, <3>2, ScreenKept
    <3> QED BY <2>2, <3>2, <3>3, <3>4, Zenon DEF CursorInv
  <2> QED BY <2>3, <2>4
<1>5. CASE Home
  <2>1. main.at = "home" /\ main.text # <<>> /\ x < Columns
    BY <1>5 DEF Home, At, CursorInv, CursorAt
  <2>2. /\ y' = 0 /\ x' = x /\ KeepScreen
        /\ main' = [main EXCEPT !.at = "character", !.text = Tail(@)]
    BY <1>5 DEF Home, NextCharacter
  <2>3. main' \in Printfs /\ main'.at = "character" BY <1>2, <2>1, <2>2, TextGoesOn
  <2>4. y' \in 0..Rows /\ y' < Rows BY <1>1, <2>2
  <2>5. CursorAt(main', x', y') BY <2>1, <2>2, <2>3, <2>4 DEF CursorAt
  <2>6. PointerInv' /\ strayed' = strayed BY <2>2, <2>3, ScreenKept
  <2> QED BY <2>2, <2>3, <2>4, <2>5, <2>6, Zenon DEF CursorInv
<1> QED BY <1>3, <1>4, <1>5

LEMMA PrintfStep ==
  ASSUME CursorInv, PointerInv, Printf
  PROVE  CursorInv' /\ PointerInv'
BY BeginStep, CharacterStep, LoadStep, StoreStep, ReadColumnStep, WriteColumnStep, ReadRowStep,
   WriteRowStep, WrapStep, FullScreenStep, ClearStep, Zenon DEF Printf

-----------------------------------------------------------------------------
(* All of it *)

DriverInv ==
  /\ coming \in Seq(0..255) /\ buffer \in Seq(0..255) /\ buttons \in 0..255
  /\ offset < Full /\ offset + Len(coming) \in {0, Full}

(* A dragged window is the one under the pointer, where the pointer took   *)
(* it, and button 1 is held, until a window gets between them.             *)
Follows ==
  \A i \in Window : screen.Dragging[i] =>
    /\ Holds(buttons, 1)
    /\ <<screen.x - screen.at[i][1], screen.y - screen.at[i][2]>> = grip[i]
    /\ Child(screen, screen.x, screen.y) = i

DesktopInv ==
  /\ screen \in Screens /\ covered \in BOOLEAN
  /\ covered \/ Follows
  /\ graphics \/ \A i \in Window : ~screen.Dragging[i]

IInv == DriverInv /\ DesktopInv /\ CursorInv /\ PointerInv

(* The invariant holds at the start,                                       *)
LEMMA InputInit == Init => IInv
<1> SUFFICES ASSUME Init PROVE IInv
  OBVIOUS
<1>1. DriverInv
  <2>1. coming = <<>> /\ buffer = <<>> /\ buttons = 0 BY DEF Init, DriverInit
  <2> QED BY <2>1 DEF DriverInv, offset, Full
<1>2. DesktopInv
  <2>1. /\ screen = [x |-> W \div 2, y |-> H \div 2,
                     at |-> [i \in Window |-> <<Windows[i].x, Windows[i].y>>],
                     Dragging |-> [i \in Window |-> FALSE]]
        /\ covered = FALSE
    BY DEF Init, DesktopInit
  <2>2. W \div 2 \in 0..(W - 1) /\ H \div 2 \in 0..(H - 1) BY ScreenSize
  <2>3. \A i \in Window : /\ Windows[i].x \in Int /\ Windows[i].y \in Int
                          /\ Windows[i].x + Windows[i].w < UintRange
                          /\ Windows[i].y + Windows[i].h < UintRange
    BY Sizes
  <2>4. PICK a : a = [i \in Window |-> <<Windows[i].x, Windows[i].y>>] OBVIOUS
  <2>5. /\ a \in [Window -> Int \X Int]
        /\ \A i \in Window : a[i][1] = Windows[i].x /\ a[i][2] = Windows[i].y
    BY <2>3, <2>4
  <2>6. screen = [x |-> W \div 2, y |-> H \div 2, at |-> a,
                  Dragging |-> [i \in Window |-> FALSE]]
    BY <2>1, <2>4
  <2>7. /\ screen \in [x : 0..(W - 1), y : 0..(H - 1),
                       at : [Window -> Int \X Int], Dragging : [Window -> BOOLEAN]]
        /\ screen.at = a /\ \A i \in Window : screen.Dragging[i] = FALSE
    BY <2>2, <2>5, <2>6
  <2>8. InReach(screen) BY <2>3, <2>5, <2>7 DEF InReach
  <2>9. screen \in Screens BY <2>7, <2>8, Zenon DEF Screens
  <2> QED BY <2>1, <2>7, <2>9 DEF DesktopInv, Follows
<1>3. /\ x = 0 /\ y = 0 /\ strayed = FALSE /\ smeared = FALSE
      /\ pointer = [x |-> Columns \div 2, y |-> Rows \div 2]
      /\ swapped = {Cell(Columns \div 2, Rows \div 2)}
      /\ main = [at |-> "idle", text |-> <<>>, after |-> "wrap",
                 cell |-> 0, colours |-> FALSE, register |-> 0]
  BY DEF Init, ConsoleInit
<1>4. Columns \in Nat /\ Columns >= 1 /\ Rows \in Nat /\ Rows >= 1 BY ConsoleSizes
<1>5. CursorInv
  <2>1. main \in Printfs /\ main.at = "idle" BY <1>3, LastCell DEF Printfs
  <2>2. x \in 0..Columns /\ y \in 0..Rows /\ x < Columns /\ y < Rows BY <1>3, <1>4
  <2>3. CursorAt(main, x, y) BY <2>1, <2>2 DEF CursorAt
  <2> QED BY <1>3, <2>1, <2>2, <2>3, Zenon DEF CursorInv
<1>6. PointerInv
  <2>1. PICK c, r : c = Columns \div 2 /\ r = Rows \div 2 OBVIOUS
  <2>2. c \in 0..(Columns - 1) /\ r \in 0..(Rows - 1) /\ c \in 0..Columns /\ r \in 0..Rows
    BY <1>4, <2>1
  <2>3. pointer \in Pointers /\ pointer.x = c /\ pointer.y = r BY <1>3, <2>1, <2>2 DEF Pointers
  <2>4. Cell(c, r) \in 0..Cell(Columns, Rows) BY <2>2, CellBound
  <2>5. swapped = {Cell(c, r)} BY <1>3, <2>1
  <2>6. main.at = "idle" BY <1>3
  <2> QED BY <1>3, <2>3, <2>4, <2>5, <2>6 DEF PointerInv, PointerCell
<1> QED BY <1>1, <1>2, <1>5, <1>6 DEF IInv

(* What has the places 1 to n is a sequence of length n.                   *)
LEMMA SeqOfLength ==
  ASSUME NEW S, NEW n \in Nat, NEW c \in [1..n -> S]
  PROVE  c \in Seq(S) /\ Len(c) = n
OBVIOUS

(* The mouse reports when its last packet has been read.                   *)
LEMMA ReportStep ==
  ASSUME DriverInv, Report
  PROVE  DriverInv' /\ buttons' = buttons
<1>1. coming = <<>> /\ coming' \in Reports /\ buffer' = buffer /\ buttons' = buttons
  BY DEF Report
<1>2. coming' \in [1..3 -> 0..255] BY <1>1, ReportsAssumption
<1>3. coming' \in Seq(0..255) /\ Len(coming') = 3
  <2>1. PICK c \in [1..3 -> 0..255] : c = coming' BY <1>2
  <2>2. c \in Seq(0..255) /\ Len(c) = 3 
    <3>1. PICK n \in Nat : n = 3 OBVIOUS
    <3>2. c \in [1..n -> 0..255] BY <3>1
    <3>3. c \in Seq(0..255) /\ Len(c) = n BY <3>2, SeqOfLength, Zenon
    <3> QED BY <3>1, <3>3, Zenon
  <2> QED BY <2>1, <2>2, Zenon
<1>4. offset = 0
  <2>1. Len(buffer) \in Nat /\ Len(buffer) < 3 BY DEF DriverInv, offset, Full
  <2>2. Len(coming) = 0 BY <1>1
  <2>3. Len(buffer) + Len(coming) \in {0, 3} BY DEF DriverInv, offset, Full
  <2>4. PICK n \in Nat : n = Len(buffer) BY <2>1
  <2>5. n < 3 /\ (n + 0 = 0 \/ n + 0 = 3) BY <2>1, <2>2, <2>3, <2>4, Zenon
  <2>6. n = 0 BY <2>5
  <2> QED BY <2>4, <2>6 DEF offset
<1>5. offset' = 0 BY <1>1, <1>4 DEF offset
<1> QED BY <1>1, <1>3, <1>4, <1>5 DEF DriverInv, Full

(* What the interrupt for a byte leaves, and the calls it makes.           *)
LEMMA ReadByteStep ==
  ASSUME DriverInv, ReadByte
  PROVE  DriverInv' /\ CallsFor(Calls, buttons, buttons')
<1>1. PICK packet : packet = Append(buffer, Head(coming)) OBVIOUS
<1>2. /\ coming # <<>> /\ coming' = Tail(coming)
      /\ IF offset + 1 = Full THEN buffer' = <<>> /\ buttons' = packet[1]
         ELSE buffer' = packet /\ buttons' = buttons
  BY <1>1, Zenon DEF ReadByte
<1>3. /\ coming \in Seq(0..255) /\ buffer \in Seq(0..255) /\ buttons \in 0..255
      /\ Len(buffer) < 3 /\ Len(buffer) + Len(coming) \in {0, 3} /\ Len(buffer) \in Nat
  BY DEF DriverInv, offset, Full
<1>4. Head(coming) \in 0..255 /\ coming' \in Seq(0..255) /\ Len(coming') = Len(coming) - 1
  <2>1. PICK c \in Seq(0..255) : c = coming /\ c # <<>> BY <1>2, <1>3
  <2>2. Head(c) \in 0..255 /\ Tail(c) \in Seq(0..255) /\ Len(Tail(c)) = Len(c) - 1
    BY <2>1, HeadTailProperties, Zenon
  <2> QED BY <1>2, <2>1, <2>2, Zenon
<1>5. packet \in Seq(0..255) /\ Len(packet) = Len(buffer) + 1 BY <1>1, <1>3, <1>4
<1>6. Len(coming) \in Nat /\ Len(coming) # 0 BY <1>2, <1>3
<1>7. CASE offset + 1 = Full
  <2>1. Len(packet) = 3 /\ Len(buffer) = 2
    <3>1. Len(buffer) + 1 = 3 BY <1>7 DEF offset, Full
    <3>2. PICK n \in Nat : n = Len(buffer) BY <1>3
    <3>3. n = 2 BY <3>1, <3>2
    <3> QED BY <1>5, <3>2, <3>3
  <2>2. buffer' = <<>> /\ buttons' = packet[1] BY <1>2, <1>7
  <2>3. packet[1] \in 0..255
    <3>1. 1 \in 1..Len(packet) BY <2>1
    <3> QED BY <1>5, <3>1, ElementOfSeq, Zenon
  <2>4. CallsFor(Events(buttons, packet), buttons, packet[1]) BY <1>5, <2>1, EventsCalls
  <2>5. Calls = Events(buttons, packet) BY <1>1, <1>7, Zenon DEF Calls
  <2>6. CallsFor(Calls, buttons, buttons') BY <2>2, <2>4, <2>5, Zenon
  <2>7. Len(coming') = 0 BY <1>3, <1>4, <1>6, <2>1
  <2>8. buffer' \in Seq(0..255) /\ Len(buffer') = 0 BY <2>2
  <2>9. DriverInv' BY <1>4, <2>2, <2>3, <2>7, <2>8 DEF DriverInv, offset, Full
  <2> QED BY <2>6, <2>9
<1>8. CASE offset + 1 # Full
  <2>1. buffer' = packet /\ buttons' = buttons BY <1>2, <1>8
  <2>2. Len(buffer) < 2 BY <1>3, <1>8 DEF offset, Full
  <2>3. Calls = <<>> BY <1>8, Zenon DEF Calls
  <2>4. CallsFor(<<>>, buttons, buttons)
    <3>1. <<>> \in Seq(Call) /\ Len(<<>>) = 0 /\ 1..0 = {} OBVIOUS
    <3> QED BY <3>1 DEF CallsFor
  <2>5. CallsFor(Calls, buttons, buttons') BY <2>1, <2>3, <2>4, Zenon
  <2>6. DriverInv'
    <3>1. Len(buffer') < 3 /\ Len(buffer') + Len(coming') \in {0, 3}
      BY <1>3, <1>4, <1>5, <1>6, <2>1, <2>2
    <3> QED BY <1>3, <1>4, <1>5, <2>1, <3>1 DEF DriverInv, offset, Full
  <2> QED BY <2>5, <2>6
<1> QED BY <1>7, <1>8

(* The calls of a packet on the desktop.                                   *)
LEMMA DesktopHandled ==
  ASSUME DesktopInv, graphics, graphics' = graphics, NEW calls,
         CallsFor(calls, buttons, buttons'), DesktopHandles(calls)
  PROVE  DesktopInv'
<1>1. PICK s : s = screen OBVIOUS
<1>2. PICK t : t = FoldLeft(Handled, s, calls) OBVIOUS
<1>3. PICK old, new : old = buttons /\ new = buttons' OBVIOUS
<1>4. /\ screen' = t
      /\ grip' = [i \in Window |->
                    IF ~t.Dragging[i] THEN <<0, 0>>
                    ELSE IF s.Dragging[i] THEN grip[i]
                    ELSE <<t.x - t.at[i][1], t.y - t.at[i][2]>>]
      /\ covered' = (covered \/ \E i \in Window : t.Dragging[i] /\ Child(t, t.x, t.y) # i)
  BY <1>1, <1>2, Zenon DEF DesktopHandles
<1>5. s \in Screens /\ CallsFor(calls, old, new) BY <1>1, <1>3 DEF DesktopInv
<1>6. /\ t \in Screens
      /\ \A i \in Window : s.Dragging[i] /\ Child(s, s.x, s.y) = i =>
           t.x - t.at[i][1] = s.x - s.at[i][1] /\ t.y - t.at[i][2] = s.y - s.at[i][2]
      /\ \A i \in Window : t.Dragging[i] /\ Child(t, t.x, t.y) = i =>
           Holds(new, 1) \/ (s.Dragging[i] /\ (Holds(old, 1) => Holds(new, 1)))
  BY <1>2, <1>5, PacketHandled
<1>7. covered' \in BOOLEAN BY <1>4 DEF DesktopInv
<1>8. ASSUME ~covered' PROVE Follows'
  <2>1. ~covered /\ \A i \in Window : t.Dragging[i] => Child(t, t.x, t.y) = i BY <1>4, <1>8
  <2>2. Follows BY <2>1 DEF DesktopInv
  <2>3. ASSUME NEW i \in Window, t.Dragging[i]
        PROVE  /\ Holds(new, 1)
               /\ <<t.x - t.at[i][1], t.y - t.at[i][2]>> = grip'[i]
               /\ Child(t, t.x, t.y) = i
    <3>1. Child(t, t.x, t.y) = i BY <2>1, <2>3
    <3>2. Holds(new, 1)
      <4>1. s.Dragging[i] => Holds(old, 1) BY <1>1, <1>3, <2>2, Zenon DEF Follows
      <4> QED BY <1>6, <2>3, <3>1, <4>1, Zenon
    <3>3. CASE s.Dragging[i]
      <4>1. grip'[i] = grip[i] BY <1>4, <2>3, <3>3, Zenon
      <4>2. grip[i] = <<s.x - s.at[i][1], s.y - s.at[i][2]>> /\ Child(s, s.x, s.y) = i
        BY <1>1, <2>2, <3>3, Zenon DEF Follows
      <4>3. t.x - t.at[i][1] = s.x - s.at[i][1] /\ t.y - t.at[i][2] = s.y - s.at[i][2]
        BY <1>6, <3>3, <4>2, Zenon
      <4> QED BY <3>1, <3>2, <4>1, <4>2, <4>3, Zenon
    <3>4. CASE ~s.Dragging[i]
      <4>1. grip'[i] = <<t.x - t.at[i][1], t.y - t.at[i][2]>> BY <1>4, <2>3, <3>4, Zenon
      <4> QED BY <3>1, <3>2, <4>1
    <3> QED BY <3>3, <3>4
  <2> QED BY <1>3, <1>4, <2>3, Zenon DEF Follows
<1> QED BY <1>4, <1>6, <1>7, <1>8, Zenon DEF DesktopInv

(* and every step of the mouse, the windows and printf keeps it.           *)
LEMMA InputNext == IInv /\ [Next]_vars => IInv'
<1> SUFFICES ASSUME IInv, [Next]_vars PROVE IInv'
  OBVIOUS
<1>1. DriverInv /\ DesktopInv /\ CursorInv /\ PointerInv BY DEF IInv
<1>2. ASSUME UNCHANGED consoleVars PROVE CursorInv' /\ PointerInv'
  BY <1>1, <1>2, Zenon DEF consoleVars, CursorInv, PointerInv, PointerCell
<1>3. ASSUME UNCHANGED desktopVars, graphics' = graphics,
             buttons' = buttons \/ ~graphics
      PROVE  DesktopInv'
  <2>1. screen' = screen /\ grip' = grip /\ covered' = covered BY <1>3 DEF desktopVars
  <2>2. CASE buttons' = buttons
    BY <1>1, <1>3, <2>1, <2>2, Zenon DEF DesktopInv, Follows
  <2>3. CASE ~graphics
    BY <1>1, <1>3, <2>1, <2>3, Zenon DEF DesktopInv, Follows
  <2> QED BY <1>3, <2>2, <2>3
<1>4. CASE MouseReports
  <2>1. Report /\ graphics' = graphics /\ UNCHANGED desktopVars /\ UNCHANGED consoleVars
    BY <1>4 DEF MouseReports
  <2>2. DriverInv' /\ buttons' = buttons BY <1>1, <2>1, ReportStep
  <2> QED BY <1>2, <1>3, <2>1, <2>2 DEF IInv
<1>5. CASE MouseInterrupt
  <2>1. /\ ReadByte /\ graphics' = graphics
        /\ IF graphics THEN DesktopHandles(Calls) /\ UNCHANGED consoleVars
           ELSE ConsoleHandles(Calls) /\ UNCHANGED desktopVars
    BY <1>5 DEF MouseInterrupt
  <2>2. DriverInv' /\ CallsFor(Calls, buttons, buttons') BY <1>1, <2>1, ReadByteStep
  <2>3. CASE graphics
    <3>1. DesktopInv' BY <1>1, <2>1, <2>2, <2>3, DesktopHandled, Zenon
    <3> QED BY <1>2, <2>1, <2>2, <2>3, <3>1 DEF IInv
  <2>4. CASE ~graphics
    <3>1. Calls \in Seq(Call) BY <2>2, Zenon DEF CallsFor
    <3>2. CursorInv' /\ PointerInv' BY <1>1, <2>1, <2>4, <3>1, ConsoleHandled
    <3> QED BY <1>3, <2>1, <2>2, <2>4, <3>2 DEF IInv
  <2> QED BY <2>3, <2>4
<1>6. CASE TextScreen
  <2>1. /\ Key \/ Data \/ Printf
        /\ graphics' = graphics /\ UNCHANGED driver /\ UNCHANGED desktopVars
    BY <1>6 DEF TextScreen
  <2>2. coming' = coming /\ buffer' = buffer /\ buttons' = buttons BY <2>1 DEF driver
  <2>3. DriverInv' BY <1>1, <2>2 DEF DriverInv, offset
  <2>4. CASE Key
    <3>1. PICK key \in Keys : Prints(Printed(key)) BY <2>4 DEF Key
    <3>2. CursorInv' /\ PointerInv' BY <1>1, <3>1, PrintedLetters, PrintsHandled
    <3> QED BY <1>3, <2>1, <2>2, <2>3, <3>2 DEF IInv
  <2>5. CASE Data
    <3>1. PICK text \in Received : Prints(text) BY <2>5 DEF Data
    <3>2. text \in Seq(Letters) BY ConsoleSizes
    <3>3. CursorInv' /\ PointerInv' BY <1>1, <3>1, <3>2, PrintsHandled
    <3> QED BY <1>3, <2>1, <2>2, <2>3, <3>3 DEF IInv
  <2>6. CASE Printf
    <3>1. CursorInv' /\ PointerInv' BY <1>1, <2>6, PrintfStep
    <3> QED BY <1>3, <2>1, <2>2, <2>3, <3>1 DEF IInv
  <2> QED BY <2>1, <2>4, <2>5, <2>6
<1>7. CASE UNCHANGED vars
  <2>1. /\ graphics' = graphics /\ UNCHANGED driver
        /\ UNCHANGED desktopVars /\ UNCHANGED consoleVars
    BY <1>7 DEF vars
  <2>2. coming' = coming /\ buffer' = buffer /\ buttons' = buttons BY <2>1 DEF driver
  <2>3. DriverInv' BY <1>1, <2>2 DEF DriverInv, offset
  <2> QED BY <1>2, <1>3, <2>1, <2>2, <2>3 DEF IInv
<1> QED BY <1>4, <1>5, <1>6, <1>7 DEF Next

(* The driver and the mouse agree where a packet starts, both pointers     *)
(* stay on their screens, and what is written of colours stays near them.  *)
THEOREM InputTypes == Spec => []TypeOK
<1>1. IInv => TypeOK
  <2> SUFFICES ASSUME IInv PROVE TypeOK
    OBVIOUS
  <2>1. /\ buffer \in Seq(0..255) /\ buttons \in 0..255 /\ offset + Len(coming) \in {0, Full}
    BY DEF IInv, DriverInv
  <2>2. /\ screen.x \in 0..(W - 1) /\ screen.y \in 0..(H - 1)
        /\ screen.at \in [Window -> Int \X Int] /\ screen.Dragging \in [Window -> BOOLEAN]
    BY DEF IInv, DesktopInv, Screens
  <2>3. /\ pointer.x \in 0..(Columns - 1) /\ pointer.y \in 0..(Rows - 1)
        /\ swapped \subseteq 0..Cell(Columns, Rows)
    BY DEF IInv, PointerInv, Pointers
  <2> QED BY <2>1, <2>2, <2>3, Zenon DEF TypeOK
<1> QED BY <1>1, InputInit, InputNext, PTL DEF Spec

(* Window::OnMouseDown to OnMouseUp, desktop.cpp: a dragged window keeps   *)
(* its place under the pointer, alone and while button 1 is held.          *)
THEOREM DragFollows == Spec => []DragFollowsPointer
<1>1. IInv => DragFollowsPointer
  <2> SUFFICES ASSUME IInv, ~covered, NEW i \in Window, screen.Dragging[i]
               PROVE  /\ Holds(buttons, 1)
                      /\ <<screen.x - screen.at[i][1], screen.y - screen.at[i][2]>> = grip[i]
                      /\ \A j \in Window \ {i} : ~screen.Dragging[j]
    BY DEF DragFollowsPointer
  <2>1. Follows BY DEF IInv, DesktopInv
  <2> QED BY <2>1, Zenon DEF Follows
<1> QED BY <1>1, InputInit, InputNext, PTL DEF Spec

(* CompositeWidget: what is drawn in front is what gets the events, as far *)
(* as it is drawn.                                                         *)
THEOREM DrawnClicked == Spec => []DrawnWhereClicked
<1>1. IInv => DrawnWhereClicked
  <2> SUFFICES ASSUME IInv, NEW X \in 0..(W - 1), NEW Y \in 0..(H - 1),
                      NEW i, i = Child(screen, X, Y),
                      ~(i # 0 /\ (screen.at[i][1] < 0 \/ screen.at[i][2] < 0))
               PROVE  Seen(screen, X, Y) = i
    BY Zenon DEF DrawnWhereClicked
  <2>1. X \in Nat /\ Y \in Nat BY ScreenSize
  <2>2. PICK s : s = screen OBVIOUS
  <2>3. s \in Screens BY <2>2 DEF IInv, DesktopInv
  <2>4. i \in {0} \cup Window BY ChildIs
  <2>5. i # 0 => s.at[i][1] \in Int /\ s.at[i][2] \in Int BY <2>3, <2>4 DEF Screens
  <2>6. i # 0 => s.at[i][1] >= 0 /\ s.at[i][2] >= 0 BY <2>2, <2>5
  <2> QED BY <2>1, <2>2, <2>3, <2>6, ScreensDrawn
<1> QED BY <1>1, InputInit, InputNext, PTL DEF Spec

(* printf: wherever kernelMain is interrupted in it and by whatever, the   *)
(* cursor comes back to the screen and no character goes far behind it.    *)
THEOREM CursorReturns == Spec => []CursorComesBack
<1>1. IInv => CursorComesBack
  <2> SUFFICES ASSUME IInv PROVE CursorComesBack
    OBVIOUS
  <2>1. x \in 0..Columns /\ y \in 0..Rows /\ strayed = FALSE BY DEF IInv, CursorInv
  <2>2. main.at = "idle" => x < Columns /\ y < Rows BY DEF IInv, CursorInv, CursorAt
  <2>3. Columns \in Nat /\ Rows \in Nat BY ConsoleSizes
  <2> QED BY <2>1, <2>2, <2>3 DEF CursorComesBack
<1> QED BY <1>1, InputInit, InputNext, PTL DEF Spec

(* MouseToConsole: one cell shows the pointer, unless kernelMain was       *)
(* interrupted between reading the colours of a cell and writing them.     *)
THEOREM PointerShows == Spec => []OnePointer
<1>1. IInv => OnePointer BY Zenon DEF IInv, PointerInv, PointerCell, OnePointer
<1> QED BY <1>1, InputInit, InputNext, PTL DEF Spec
=============================================================================
