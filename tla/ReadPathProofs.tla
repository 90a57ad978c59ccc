--------------------------- MODULE ReadPathProofs ---------------------------
(***************************************************************************)
(* A read that succeeds returns the bytes it asked for, up to where TorBox *)
(* has cut a block short: for every file length, block size, set of reads  *)
(* under way, size of a read, and number of retired URLs and failures.     *)
(***************************************************************************)
EXTENDS ReadPath, TLAPS

(***************************************************************************)
(* ReturnsWhatTorBoxSent speaks of finished reads only.  What makes it     *)
(* inductive: the buffer always holds the bytes from the offset up to the  *)
(* position (Gathered); what is stored of a block or handed from a leader  *)
(* to its waiters is all that TorBox has of it, or the block is one it has *)
(* cut short, or else the loop would stop early (AsSent); and the leader   *)
(* that the table names for a block is fetching that block, so that a      *)
(* waiter is given no other one's answer (CallTable).                      *)
(***************************************************************************)
Fetching == {"resolve", "ask", "remember", "range", "publish", "leave"}
Reading == {"block", "join", "wait"} \cup Fetching

GatheredBy(r) ==
  /\ off[r] <= pos[r] /\ pos[r] <= off[r] + size[r]
  /\ pos[r] = off[r] \/ pos[r] <= FileLen
  /\ out[r] = Bytes(off[r], pos[r])
  /\ pc[r] \in Reading \cup {"invalidate"} => pos[r] < off[r] + size[r]
  /\ pc[r] = "done" =>
       pos[r] = off[r] + size[r] \/ pos[r] >= FileLen \/ BlockAt(pos[r]) \in cut

Gathered == \A r \in Readers : GatheredBy(r)

CallTable ==
  \A b \in Blocks : inflight[b] # NoCall =>
    pc[inflight[b]] \in Fetching /\ Block(inflight[b]) = b

\* n bytes are what TorBox sends of block b, if c are those it cuts short.
Sent(c, b, n) ==
  /\ Start(b) < FileLen /\ n \in 0 .. LenOf(b)
  /\ n = LenOf(b) \/ b \in c

AsSent ==
  /\ \A b \in Blocks : cached[b] > 0 => Sent(cut, b, cached[b])
  /\ \A r \in Readers : pc[r] \in {"wait", "publish", "leave"} /\ ans[r] >= 0
       => Sent(cut, Block(r), ans[r])

IInv == TypeOK /\ Gathered /\ CallTable /\ AsSent

-----------------------------------------------------------------------------
(* Blocks and bytes *)

\* A position lies in the block at it.
LEMMA BlockBounds ==
  ASSUME NEW p \in Nat
  PROVE  /\ BlockAt(p) \in Nat
         /\ Start(BlockAt(p)) <= p /\ p < Start(BlockAt(p)) + BlockSize
         /\ Start(BlockAt(p)) \in Nat
  BY SizesAssumption DEF BlockAt, Start

\* Positions between the bounds of a block have that block.
LEMMA SameBlock ==
  ASSUME NEW p \in Nat, NEW q \in Nat,
         Start(BlockAt(p)) <= q, q < Start(BlockAt(p)) + BlockSize
  PROVE  BlockAt(q) = BlockAt(p)
<1> DEFINE b == BlockAt(p)
           c == BlockAt(q)
<1>1. b \in Nat /\ c \in Nat /\ BlockSize \in Nat \ {0}
  BY BlockBounds, SizesAssumption
<1>2. c * BlockSize <= q /\ q < c * BlockSize + BlockSize
  BY BlockBounds DEF Start
<1>3. b * BlockSize <= q /\ q < b * BlockSize + BlockSize
  BY DEF Start
<1> HIDE DEF b, c
<1>4. ASSUME NEW i \in Nat, NEW j \in Nat, i < j
      PROVE  i * BlockSize + BlockSize <= j * BlockSize
  <2>1. i + 1 <= j /\ (i + 1) * BlockSize = i * BlockSize + BlockSize
    BY <1>1, <1>4
  <2>2. (i + 1) * BlockSize <= j * BlockSize
    BY <1>1, <2>1
  <2> QED
    BY <2>1, <2>2
<1>5. ~(b < c) /\ ~(c < b)
  <2>1. b * BlockSize \in Nat /\ c * BlockSize \in Nat
    BY <1>1
  <2> QED
    BY <1>1, <1>2, <1>3, <1>4, <2>1
<1>6. b = c
  BY <1>1, <1>5
<1> QED
  BY <1>6 DEF b, c

\* The position of a read lies in one of the blocks.
LEMMA BlockExists ==
  ASSUME NEW p \in 0 .. FileLen + BlockSize
  PROVE  BlockAt(p) \in Blocks
<1>1. p \div BlockSize \in Nat /\ (FileLen + BlockSize) \div BlockSize \in Nat
  BY SizesAssumption
<1>2. p \div BlockSize <= (FileLen + BlockSize) \div BlockSize
  BY SizesAssumption
<1> QED
  BY <1>1, <1>2 DEF BlockAt, Blocks

LEMMA BlockTyped ==
  ASSUME TypeOK, Gathered, NEW r \in Readers
  PROVE  Block(r) \in Blocks /\ pos[r] \in 0 .. FileLen + BlockSize
<1>1. pos[r] \in Nat /\ off[r] \in 0 .. FileLen + BlockSize
  BY DEF TypeOK
<1>2. pos[r] = off[r] \/ pos[r] <= FileLen
  BY DEF Gathered, GatheredBy
<1>3. pos[r] \in 0 .. FileLen + BlockSize
  BY <1>1, <1>2, SizesAssumption
<1> QED
  BY <1>3, BlockExists DEF Block

\* Bytes go on where they end, and lie in the file if their end does.
LEMMA BytesAppended ==
  ASSUME NEW m \in Nat, NEW n \in Nat, NEW k \in Nat, m <= n
  PROVE  Bytes(m, n) \o Bytes(n, n + k) = Bytes(m, n + k)
<1>1. Len(Bytes(m, n)) = n - m /\ Bytes(m, n) \in Seq(Int)
  BY DEF Bytes
<1>2. Bytes(n, n + k) \in Seq(Int) /\ Len(Bytes(n, n + k)) = k
  BY DEF Bytes
<1> QED
  BY <1>1, <1>2 DEF Bytes

LEMMA BytesTyped ==
  ASSUME NEW m \in Nat, NEW n \in Nat, n = m \/ n <= FileLen
  PROVE  Bytes(m, n) \in Seq(0 .. FileLen - 1)
  BY SizesAssumption DEF Bytes

\* The loop body appends the bytes of the block, and stops only at the end of
\* what was asked or of the file, or in a block that was cut short.
LEMMA TakeGathers ==
  ASSUME TypeOK, Gathered, NEW r \in Readers, pos[r] < off[r] + size[r],
         NEW n, Sent(cut, Block(r), n), Take(r, Block(r), n), UNCHANGED <<off, size, cut>>
  PROVE  /\ pc' = [pc EXCEPT ![r] = pc'[r]] /\ pc'[r] \in {"block", "done"}
         /\ pos' = [pos EXCEPT ![r] = pos'[r]] /\ out' = [out EXCEPT ![r] = out'[r]]
         /\ pos'[r] \in Nat /\ GatheredBy(r)'
<1> DEFINE b == Block(r)
           k == Smaller(n - (pos[r] - Start(b)), off[r] + size[r] - pos[r])
<1>1. /\ pos[r] \in Nat /\ off[r] \in Nat /\ size[r] \in Nat
      /\ BlockSize \in Nat \ {0} /\ FileLen \in Nat \ {0}
  BY SizesAssumption DEF TypeOK
<1>2. Start(b) \in Nat /\ Start(b) <= pos[r] /\ pos[r] < Start(b) + BlockSize
  BY <1>1, BlockBounds DEF Block
<1>3. /\ off[r] <= pos[r]
      /\ pos[r] = off[r] \/ pos[r] <= FileLen
      /\ out[r] = Bytes(off[r], pos[r])
  BY DEF Gathered, GatheredBy
<1>4. /\ n \in Nat /\ n <= BlockSize /\ Start(b) + n <= FileLen
      /\ n = BlockSize \/ Start(b) + n = FileLen \/ b \in cut
  <2>1. Start(b) < FileLen /\ n \in 0 .. LenOf(b) /\ (n = LenOf(b) \/ b \in cut)
    BY DEF Sent, b
  <2>2. LenOf(b) \in Nat /\ LenOf(b) = IF BlockSize < FileLen - Start(b) THEN BlockSize
                                       ELSE FileLen - Start(b)
    BY <1>1, <1>2, <2>1 DEF LenOf, Smaller
  <2> HIDE DEF b
  <2> QED
    BY <1>1, <1>2, <2>1, <2>2
<1>5. pc \in [Readers -> Places] /\ pos \in [Readers -> Nat]
      /\ out \in [Readers -> Seq(0 .. FileLen - 1)]
  BY DEF TypeOK
<1>6. ASSUME NEW q \in Nat, Start(b) <= q, q < Start(b) + BlockSize, b \in cut
      PROVE  BlockAt(q) \in cut
  BY <1>1, <1>6, SameBlock DEF Block
<1> HIDE DEF b
<1>7. CASE pos[r] - Start(b) >= n
  <2>1. pc' = [pc EXCEPT ![r] = "done"] /\ pos' = pos /\ out' = out
    BY <1>7 DEF Take, Goto, b
  <2>2. pos[r] >= FileLen \/ BlockAt(pos[r]) \in cut
    <3>1. n # BlockSize /\ (Start(b) + n = FileLen => pos[r] >= FileLen)
      BY <1>1, <1>2, <1>4, <1>7
    <3> QED
      BY <1>1, <1>2, <1>4, <1>6, <3>1
  <2>3. off'[r] = off[r] /\ size'[r] = size[r] /\ pc'[r] = "done"
        /\ pos'[r] = pos[r] /\ out'[r] = out[r] /\ cut' = cut
    BY <1>5, <2>1
  <2>4. GatheredBy(r)'
    BY <1>1, <1>3, <2>2, <2>3 DEF GatheredBy, Reading, Fetching
  <2> QED
    BY <1>1, <1>5, <2>1, <2>3, <2>4
<1>8. CASE pos[r] - Start(b) < n
  <2>1. k \in Nat \ {0} /\ pos[r] + k <= off[r] + size[r] /\ pos[r] + k <= FileLen
    BY <1>1, <1>2, <1>4, <1>8 DEF Smaller
  <2>2. pos[r] + k = off[r] + size[r] \/ pos[r] + k = Start(b) + n
    BY <1>1, <1>2, <1>4 DEF Smaller
  <2> HIDE DEF k
  <2>3. /\ out' = [out EXCEPT ![r] = out[r] \o Bytes(pos[r], pos[r] + k)]
        /\ pos' = [pos EXCEPT ![r] = pos[r] + k]
        /\ pc' = [pc EXCEPT ![r] = IF n < BlockSize \/ pos[r] + k >= off[r] + size[r]
                                   THEN "done" ELSE "block"]
    <3>1. ~(pos[r] - Start(b) >= n)
      BY <1>1, <1>2, <1>4, <1>8
    <3> QED
      BY <3>1 DEF Take, Goto, Set, b, k
  <2>4. out'[r] = Bytes(off[r], pos[r] + k)
    <3>1. out'[r] = Bytes(off[r], pos[r]) \o Bytes(pos[r], pos[r] + k)
      BY <1>3, <1>5, <2>3
    <3> QED
      BY <3>1, <1>1, <1>3, <2>1, BytesAppended
  <2>5. pos'[r] = pos[r] + k /\ pos'[r] \in Nat
        /\ pc'[r] = IF n < BlockSize \/ pos[r] + k >= off[r] + size[r]
                    THEN "done" ELSE "block"
    BY <1>1, <1>5, <2>1, <2>3
  <2>6. GatheredBy(r)'
    <3>1. off'[r] = off[r] /\ size'[r] = size[r] /\ cut' = cut
      OBVIOUS
    <3>2. off[r] <= pos'[r] /\ pos'[r] <= off[r] + size[r] /\ pos'[r] <= FileLen
      BY <1>1, <1>3, <2>1, <2>5
    <3>3. pc'[r] # "done" => pos'[r] < off[r] + size[r]
      BY <1>1, <2>1, <2>5
    <3>4. ASSUME pc'[r] = "done", pos'[r] # off[r] + size[r]
          PROVE  pos'[r] >= FileLen \/ BlockAt(pos'[r]) \in cut
      <4>1. n < BlockSize /\ pos'[r] = Start(b) + n
        BY <1>1, <1>2, <1>4, <2>1, <2>2, <2>5, <3>4
      <4> QED
        BY <1>1, <1>2, <1>4, <1>6, <2>5, <4>1
    <3>5. out'[r] = Bytes(off[r], pos'[r])
      BY <2>4, <2>5
    <3> QED
      BY <3>1, <3>2, <3>3, <3>4, <3>5 DEF GatheredBy, Reading, Fetching
  <2> QED
    BY <1>5, <2>3, <2>5, <2>6
<1> QED
  BY <1>1, <1>2, <1>4, <1>7, <1>8

\* No answer, an error, and a block of any length are answers.
LEMMA AnswersTyped ==
  /\ None \in Answers /\ Expired \in Answers /\ Other \in Answers
  /\ (\A a \in Answers : a \in Int) /\ 0 .. BlockSize \subseteq Answers
  /\ None < 0 /\ Expired < 0 /\ Other < 0
  BY SizesAssumption DEF Answers, None, Expired, Other

LEMMA AnswerTyped ==
  ASSUME TypeOK, NEW r \in Readers
  PROVE  ans[r] \in Answers
  BY DEF TypeOK

\* An answer that a read receives, of any kind, keeps what it has gathered.
LEMMA ReceiveGathers ==
  ASSUME TypeOK, Gathered, NEW r \in Readers, pc[r] \in Reading, NEW a \in Answers,
         a >= 0 => Sent(cut, Block(r), a),
         Receive(r, a), UNCHANGED <<off, size, cut>>
  PROVE  /\ pc' = [pc EXCEPT ![r] = pc'[r]]
         /\ pc'[r] \in {"block", "done", "invalidate", "eio"}
         /\ pos' = [pos EXCEPT ![r] = pos'[r]] /\ out' = [out EXCEPT ![r] = out'[r]]
         /\ pos'[r] \in Nat /\ GatheredBy(r)'
<1>1. pos[r] < off[r] + size[r]
  BY DEF Gathered, GatheredBy
<1>2. CASE a >= 0
  <2>1. Take(r, Block(r), a)
    BY <1>2 DEF Receive, Expired
  <2> QED
    BY <1>1, <1>2, <2>1, TakeGathers
<1>3. CASE ~(a >= 0)
  <2>1. pos' = pos /\ out' = out
        /\ \E place \in {"invalidate", "eio"} : pc' = [pc EXCEPT ![r] = place]
    BY <1>3 DEF Receive, Goto
  <2> QED
    BY <1>1, <2>1 DEF TypeOK, Gathered, GatheredBy
<1> QED
  BY <1>2, <1>3
\* The request of a leader ends with an error, or with what TorBox has sent of
\* the block, which is stored unless it is nothing.
LEMMA RangeSettles ==
  ASSUME TypeOK, NEW r \in Readers, ReadRange(r), Block(r) \in Blocks
  PROVE  /\ pc' = [pc EXCEPT ![r] = "publish"] /\ url' = [url EXCEPT ![r] = NoUrl]
         /\ cut \subseteq cut'
         /\ \E a \in Answers :
              /\ ans' = [ans EXCEPT ![r] = a]
              /\ a < 0 => cached' = cached
              /\ a >= 0 => /\ Sent(cut', Block(r), a) /\ a \in 0 .. BlockSize
                           /\ cached' \in {cached, [cached EXCEPT ![Block(r)] = a]}
<1> DEFINE b == Block(r)
<1>1. /\ BlockSize \in Nat \ {0} /\ FileLen \in Nat \ {0} /\ Start(b) \in Nat
  BY SizesAssumption, BlockBounds DEF TypeOK, Block
<1>2. Start(b) < FileLen => LenOf(b) \in 0 .. BlockSize
  BY <1>1 DEF LenOf, Smaller
<1>3. CASE \E a \in {Expired, Other} : Settle(r, a) /\ UNCHANGED <<cached, cut>>
  <2>1. PICK a \in {Expired, Other} : Settle(r, a) /\ UNCHANGED <<cached, cut>>
    BY <1>3
  <2>2. a \in Answers /\ a < 0 /\ ~(a >= 0)
    BY AnswersTyped
  <2> QED
    BY <2>1, <2>2 DEF Settle, Goto, Set
<1>4. ASSUME NEW n \in 0 .. BlockSize, Store(r, n), cut \subseteq cut', Sent(cut', b, n)
      PROVE  /\ pc' = [pc EXCEPT ![r] = "publish"] /\ url' = [url EXCEPT ![r] = NoUrl]
             /\ n \in Answers /\ ans' = [ans EXCEPT ![r] = n] /\ ~(n < 0)
             /\ cached' \in {cached, [cached EXCEPT ![b] = n]}
  BY <1>4, AnswersTyped DEF Store, Settle, Goto, Set
<1>5. CASE Start(b) < FileLen /\ Store(r, LenOf(b)) /\ UNCHANGED cut
  <2>1. LenOf(b) \in 0 .. BlockSize /\ Sent(cut', b, LenOf(b))
    BY <1>1, <1>2, <1>5 DEF Sent
  <2> QED
    BY <1>4, <1>5, <2>1
<1>6. CASE Start(b) < FileLen /\ cut' = cut \cup {b} /\ \E n \in 0 .. LenOf(b) - 1 : Store(r, n)
  <2>1. PICK n \in 0 .. LenOf(b) - 1 : Store(r, n)
    BY <1>6
  <2>2. n \in 0 .. BlockSize /\ n \in 0 .. LenOf(b)
    BY <1>1, <1>2, <1>6
  <2>3. Sent(cut', b, n) /\ cut \subseteq cut'
    BY <1>6, <2>2 DEF Sent
  <2> QED
    BY <1>4, <2>1, <2>2, <2>3
<1> QED
  BY <1>3, <1>5, <1>6 DEF ReadRange

-----------------------------------------------------------------------------
(* The invariant *)

\* Nothing has been read at first.
LEMMA InitIInv == Init => IInv
<1> SUFFICES ASSUME Init PROVE IInv
  OBVIOUS
<1> USE SizesAssumption, BoundsAssumption DEF Init
<1>1. TypeOK
  BY DEF TypeOK, Places, NoUrl, Answers, Other, None
<1>2. Gathered
  <2> SUFFICES ASSUME NEW r \in Readers PROVE GatheredBy(r)
    BY DEF Gathered
  <2>1. Bytes(0, 0) = <<>>
    BY DEF Bytes
  <2> QED
    BY <2>1 DEF GatheredBy, Reading, Fetching
<1>3. CallTable /\ AsSent
  BY DEF CallTable, AsSent
<1> QED
  BY <1>1, <1>2, <1>3 DEF IInv

\* Where every read stands is kept: a read that has moved has gathered right,
\* the others have not moved.
LEMMA GatheredOne ==
  ASSUME Gathered, NEW r \in Readers, GatheredBy(r)',
         cut \subseteq cut',
         \A q \in Readers \ {r} : /\ off'[q] = off[q] /\ size'[q] = size[q] /\ pos'[q] = pos[q]
                                 /\ out'[q] = out[q] /\ pc'[q] = pc[q]
  PROVE  Gathered'
  BY DEF Gathered, GatheredBy

\* A read that goes on to another place of its loop, or fails, has gathered
\* what it had.
LEMMA GatheredMoves ==
  ASSUME TypeOK, Gathered, NEW r \in Readers, pc[r] \in Reading,
         NEW place \in Reading \cup {"eio"}, pc' = [pc EXCEPT ![r] = place],
         UNCHANGED <<off, size, pos, out>>, cut \subseteq cut'
  PROVE  Gathered'
<1>1. pc \in [Readers -> Places] /\ "eio" \notin Reading /\ "done" \notin Reading
  BY DEF TypeOK, Reading, Fetching
<1> QED
  BY <1>1 DEF Gathered, GatheredBy

\* Every step keeps in the buffers what was asked for, so far.
LEMMA GatheredStep == IInv /\ [Next]_vars => Gathered'
<1> SUFFICES ASSUME IInv, [Next]_vars PROVE Gathered'
  OBVIOUS
<1> USE DEF IInv, Goto, Set, loop
<1>1. ASSUME NEW r \in Readers, Begin(r) PROVE Gathered'
  <2>1. PICK o \in 0 .. FileLen + BlockSize - 1, n \in Sizes :
           /\ off' = [off EXCEPT ![r] = o]
           /\ size' = [size EXCEPT ![r] = IF ~known THEN n ELSE IF o >= FileLen THEN 0
                                          ELSE Smaller(n, FileLen - o)]
           /\ pc' = [pc EXCEPT ![r] = IF known /\ o >= FileLen THEN "done" ELSE "block"]
           /\ pos' = [pos EXCEPT ![r] = o] /\ out' = [out EXCEPT ![r] = <<>>]
           /\ cut' = cut
    BY <1>1 DEF Begin, Restart
  <2>2. /\ off'[r] = o /\ pos'[r] = o /\ out'[r] = <<>>
        /\ pc'[r] = IF known /\ o >= FileLen THEN "done" ELSE "block"
        /\ size'[r] = IF ~known THEN n ELSE IF o >= FileLen THEN 0 ELSE Smaller(n, FileLen - o)
    BY <2>1 DEF TypeOK
  <2>3. Bytes(o, o) = <<>> /\ o \in Nat /\ n \in Nat \ {0} /\ FileLen \in Nat
    BY SizesAssumption DEF Bytes
  <2>4. GatheredBy(r)'
    BY <2>2, <2>3 DEF GatheredBy, Smaller, Reading, Fetching
  <2> QED
    BY <2>1, <2>4, GatheredOne
<1>2. ASSUME NEW r \in Readers, Cancel(r) PROVE Gathered'
  <2>1. GatheredBy(r)' /\ pc' = [pc EXCEPT ![r] = pc'[r]]
        /\ pos' = [pos EXCEPT ![r] = pos'[r]] /\ out' = [out EXCEPT ![r] = out'[r]]
    <3>1. Expired \in Answers /\ ~(Expired >= 0) /\ pc[r] \in Reading
      BY <1>2, AnswersTyped DEF Cancel, Reading
    <3> QED
      BY <1>2, <3>1, ReceiveGathers DEF Cancel
  <2> QED
    BY <1>2, <2>1, GatheredOne DEF Cancel, TypeOK
<1>3. ASSUME NEW r \in Readers, ReadCached(r) PROVE Gathered'
  <2>1. CASE cached[Block(r)] > 0 /\ Take(r, Block(r), cached[Block(r)])
    <3>1. Sent(cut, Block(r), cached[Block(r)]) /\ pos[r] < off[r] + size[r]
      BY <1>3, <2>1, BlockTyped DEF ReadCached, AsSent, Gathered, GatheredBy, Reading
    <3> QED
      BY <1>3, <2>1, <3>1, TakeGathers, GatheredOne DEF ReadCached, TypeOK
  <2>2. CASE pc' = [pc EXCEPT ![r] = "join"] /\ UNCHANGED <<pos, out>>
    BY <1>3, <2>2, GatheredMoves DEF ReadCached, Reading
  <2> QED
    BY <1>3, <2>1, <2>2 DEF ReadCached
<1>4. ASSUME NEW r \in Readers, Join(r) PROVE Gathered'
  BY <1>4, GatheredMoves DEF Join, Reading, Fetching
<1>5. ASSUME NEW r \in Readers, Wake(r) PROVE Gathered'
  BY <1>5, ReceiveGathers, AnswerTyped, GatheredOne DEF Wake, Reading, AsSent, TypeOK
<1>6. ASSUME NEW r \in Readers, Resolve(r) PROVE Gathered'
  BY <1>6, GatheredMoves DEF Resolve, Reading, Fetching
<1>7. ASSUME NEW r \in Readers, AskUrl(r) PROVE Gathered'
  BY <1>7, GatheredMoves DEF AskUrl, Settle, Reading, Fetching
<1>8. ASSUME NEW r \in Readers, Remember(r) PROVE Gathered'
  BY <1>8, GatheredMoves DEF Remember, Reading, Fetching
<1>9. ASSUME NEW r \in Readers, ReadRange(r) PROVE Gathered'
  BY <1>9, GatheredMoves, RangeSettles, BlockTyped DEF ReadRange, Reading, Fetching
<1>10. ASSUME NEW r \in Readers, Publish(r) PROVE Gathered'
  BY <1>10, GatheredMoves DEF Publish, Reading, Fetching
<1>11. ASSUME NEW r \in Readers, Leave(r) PROVE Gathered'
  <2>1. GatheredBy(r)' /\ pc' = [pc EXCEPT ![r] = pc'[r]]
        /\ pos' = [pos EXCEPT ![r] = pos'[r]] /\ out' = [out EXCEPT ![r] = out'[r]]
    BY <1>11, ReceiveGathers, AnswerTyped DEF Leave, Reading, Fetching, AsSent
  <2> QED
    BY <1>11, <2>1, GatheredOne DEF Leave, TypeOK
<1>12. ASSUME NEW r \in Readers, Invalidate(r) PROVE Gathered'
  <2>1. off'[r] = off[r] /\ size'[r] = size[r] /\ pos'[r] = off[r] /\ out'[r] = <<>>
        /\ pc'[r] = "block"
    BY <1>12 DEF Invalidate, Restart, TypeOK
  <2>2. off[r] \in Nat /\ size[r] \in Nat /\ pos[r] \in Nat
    BY SizesAssumption DEF TypeOK
  <2>3. off[r] <= pos[r] /\ pos[r] < off[r] + size[r]
    BY <1>12 DEF Invalidate, Gathered, GatheredBy
  <2>4. Bytes(off[r], off[r]) = <<>>
    BY <2>2 DEF Bytes
  <2>5. GatheredBy(r)'
    BY <2>1, <2>2, <2>3, <2>4 DEF GatheredBy
  <2> QED
    BY <1>12, <2>5, GatheredOne DEF Invalidate, Restart, TypeOK
<1>13. CASE Evict
  BY <1>13 DEF Evict, Gathered, GatheredBy
<1>14. CASE Ttl
  BY <1>14 DEF Ttl, Gathered, GatheredBy
<1>15. CASE Retire
  BY <1>15 DEF Retire, Gathered, GatheredBy
<1>16. CASE UNCHANGED vars
  BY <1>16 DEF vars, Gathered, GatheredBy
<1> QED
  BY <1>1, <1>2, <1>3, <1>4, <1>5, <1>6, <1>7, <1>8,
     <1>9, <1>10, <1>11, <1>12, <1>13, <1>14, <1>15, <1>16
     DEF Next, Progress

\* A read that receives an answer stays within its types.
LEMMA ReceiveTyped ==
  ASSUME TypeOK, Gathered, NEW r \in Readers,
         pc' = [pc EXCEPT ![r] = pc'[r]],
         pc'[r] \in {"block", "done", "invalidate", "eio"},
         pos' = [pos EXCEPT ![r] = pos'[r]], out' = [out EXCEPT ![r] = out'[r]],
         pos'[r] \in Nat, GatheredBy(r)', off' = off
  PROVE  /\ pc' \in [Readers -> Places] /\ pos' \in [Readers -> Nat]
         /\ out' \in [Readers -> Seq(0 .. FileLen - 1)]
<1>1. off'[r] \in Nat
  BY SizesAssumption DEF TypeOK
<1>2. out'[r] = Bytes(off'[r], pos'[r]) /\ (pos'[r] = off'[r] \/ pos'[r] <= FileLen)
  BY DEF GatheredBy
<1>3. out'[r] \in Seq(0 .. FileLen - 1)
  BY <1>1, <1>2, BytesTyped
<1>4. pc \in [Readers -> Places] /\ pos \in [Readers -> Nat] /\ pc'[r] \in Places
  BY DEF TypeOK, Places
<1>5. out \in [Readers -> Seq(0 .. FileLen - 1)]
  BY DEF TypeOK
<1> QED
  BY <1>3, <1>4, <1>5 DEF Places

\* No URL, and the one that TorBox serves.
LEMMA UrlsTyped ==
  ASSUME TypeOK
  PROVE  NoUrl \in NoUrl .. MaxExpiries /\ origin \in NoUrl .. MaxExpiries
  BY BoundsAssumption DEF TypeOK, NoUrl

\* Every step keeps the types.
LEMMA TypeStep == IInv /\ [Next]_vars => TypeOK'
<1> SUFFICES ASSUME IInv, [Next]_vars PROVE TypeOK'
  OBVIOUS
<1> USE SizesAssumption, BoundsAssumption DEF IInv, TypeOK, Places, Goto, Set, loop
<1>1. ASSUME NEW r \in Readers, Begin(r) PROVE TypeOK'
  <2>1. PICK o \in 0 .. FileLen + BlockSize - 1, n \in Sizes :
           /\ off' = [off EXCEPT ![r] = o]
           /\ size' = [size EXCEPT ![r] = IF ~known THEN n ELSE IF o >= FileLen THEN 0
                                          ELSE Smaller(n, FileLen - o)]
           /\ pc' = [pc EXCEPT ![r] = IF known /\ o >= FileLen THEN "done" ELSE "block"]
           /\ pos' = [pos EXCEPT ![r] = o] /\ out' = [out EXCEPT ![r] = <<>>]
           /\ cut' = cut
    BY <1>1 DEF Begin, Restart
  <2>2. o \in Nat /\ n \in Nat /\ o \in 0 .. FileLen + BlockSize
        /\ (o < FileLen => Smaller(n, FileLen - o) \in Nat)
    BY DEF Smaller
  <2>3. off' \in [Readers -> 0 .. FileLen + BlockSize] /\ pos' \in [Readers -> Nat]
    BY <2>1, <2>2
  <2>4. (IF ~known THEN n ELSE IF o >= FileLen THEN 0 ELSE Smaller(n, FileLen - o)) \in Nat
    BY <2>2
  <2>5. size' \in [Readers -> Nat] /\ out' \in [Readers -> Seq(0 .. FileLen - 1)]
    BY <2>1, <2>4
  <2>6. attempt' = [attempt EXCEPT ![r] = 1] /\ ans' = [ans EXCEPT ![r] = None]
        /\ url' = [url EXCEPT ![r] = NoUrl]
    BY <1>1 DEF Begin
  <2>7. attempt' \in [Readers -> {1, 2}] /\ ans' \in [Readers -> Answers]
        /\ url' \in [Readers -> NoUrl .. MaxExpiries]
    BY <2>6, UrlsTyped, AnswersTyped
  <2>8. pc' \in [Readers -> Places]
    BY <2>1
  <2> QED
    BY <1>1, <2>3, <2>5, <2>7, <2>8 DEF Begin
<1>2. ASSUME NEW r \in Readers, Cancel(r) PROVE TypeOK'
  <2>1. /\ pc' \in [Readers -> Places] /\ pos' \in [Readers -> Nat]
        /\ out' \in [Readers -> Seq(0 .. FileLen - 1)]
    <3>1. Expired \in Answers /\ ~(Expired >= 0) /\ pc[r] \in Reading
      BY <1>2, AnswersTyped DEF Cancel, Reading
    <3> QED
      BY <1>2, <3>1, ReceiveGathers, ReceiveTyped DEF Cancel
  <2>2. ans' = [ans EXCEPT ![r] = None] /\ faults' \in 0 .. MaxFaults
    BY <1>2 DEF Cancel
  <2>3. ans' \in [Readers -> Answers]
    BY <2>2, AnswersTyped
  <2> QED
    BY <1>2, <2>1, <2>2, <2>3 DEF Cancel
<1>3. ASSUME NEW r \in Readers, ReadCached(r) PROVE TypeOK'
  <2>1. CASE cached[Block(r)] > 0 /\ Take(r, Block(r), cached[Block(r)])
    <3>1. Sent(cut, Block(r), cached[Block(r)]) /\ pos[r] < off[r] + size[r]
      BY <1>3, <2>1, BlockTyped DEF ReadCached, AsSent, Gathered, GatheredBy, Reading
    <3>2. /\ pc' \in [Readers -> Places] /\ pos' \in [Readers -> Nat]
          /\ out' \in [Readers -> Seq(0 .. FileLen - 1)]
      BY <1>3, <2>1, <3>1, TakeGathers, ReceiveTyped DEF ReadCached
    <3> QED
      BY <1>3, <3>2 DEF ReadCached
  <2>2. CASE pc' = [pc EXCEPT ![r] = "join"] /\ UNCHANGED <<pos, out>>
    BY <1>3, <2>2 DEF ReadCached
  <2> QED
    BY <1>3, <2>1, <2>2 DEF ReadCached
<1>4. ASSUME NEW r \in Readers, Join(r) PROVE TypeOK'
  <2>1. Block(r) \in Blocks
    BY BlockTyped
  <2>2. pc' \in [Readers -> Places]
    BY <1>4 DEF Join
  <2>3. inflight' \in [Blocks -> Readers \cup {NoCall}]
    <3>1. inflight' = inflight \/ inflight' = [inflight EXCEPT ![Block(r)] = r]
      BY <1>4 DEF Join
    <3> QED
      BY <3>1, <2>1
  <2>4. ASSUME NEW leader \in Readers
        PROVE  (IF pc[leader] = "leave" THEN ans[leader] ELSE None)
                 \in Answers
    BY AnswersTyped
  <2>5. inflight[Block(r)] \in Readers \cup {NoCall}
    BY <2>1
  <2>6. \E a \in Answers : ans' = [ans EXCEPT ![r] = a]
    BY <1>4, <2>4, <2>5 DEF Join
  <2>7. ans' \in [Readers -> Answers]
    BY <2>6
  <2> QED
    BY <1>4, <2>2, <2>3, <2>7 DEF Join
<1>5. ASSUME NEW r \in Readers, Wake(r) PROVE TypeOK'
  <2>1. /\ pc' \in [Readers -> Places] /\ pos' \in [Readers -> Nat]
        /\ out' \in [Readers -> Seq(0 .. FileLen - 1)]
    BY <1>5, ReceiveGathers, AnswerTyped, ReceiveTyped DEF Wake, Reading, AsSent
  <2> QED
    BY <1>5, <2>1, AnswersTyped DEF Wake
<1>6. ASSUME NEW r \in Readers, Resolve(r) PROVE TypeOK'
  <2>1. pc' \in [Readers -> Places]
    BY <1>6 DEF Resolve
  <2>2. url' \in [Readers -> NoUrl .. MaxExpiries]
    BY <1>6 DEF Resolve
  <2> QED
    BY <1>6, <2>1, <2>2 DEF Resolve
<1>7. ASSUME NEW r \in Readers, AskUrl(r) PROVE TypeOK'
  <2>1. pc' \in [Readers -> Places]
    BY <1>7 DEF AskUrl, Settle
  <2>2. url' \in [Readers -> NoUrl .. MaxExpiries]
    <3>1. \E u \in NoUrl .. MaxExpiries : url' = [url EXCEPT ![r] = u]
      BY <1>7, UrlsTyped DEF AskUrl, Settle
    <3> QED
      BY <3>1
  <2>3. ans' \in [Readers -> Answers]
    <3>1. ans' = ans \/ ans' = [ans EXCEPT ![r] = Expired]
      BY <1>7 DEF AskUrl, Settle
    <3> QED
      BY <3>1, AnswersTyped
  <2>4. faults' \in 0 .. MaxFaults
    BY <1>7 DEF AskUrl, Fault
  <2> QED
    BY <1>7, <2>1, <2>2, <2>3, <2>4 DEF AskUrl
<1>8. ASSUME NEW r \in Readers, Remember(r) PROVE TypeOK'
  BY <1>8 DEF Remember
<1>9. ASSUME NEW r \in Readers, ReadRange(r) PROVE TypeOK'
  <2>1. Block(r) \in Blocks
    BY BlockTyped
  <2>2. pc' = [pc EXCEPT ![r] = "publish"] /\ url' = [url EXCEPT ![r] = NoUrl]
    BY <1>9, <2>1, RangeSettles
  <2>3. PICK a \in Answers :
          /\ ans' = [ans EXCEPT ![r] = a]
          /\ a < 0 => cached' = cached
          /\ a >= 0 => a \in 0 .. BlockSize
                      /\ cached' \in {cached, [cached EXCEPT ![Block(r)] = a]}
    BY <1>9, <2>1, RangeSettles
  <2>4. cached' \in [Blocks -> 0 .. BlockSize] /\ ans' \in [Readers -> Answers]
    <3>1. a < 0 \/ a >= 0
      BY AnswersTyped
    <3> QED
      BY <2>1, <2>3, <3>1
  <2>5. cut' \subseteq Blocks
    BY <1>9, <2>1 DEF ReadRange
  <2>6. faults' \in 0 .. MaxFaults
    BY <1>9 DEF ReadRange, Fault
  <2> QED
    <3>1. pc' \in [Readers -> Places] /\ url' \in [Readers -> NoUrl .. MaxExpiries]
      BY <2>2, UrlsTyped
    <3> QED
      BY <1>9, <2>4, <2>5, <2>6, <3>1 DEF ReadRange
<1>10. ASSUME NEW r \in Readers, Publish(r) PROVE TypeOK'
  BY <1>10 DEF Publish
<1>11. ASSUME NEW r \in Readers, Leave(r) PROVE TypeOK'
  <2>1. /\ pc' \in [Readers -> Places] /\ pos' \in [Readers -> Nat]
        /\ out' \in [Readers -> Seq(0 .. FileLen - 1)]
    BY <1>11, ReceiveGathers, AnswerTyped, ReceiveTyped DEF Leave, Reading, Fetching, AsSent
  <2>2. Block(r) \in Blocks
    BY BlockTyped
  <2> QED
    BY <1>11, <2>1, <2>2, AnswersTyped DEF Leave
<1>12. ASSUME NEW r \in Readers, Invalidate(r) PROVE TypeOK'
  <2>1. attempt' = [attempt EXCEPT ![r] = 2] /\ pos' = [pos EXCEPT ![r] = off[r]]
        /\ pc' = [pc EXCEPT ![r] = "block"] /\ out' = [out EXCEPT ![r] = <<>>]
    BY <1>12 DEF Invalidate, Restart
  <2>2. off[r] \in Nat
    OBVIOUS
  <2>3. attempt' \in [Readers -> {1, 2}] /\ pos' \in [Readers -> Nat] /\ pc' \in [Readers -> Places]
    BY <2>1, <2>2
  <2>4. out' \in [Readers -> Seq(0 .. FileLen - 1)]
    BY <2>1
  <2> QED
    BY <1>12, <2>3, <2>4, UrlsTyped DEF Invalidate
<1>13. CASE Evict
  BY <1>13 DEF Evict
<1>14. CASE Ttl
  BY <1>14, UrlsTyped DEF Ttl
<1>15. CASE Retire
  BY <1>15 DEF Retire
<1>16. CASE UNCHANGED vars
  BY <1>16 DEF vars
<1> QED
  BY <1>1, <1>2, <1>3, <1>4, <1>5, <1>6, <1>7, <1>8,
     <1>9, <1>10, <1>11, <1>12, <1>13, <1>14, <1>15, <1>16
     DEF Next, Progress

\* The table of calls is kept by a read that is no leader, and by a leader that
\* stays at its block.
LEMMA CallKept ==
  ASSUME TypeOK, CallTable, inflight' = inflight, NEW r \in Readers,
         pc[r] \in Fetching => pc'[r] \in Fetching /\ pos'[r] = pos[r],
         \A q \in Readers \ {r} : pc'[q] = pc[q] /\ pos'[q] = pos[q]
  PROVE  CallTable'
<1> SUFFICES ASSUME NEW b \in Blocks, inflight[b] # NoCall
             PROVE  pc'[inflight[b]] \in Fetching /\ Block(inflight[b])' = b
  BY DEF CallTable
<1>1. inflight[b] \in Readers /\ pc[inflight[b]] \in Fetching /\ Block(inflight[b]) = b
  BY DEF TypeOK, CallTable
<1>2. pc'[inflight[b]] \in Fetching /\ pos'[inflight[b]] = pos[inflight[b]]
  BY <1>1
<1> QED
  BY <1>1, <1>2 DEF Block

\* Every step keeps each call in the hands of a leader at its block.
LEMMA CallStep == IInv /\ [Next]_vars => CallTable'
<1> SUFFICES ASSUME IInv, [Next]_vars PROVE CallTable'
  OBVIOUS
<1> USE DEF IInv, Goto, Set, loop
<1>1. ASSUME NEW r \in Readers, Begin(r) PROVE CallTable'
  BY <1>1, CallKept DEF Begin, Restart, TypeOK, Fetching
<1>2. ASSUME NEW r \in Readers, Cancel(r) PROVE CallTable'
  <2>1. pc' = [pc EXCEPT ![r] = pc'[r]] /\ pos' = [pos EXCEPT ![r] = pos'[r]]
        /\ pc'[r] \in {"block", "done", "invalidate", "eio"}
    BY <1>2, ReceiveGathers, AnswersTyped DEF Cancel, Reading
  <2> QED
    BY <1>2, <2>1, CallKept DEF Cancel, Fetching, TypeOK
<1>3. ASSUME NEW r \in Readers, ReadCached(r) PROVE CallTable'
  <2>1. CASE cached[Block(r)] > 0 /\ Take(r, Block(r), cached[Block(r)])
    <3>1. Sent(cut, Block(r), cached[Block(r)]) /\ pos[r] < off[r] + size[r]
      BY <1>3, <2>1, BlockTyped DEF ReadCached, AsSent, Gathered, GatheredBy, Reading
    <3> QED
      BY <1>3, <2>1, <3>1, TakeGathers, CallKept DEF ReadCached, Fetching, TypeOK
  <2>2. CASE pc' = [pc EXCEPT ![r] = "join"] /\ UNCHANGED <<pos, out>>
    BY <1>3, <2>2, CallKept DEF ReadCached, Fetching, TypeOK
  <2> QED
    BY <1>3, <2>1, <2>2 DEF ReadCached
<1>4. ASSUME NEW r \in Readers, Join(r) PROVE CallTable'
  <2>1. CASE inflight[Block(r)] = NoCall
    <3>1. /\ inflight' = [inflight EXCEPT ![Block(r)] = r]
          /\ pc' = [pc EXCEPT ![r] = "resolve"] /\ pos' = pos
      BY <1>4, <2>1 DEF Join
    <3> QED
      BY <1>4, <3>1 DEF Join, CallTable, TypeOK, Fetching, Block
  <2>2. CASE inflight[Block(r)] # NoCall
    BY <1>4, <2>2, CallKept DEF Join, TypeOK, Fetching
  <2> QED
    BY <2>1, <2>2
<1>5. ASSUME NEW r \in Readers, Wake(r) PROVE CallTable'
  <2>1. pc' = [pc EXCEPT ![r] = pc'[r]] /\ pos' = [pos EXCEPT ![r] = pos'[r]]
        /\ pc'[r] \in {"block", "done", "invalidate", "eio"}
    BY <1>5, ReceiveGathers, AnswerTyped DEF Wake, Reading, AsSent
  <2> QED
    BY <1>5, <2>1, CallKept DEF Wake, Fetching, TypeOK
<1>6. ASSUME NEW r \in Readers, Resolve(r) PROVE CallTable'
  BY <1>6, CallKept DEF Resolve, TypeOK, Fetching
<1>7. ASSUME NEW r \in Readers, AskUrl(r) PROVE CallTable'
  BY <1>7, CallKept DEF AskUrl, Settle, TypeOK, Fetching
<1>8. ASSUME NEW r \in Readers, Remember(r) PROVE CallTable'
  BY <1>8, CallKept DEF Remember, TypeOK, Fetching
<1>9. ASSUME NEW r \in Readers, ReadRange(r) PROVE CallTable'
  BY <1>9, CallKept, RangeSettles, BlockTyped DEF ReadRange, TypeOK, Fetching
<1>10. ASSUME NEW r \in Readers, Publish(r) PROVE CallTable'
  BY <1>10, CallKept DEF Publish, TypeOK, Fetching
<1>11. ASSUME NEW r \in Readers, Leave(r) PROVE CallTable'
  <2>1. /\ inflight' = [inflight EXCEPT ![Block(r)] = NoCall]
        /\ pc' = [pc EXCEPT ![r] = pc'[r]] /\ pos' = [pos EXCEPT ![r] = pos'[r]]
    BY <1>11, ReceiveGathers, AnswerTyped DEF Leave, Reading, Fetching, AsSent, TypeOK
  <2> SUFFICES ASSUME NEW b \in Blocks, inflight'[b] # NoCall
               PROVE  pc'[inflight'[b]] \in Fetching /\ Block(inflight[b])' = b
    BY DEF CallTable
  <2>2. b # Block(r) /\ inflight'[b] = inflight[b]
    BY <2>1 DEF TypeOK
  <2>3. /\ inflight[b] \in Readers /\ pc[inflight[b]] \in Fetching
        /\ Block(inflight[b]) = b
    BY <2>2 DEF TypeOK, CallTable
  <2>4. pc'[inflight[b]] = pc[inflight[b]] /\ pos'[inflight[b]] = pos[inflight[b]]
    BY <2>1, <2>2, <2>3 DEF TypeOK
  <2> QED
    BY <2>2, <2>3, <2>4 DEF Block
<1>12. ASSUME NEW r \in Readers, Invalidate(r) PROVE CallTable'
  BY <1>12, CallKept DEF Invalidate, Restart, TypeOK, Fetching
<1>13. CASE Evict
  BY <1>13 DEF Evict, CallTable, Block
<1>14. CASE Ttl
  BY <1>14 DEF Ttl, CallTable, Block
<1>15. CASE Retire
  BY <1>15 DEF Retire, CallTable, Block
<1>16. CASE UNCHANGED vars
  BY <1>16 DEF vars, CallTable, Block
<1> QED
  BY <1>1, <1>2, <1>3, <1>4, <1>5, <1>6, <1>7, <1>8,
     <1>9, <1>10, <1>11, <1>12, <1>13, <1>14, <1>15, <1>16
     DEF Next, Progress

\* What TorBox has sent stays sent.
LEMMA SentStays ==
  ASSUME NEW c, NEW d, c \subseteq d, NEW b, NEW n, Sent(c, b, n)
  PROVE  Sent(d, b, n)
  BY DEF Sent

LEMMA StoredKept ==
  ASSUME AsSent, cached' = cached, cut \subseteq cut', NEW b \in Blocks, cached'[b] > 0
  PROVE  Sent(cut', b, cached'[b])
  BY SentStays DEF AsSent

\* Whatever a read does alone keeps the other reads' answers.
LEMMA AnswersKept ==
  ASSUME AsSent, NEW r \in Readers, cut \subseteq cut',
         \A b \in Blocks : cached'[b] > 0 => Sent(cut', b, cached'[b]),
         pc'[r] \in {"wait", "publish", "leave"} /\ ans'[r] >= 0
           => Sent(cut', Block(r)', ans'[r]),
         \A q \in Readers \ {r} : pc'[q] = pc[q] /\ pos'[q] = pos[q] /\ ans'[q] = ans[q]
  PROVE  AsSent'
<1>1. ASSUME NEW q \in Readers, q # r, pc'[q] \in {"wait", "publish", "leave"}, ans'[q] >= 0
      PROVE  Sent(cut', Block(q)', ans'[q])
  <2>1. Sent(cut, Block(q), ans[q]) /\ Block(q)' = Block(q) /\ ans'[q] = ans[q]
    BY <1>1 DEF AsSent, Block
  <2> QED
    BY <2>1, SentStays
<1> QED
  BY <1>1 DEF AsSent

\* Every step keeps what is stored or answered as TorBox has sent it.
LEMMA SentStep == IInv /\ [Next]_vars => AsSent'
<1> SUFFICES ASSUME IInv, [Next]_vars PROVE AsSent'
  OBVIOUS
<1> USE DEF IInv, Goto, Set, loop, None
<1>1. ASSUME NEW r \in Readers, Begin(r) PROVE AsSent'
  BY <1>1, AnswersKept, StoredKept DEF Begin, Restart, TypeOK
<1>2. ASSUME NEW r \in Readers, Cancel(r) PROVE AsSent'
  <2>1. pc' = [pc EXCEPT ![r] = pc'[r]] /\ pos' = [pos EXCEPT ![r] = pos'[r]]
        /\ pc'[r] \in {"block", "done", "invalidate", "eio"}
    BY <1>2, ReceiveGathers, AnswersTyped DEF Cancel, Reading
  <2> QED
    BY <1>2, <2>1, AnswersKept, StoredKept DEF Cancel, TypeOK
<1>3. ASSUME NEW r \in Readers, ReadCached(r) PROVE AsSent'
  <2>1. CASE cached[Block(r)] > 0 /\ Take(r, Block(r), cached[Block(r)])
    <3>1. Sent(cut, Block(r), cached[Block(r)]) /\ pos[r] < off[r] + size[r]
      BY <1>3, <2>1, BlockTyped DEF ReadCached, AsSent, Gathered, GatheredBy, Reading
    <3> QED
      BY <1>3, <2>1, <3>1, TakeGathers, AnswersKept, StoredKept DEF ReadCached, TypeOK
  <2>2. CASE pc' = [pc EXCEPT ![r] = "join"] /\ UNCHANGED <<pos, out>>
    BY <1>3, <2>2, AnswersKept, StoredKept DEF ReadCached, TypeOK
  <2> QED
    BY <1>3, <2>1, <2>2 DEF ReadCached
<1>4. ASSUME NEW r \in Readers, Join(r) PROVE AsSent'
  <2>1. CASE inflight[Block(r)] = NoCall
    BY <1>4, <2>1, AnswersKept, StoredKept DEF Join, TypeOK
  <2>2. CASE inflight[Block(r)] # NoCall
    <3> DEFINE leader == inflight[Block(r)]
    <3>1. leader \in Readers /\ Block(leader) = Block(r)
      BY <2>2, BlockTyped DEF TypeOK, CallTable
    <3>2. /\ pc' = [pc EXCEPT ![r] = "wait"] /\ pos' = pos /\ cached' = cached /\ cut' = cut
          /\ ans' = [ans EXCEPT ![r] = IF pc[leader] = "leave" THEN ans[leader] ELSE None]
      BY <1>4, <2>2 DEF Join
    <3>3. ans'[r] >= 0 => Sent(cut, Block(r), ans'[r])
      BY <3>1, <3>2 DEF AsSent, TypeOK
    <3>4. ans'[r] >= 0 => Sent(cut', Block(r)', ans'[r])
      BY <3>2, <3>3 DEF Block
    <3> QED
      BY <3>2, <3>4, AnswersKept, StoredKept DEF TypeOK
  <2> QED
    BY <2>1, <2>2
<1>5. ASSUME NEW r \in Readers, Wake(r) PROVE AsSent'
  <2>1. pc' = [pc EXCEPT ![r] = pc'[r]] /\ pos' = [pos EXCEPT ![r] = pos'[r]]
        /\ pc'[r] \in {"block", "done", "invalidate", "eio"}
    BY <1>5, ReceiveGathers, AnswerTyped DEF Wake, Reading, AsSent
  <2> QED
    BY <1>5, <2>1, AnswersKept, StoredKept DEF Wake, TypeOK
<1>6. ASSUME NEW r \in Readers, Resolve(r) PROVE AsSent'
  BY <1>6, AnswersKept, StoredKept DEF Resolve, TypeOK
<1>7. ASSUME NEW r \in Readers, AskUrl(r) PROVE AsSent'
  <2>1. pc'[r] \in {"wait", "publish", "leave"} => ~(ans'[r] >= 0)
    BY <1>7, AnswersTyped DEF AskUrl, Settle, TypeOK
  <2> QED
    BY <1>7, <2>1, AnswersKept, StoredKept DEF AskUrl, Settle, TypeOK
<1>8. ASSUME NEW r \in Readers, Remember(r) PROVE AsSent'
  BY <1>8, AnswersKept, StoredKept DEF Remember, TypeOK
<1>9. ASSUME NEW r \in Readers, ReadRange(r) PROVE AsSent'
  <2>1. PICK a \in Answers :
          /\ ans' = [ans EXCEPT ![r] = a]
          /\ a < 0 => cached' = cached
          /\ a >= 0 => /\ Sent(cut', Block(r), a) /\ a \in 0 .. BlockSize
                       /\ cached' \in {cached, [cached EXCEPT ![Block(r)] = a]}
    BY <1>9, RangeSettles, BlockTyped
  <2>2. pc' = [pc EXCEPT ![r] = "publish"] /\ pos' = pos /\ cut \subseteq cut'
    BY <1>9, RangeSettles, BlockTyped DEF ReadRange
  <2>3. ASSUME NEW b \in Blocks, cached'[b] > 0 PROVE Sent(cut', b, cached'[b])
    <3>1. CASE cached' = cached
      BY <2>2, <2>3, <3>1, StoredKept
    <3>2. CASE cached' # cached
      <4>1. a >= 0 /\ Sent(cut', Block(r), a) /\ cached' = [cached EXCEPT ![Block(r)] = a]
        BY <2>1, <3>2 DEF Answers, Other
      <4>2. Block(r)' = Block(r) /\ cached'[Block(r)] = a
        BY <2>2, <4>1, BlockTyped DEF Block, TypeOK
      <4>3. CASE b = Block(r)
        BY <4>1, <4>2, <4>3
      <4>4. CASE b # Block(r)
        <5>1. cached'[b] = cached[b] /\ Sent(cut, b, cached[b])
          BY <2>3, <4>1, <4>4 DEF TypeOK, AsSent
        <5> QED
          BY <2>2, <5>1, SentStays
      <4> QED
        BY <4>3, <4>4
    <3> QED
      BY <3>1, <3>2
  <2>4. ans'[r] >= 0 => Sent(cut', Block(r)', ans'[r])
    BY <2>1, <2>2 DEF TypeOK, Block
  <2> QED
    BY <2>1, <2>2, <2>3, <2>4, AnswersKept DEF TypeOK
<1>10. ASSUME NEW r \in Readers, Publish(r) PROVE AsSent'
  <2>1. /\ pc' = [pc EXCEPT ![r] = "leave"] /\ pos' = pos /\ cached' = cached /\ cut' = cut
        /\ ans' = [w \in Readers |->
                    IF pc[w] = "wait" /\ Block(w) = Block(r) /\ ans[w] = None
                    THEN ans[r] ELSE ans[w]]
    BY <1>10 DEF Publish
  <2>2. ASSUME NEW w \in Readers, pc'[w] \in {"wait", "publish", "leave"}, ans'[w] >= 0
        PROVE  Sent(cut, Block(w), ans'[w])
    <3>1. pc[w] \in {"wait", "publish", "leave"} /\ pc[r] = "publish"
      BY <1>10, <2>1, <2>2 DEF Publish, TypeOK
    <3>2. ans'[w] = ans[w] \/ (ans'[w] = ans[r] /\ Block(w) = Block(r))
      BY <2>1, <2>2
    <3> QED
      BY <2>2, <3>1, <3>2 DEF AsSent
  <2>3. ASSUME NEW w \in Readers, pc'[w] \in {"wait", "publish", "leave"}, ans'[w] >= 0
        PROVE  Sent(cut', Block(w)', ans'[w])
    BY <2>1, <2>2, <2>3 DEF Block
  <2> QED
    BY <2>1, <2>3, StoredKept DEF AsSent
<1>11. ASSUME NEW r \in Readers, Leave(r) PROVE AsSent'
  <2>1. pc' = [pc EXCEPT ![r] = pc'[r]] /\ pos' = [pos EXCEPT ![r] = pos'[r]]
        /\ pc'[r] \in {"block", "done", "invalidate", "eio"}
    BY <1>11, ReceiveGathers, AnswerTyped DEF Leave, Reading, Fetching, AsSent
  <2> QED
    BY <1>11, <2>1, AnswersKept, StoredKept DEF Leave, TypeOK
<1>12. ASSUME NEW r \in Readers, Invalidate(r) PROVE AsSent'
  BY <1>12, AnswersKept, StoredKept DEF Invalidate, Restart, TypeOK
<1>13. CASE Evict
  <2>1. PICK e \in Blocks : cached' = [cached EXCEPT ![e] = 0]
    BY <1>13 DEF Evict
  <2>2. UNCHANGED <<pc, pos, ans, cut>>
    BY <1>13 DEF Evict
  <2> QED
    BY <2>1, <2>2 DEF AsSent, Block, TypeOK
<1>14. CASE Ttl
  BY <1>14 DEF Ttl, AsSent, Sent, Start, LenOf, Block
<1>15. CASE Retire
  BY <1>15 DEF Retire, AsSent, Sent, Start, LenOf, Block
<1>16. CASE UNCHANGED vars
  BY <1>16 DEF vars, AsSent, Sent, Start, LenOf, Block
<1> QED
  BY <1>1, <1>2, <1>3, <1>4, <1>5, <1>6, <1>7, <1>8,
     <1>9, <1>10, <1>11, <1>12, <1>13, <1>14, <1>15, <1>16
     DEF Next, Progress

-----------------------------------------------------------------------------
\* The inductive invariant holds in every reachable state.
THEOREM Inductive == Spec => []IInv
<1>1. IInv /\ [Next]_vars => IInv'
  BY TypeStep, GatheredStep, CallStep, SentStep DEF IInv
<1> QED
  BY InitIInv, <1>1, PTL DEF Spec

\* The types of the state, for every value of the constants.
THEOREM TypeCorrect == Spec => []TypeOK
<1>1. IInv => TypeOK
  BY DEF IInv
<1> QED
  BY <1>1, Inductive, PTL

\* fileHandle.Read returns the bytes from its offset on and no others, whatever
\* was cached, shared with another read, retried or interrupted on the way: the
\* buffer has every byte from the offset up to the position, and the loop ends at
\* the end asked for, at that of the file, or in a block that TorBox has cut short.
THEOREM ReturnsWhatTorBoxSentHolds == Spec => []ReturnsWhatTorBoxSent
<1>1. IInv => ReturnsWhatTorBoxSent
  <2> SUFFICES ASSUME IInv, NEW r \in Readers, pc[r] = "done"
               PROVE  LET end == off[r] + Len(out[r]) IN
                      /\ out[r] = Bytes(off[r], end)
                      /\ end <= off[r] + size[r]
                      /\ end = off[r] + size[r] \/ end >= FileLen \/ BlockAt(end) \in cut
    BY DEF ReturnsWhatTorBoxSent
  <2>1. GatheredBy(r) /\ off[r] \in Nat /\ pos[r] \in Nat
    BY SizesAssumption DEF IInv, TypeOK, Gathered
  <2>2. off[r] + Len(out[r]) = pos[r]
    BY <2>1 DEF GatheredBy, Bytes
  <2> QED
    BY <2>1, <2>2 DEF GatheredBy
<1> QED
  BY <1>1, Inductive, PTL

\* As long as TorBox has sent every block whole, a read that succeeds returns all
\* the bytes it asked for, as far as the file has them: short bodies are the only
\* cause of short reads.
THEOREM WholeBlocksWholeReads == Spec => [](cut = {} => ReturnsWhatWasAsked)
<1>1. IInv => (cut = {} => ReturnsWhatWasAsked)
  <2> SUFFICES ASSUME IInv, cut = {}, NEW r \in Readers, pc[r] = "done"
               PROVE  out[r] = Bytes(off[r], Smaller(off[r] + size[r], FileLen))
    BY DEF ReturnsWhatWasAsked
  <2>1. /\ off[r] \in Nat /\ size[r] \in Nat /\ pos[r] \in Nat
        /\ FileLen \in Nat
    BY SizesAssumption DEF IInv, TypeOK
  <2>2. /\ off[r] <= pos[r] /\ pos[r] <= off[r] + size[r]
        /\ pos[r] = off[r] \/ pos[r] <= FileLen
        /\ pos[r] = off[r] + size[r] \/ pos[r] >= FileLen
        /\ out[r] = Bytes(off[r], pos[r])
    BY DEF IInv, Gathered, GatheredBy
  <2>3. CASE off[r] < FileLen
    BY <2>1, <2>2, <2>3 DEF Smaller
  <2>4. CASE ~(off[r] < FileLen)
    <3>1. pos[r] = off[r] /\ Smaller(off[r] + size[r], FileLen) <= off[r]
          /\ Smaller(off[r] + size[r], FileLen) \in Nat
      BY <2>1, <2>2, <2>4 DEF Smaller
    <3> QED
      BY <2>1, <2>2, <3>1 DEF Bytes
  <2> QED
    BY <2>3, <2>4
<1> QED
  BY <1>1, Inductive, PTL
=============================================================================
