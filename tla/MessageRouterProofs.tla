--------------------------- MODULE MessageRouterProofs ---------------------------
(***************************************************************************)
(* Theorems about MessageRouter, for any messages, modules, priorities,      *)
(* retries and bounds, with writes that may raise.                           *)
(***************************************************************************)
EXTENDS MessageRouter, SequenceTheorems, WellFoundedInduction, TLAPS

DeadOf(letters) == {letters[i].m : i \in DOMAIN letters}
Unlike(letters) == \A i, j \in DOMAIN letters : letters[i].m = letters[j].m => i = j
Queued == {e.m : e \in queue}
InRows == {e.m : e \in rows}
Issued(op) == {writes[i].row.m : i \in {k \in DOMAIN writes : writes[k].op = op}}

Taken == Queued \cup DeadOf(dead)
Gone == forgotten \cup Issued("remove")

-------------------------------------------------------------------------------
(* The inductive invariant, in the parts that the steps disturb separately *)

\* The heap and the dead letters hold a message once between them.
Lists ==
    /\ \A e, f \in queue : e.m = f.m => e = f
    /\ Unlike(dead)
    /\ Queued \cap DeadOf(dead) = {}

\* Nobody has created a message that is anywhere but among the used ones.
Known ==
    /\ used \subseteq Messages
    /\ Taken \cup InRows \cup Issued("store") \cup Gone \subseteq used

\* A row stays until a handler has returned for its message.
Kept ==
    /\ \A e, f \in rows : e.m = f.m => e = f
    /\ Issued("remove") \subseteq handled
    /\ accepted \ handled \subseteq InRows

\* What is being removed, or was, does not come back, unless one of its writes raised.
NotBack ==
    /\ (Gone \ raised) \cap Taken = {}
    /\ (forgotten \ raised) \cap (InRows \cup Issued("store")) = {}
    /\ \A i, j \in DOMAIN writes :
          writes[i].op = "remove" /\ writes[j].op = "store" /\ writes[i].row.m = writes[j].row.m
             => writes[i].row.m \in raised \/ j < i

\* The sequence numbers in the database are bounded, so a replay finds the largest.
Bounded ==
    \E n \in Nat : /\ \A e \in rows : e.seq <= n
                   /\ \A i \in DOMAIN writes : writes[i].row.seq <= n

\* What a delivering coroutine w holds is nowhere else, and what it will send is new.
Fits(w, taken, gone, known, hurt) ==
    /\ w \in Worker
    /\ w.phase # "idle" => w.m \in Messages
    /\ w.phase = "backoff" => w.tries < MaxRetries
    /\ {w.m, w.response} \subseteq known \cup {NoMessage}
    /\ w.phase \notin {"idle", "restoring"} => w.m \notin taken
    /\ w.phase \in {"removing", "removed"} /\ w.response # NoMessage =>
          w.response # w.m /\ w.response \notin taken \cup gone
    /\ w.m \in gone \ hurt => w.phase \in {"removing", "removed", "responding"}

RouterInv ==
    /\ RouterTypeOK /\ Lists /\ Known /\ Kept /\ NotBack /\ Bounded
    /\ Fits(worker, Taken, Gone, used, raised)

-------------------------------------------------------------------------------
(* Lists *)

\* DeadLetterQueue.add keeps the bound and the letters apart, and adds no other message.
LEMMA BuriedFacts ==
    ASSUME NEW letters \in Seq(Letter), Len(letters) <= MaxDead,
           NEW m \in Messages, NEW tries \in 0..MaxRetries
    PROVE  /\ Buried(letters, m, tries) \in Seq(Letter)
           /\ Len(Buried(letters, m, tries)) <= MaxDead
           /\ DeadOf(Buried(letters, m, tries)) \subseteq DeadOf(letters) \cup {m}
           /\ Unlike(letters) => Unlike(Buried(letters, m, tries))
<1> DEFINE room == IF Len(letters) >= MaxDead THEN Tail(letters) ELSE letters
           letter == [m |-> m, tries |-> tries]
<1>1. /\ room \in Seq(Letter) /\ Len(room) < MaxDead
      /\ DeadOf(room) \subseteq DeadOf(letters)
      /\ Unlike(letters) => Unlike(room)
  <2>1. CASE Len(letters) >= MaxDead
    <3>1. letters # <<>>
      BY <2>1, RouterAssumption
    <3>2. /\ Tail(letters) \in Seq(Letter) /\ Len(Tail(letters)) = Len(letters) - 1
          /\ \A i \in 1..Len(Tail(letters)) : Tail(letters)[i] = letters[i + 1]
      BY <3>1, HeadTailProperties
    <3>3. \A i \in DOMAIN Tail(letters) : i + 1 \in DOMAIN letters
      BY <3>2
    <3> QED
      BY <2>1, <3>2, <3>3, RouterAssumption DEF DeadOf, Unlike
  <2>2. CASE Len(letters) < MaxDead
    BY <2>2, RouterAssumption
  <2> QED
    BY <2>1, <2>2, RouterAssumption
<1>2. letter \in Letter
  BY DEF Letter
<1>3. Buried(letters, m, tries) =
         IF \E i \in DOMAIN room : room[i].m = m
         THEN [i \in DOMAIN room |-> IF room[i].m = m THEN letter ELSE room[i]]
         ELSE Append(room, letter)
  BY DEF Buried
<1> HIDE DEF room
<1>4. CASE \E i \in DOMAIN room : room[i].m = m
  <2> DEFINE new == [i \in DOMAIN room |-> IF room[i].m = m THEN letter ELSE room[i]]
  <2>1. Buried(letters, m, tries) = new
    BY <1>3, <1>4
  <2>2. new \in Seq(Letter) /\ Len(new) = Len(room) /\ DOMAIN new = DOMAIN room
    BY <1>1, <1>2, IsASeq
  <2>3. \A i \in DOMAIN new : new[i].m = room[i].m
    OBVIOUS
  <2> HIDE DEF new
  <2>4. DeadOf(new) = DeadOf(room) /\ (Unlike(room) => Unlike(new))
    BY <2>2, <2>3 DEF DeadOf, Unlike
  <2> QED
    BY <1>1, <2>1, <2>2, <2>4, RouterAssumption
<1>5. CASE ~ \E i \in DOMAIN room : room[i].m = m
  <2> DEFINE new == Append(room, letter)
  <2>1. Buried(letters, m, tries) = new
    BY <1>3, <1>5
  <2>2. /\ new \in Seq(Letter) /\ Len(new) = Len(room) + 1
        /\ \A i \in 1..Len(room) : new[i] = room[i]
        /\ new[Len(room) + 1].m = m
    BY <1>1, <1>2, AppendProperties
  <2>3. DOMAIN new = DOMAIN room \cup {Len(room) + 1} /\ DOMAIN room = 1..Len(room)
    BY <1>1, <2>2
  <2> HIDE DEF new, letter
  <2>4. DeadOf(new) = DeadOf(room) \cup {m}
    BY <2>2, <2>3 DEF DeadOf
  <2>5. Unlike(room) => Unlike(new)
    BY <1>1, <1>5, <2>2, <2>3 DEF Unlike
  <2> QED
    BY <1>1, <2>1, <2>2, <2>4, <2>5, RouterAssumption
<1> QED
  BY <1>4, <1>5

\* Popping a letter leaves the others, and none of its message.
LEMMA UnburiedFacts ==
    ASSUME dead \in Seq(Letter), Len(dead) <= MaxDead, NEW i \in DOMAIN dead
    PROVE  /\ Unburied(i) \in Seq(Letter) /\ Len(Unburied(i)) <= MaxDead
           /\ DeadOf(Unburied(i)) \subseteq DeadOf(dead)
           /\ Unlike(dead) => Unlike(Unburied(i)) /\ dead[i].m \notin DeadOf(Unburied(i))
<1> DEFINE front == SubSeq(dead, 1, i - 1)
           back  == SubSeq(dead, i + 1, Len(dead))
           n     == Len(dead)
<1>1. n \in Nat /\ i \in 1..n /\ \A k \in 1..n : dead[k] \in Letter
  OBVIOUS
<1>2. /\ front \in Seq(Letter) /\ Len(front) = i - 1
      /\ \A k \in 1..i - 1 : front[k] = dead[k]
  <2>1. /\ front \in Seq(Letter)
        /\ Len(front) = IF 1 <= i - 1 THEN (i - 1) - 1 + 1 ELSE 0
        /\ \A k \in 1..(i - 1) - 1 + 1 : front[k] = dead[1 + k - 1]
    <3>1. \A k \in 1..i - 1 : dead[k] \in Letter
      BY <1>1
    <3> QED
      BY <1>1, <3>1, SubSeqProperties
  <2> QED
    BY <1>1, <2>1
<1>3. /\ back \in Seq(Letter) /\ Len(back) = n - i
      /\ \A k \in 1..n - i : back[k] = dead[k + i]
  <2>1. /\ back \in Seq(Letter)
        /\ Len(back) = IF i + 1 <= n THEN n - (i + 1) + 1 ELSE 0
        /\ \A k \in 1..n - (i + 1) + 1 : back[k] = dead[(i + 1) + k - 1]
    <3>1. \A k \in i + 1..n : dead[k] \in Letter
      BY <1>1
    <3> QED
      BY <1>1, <3>1, SubSeqProperties
  <2> QED
    BY <1>1, <2>1
<1> HIDE DEF front, back
<1>4. /\ Unburied(i) \in Seq(Letter) /\ Len(Unburied(i)) = n - 1
      /\ \A k \in 1..n - 1 : Unburied(i)[k] = IF k <= i - 1 THEN front[k] ELSE back[k - (i - 1)]
  <2>1. Unburied(i) = front \o back
    BY DEF Unburied, front, back
  <2>2. /\ front \o back \in Seq(Letter)
        /\ Len(front \o back) = Len(front) + Len(back)
        /\ \A k \in 1..Len(front) + Len(back) :
              (front \o back)[k] = IF k <= Len(front) THEN front[k] ELSE back[k - Len(front)]
    BY <1>2, <1>3, ConcatProperties
  <2>3. Len(front) + Len(back) = n - 1
    BY <1>1, <1>2, <1>3
  <2> QED
    BY <1>2, <2>1, <2>2, <2>3
<1>5. \A k \in 1..n - 1 : Unburied(i)[k] = IF k < i THEN dead[k] ELSE dead[k + 1]
  <2> SUFFICES ASSUME NEW k \in 1..n - 1
               PROVE  Unburied(i)[k] = IF k < i THEN dead[k] ELSE dead[k + 1]
    OBVIOUS
  <2>1. CASE k < i
    BY <1>1, <1>2, <1>4, <2>1
  <2>2. CASE ~ (k < i)
    <3>1. k - (i - 1) \in 1..n - i /\ (k - (i - 1)) + i = k + 1
      BY <1>1, <2>2
    <3>2. ~ (k <= i - 1)
      BY <1>1, <2>2
    <3>3. Unburied(i)[k] = back[k - (i - 1)]
      BY <1>4, <3>2
    <3>4. back[k - (i - 1)] = dead[(k - (i - 1)) + i]
      BY <1>3, <3>1
    <3> QED
      BY <2>2, <3>1, <3>3, <3>4
  <2> QED
    BY <2>1, <2>2
<1>6. DOMAIN Unburied(i) = 1..n - 1 /\ DOMAIN dead = 1..n
  BY <1>4
<1>7. \A k \in 1..n - 1 : k \in 1..n /\ k + 1 \in 1..n
  BY <1>1
<1>8. DeadOf(Unburied(i)) \subseteq DeadOf(dead)
  BY <1>5, <1>6, <1>7 DEF DeadOf
<1>9. ASSUME Unlike(dead) PROVE Unlike(Unburied(i)) /\ dead[i].m \notin DeadOf(Unburied(i))
  <2>1. ASSUME NEW k \in 1..n - 1, NEW l \in 1..n - 1, Unburied(i)[k].m = Unburied(i)[l].m
        PROVE  k = l
    <3>1. PICK p \in 1..n : p = (IF k < i THEN k ELSE k + 1) /\ Unburied(i)[k] = dead[p]
      BY <1>5, <1>7
    <3>2. PICK q \in 1..n : q = (IF l < i THEN l ELSE l + 1) /\ Unburied(i)[l] = dead[q]
      BY <1>5, <1>7
    <3>3. p = q
      BY <1>6, <1>9, <2>1, <3>1, <3>2 DEF Unlike
    <3> QED
      BY <1>1, <3>1, <3>2, <3>3
  <2>2. \A k \in 1..n - 1 : Unburied(i)[k].m # dead[i].m
    BY <1>1, <1>5, <1>6, <1>7, <1>9 DEF Unlike
  <2> QED
    BY <1>6, <2>1, <2>2 DEF DeadOf, Unlike
<1> QED
  BY <1>1, <1>4, <1>8, <1>9, RouterAssumption

-------------------------------------------------------------------------------
(* Statements *)

\* One more statement is behind all that were issued.
LEMMA IssuedOneMore ==
    ASSUME writes \in Seq(Statement), NEW w \in Statement, writes' = Append(writes, w)
    PROVE  /\ writes' \in Seq(Statement)
           /\ DOMAIN writes = 1..Len(writes) /\ DOMAIN writes' = 1..Len(writes) + 1
           /\ \A i \in 1..Len(writes) : writes'[i] = writes[i]
           /\ writes'[Len(writes) + 1] = w
           /\ Len(writes) \in Nat
           /\ \A op \in {"store", "remove"} :
                 Issued(op)' = Issued(op) \cup (IF w.op = op THEN {w.row.m} ELSE {})
<1>1. /\ writes' \in Seq(Statement)
      /\ DOMAIN writes = 1..Len(writes) /\ DOMAIN writes' = 1..Len(writes) + 1
      /\ \A i \in 1..Len(writes) : writes'[i] = writes[i]
      /\ writes'[Len(writes) + 1] = w
      /\ Len(writes) \in Nat
  BY AppendProperties
<1>2. ASSUME NEW op \in {"store", "remove"}
      PROVE  Issued(op)' = Issued(op) \cup (IF w.op = op THEN {w.row.m} ELSE {})
  BY <1>1 DEF Issued
<1> QED
  BY <1>1, <1>2

\* The first statement leaves, and the others move up.
LEMMA FirstLeaves ==
    ASSUME writes \in Seq(Statement), writes # <<>>, writes' = Others(FirstWrite)
    PROVE  /\ writes' \in Seq(Statement)
           /\ writes[1] \in Statement /\ 1 \in DOMAIN writes
           /\ \A i \in DOMAIN writes' : i + 1 \in DOMAIN writes /\ writes'[i] = writes[i + 1]
           /\ \A op \in {"store", "remove"} : Issued(op)' \subseteq Issued(op)
           /\ writes[1].row.m \in Issued(writes[1].op)
<1> DEFINE n == Len(writes)
<1>1. n \in Nat /\ n >= 1 /\ DOMAIN writes = 1..n /\ \A i \in 1..n : writes[i] \in Statement
  BY EmptySeq, LenProperties
<1>2. SubSeq(writes, 1, 0) = <<>>
  BY SubSeqEmpty
<1>3. /\ SubSeq(writes, 2, n) \in Seq(Statement)
      /\ Len(SubSeq(writes, 2, n)) = n - 1
      /\ \A i \in 1..n - 1 : SubSeq(writes, 2, n)[i] = writes[i + 1]
  <2>1. \A i \in 2..n : writes[i] \in Statement
    BY <1>1
  <2>2. /\ SubSeq(writes, 2, n) \in Seq(Statement)
        /\ Len(SubSeq(writes, 2, n)) = IF 2 <= n THEN n - 2 + 1 ELSE 0
        /\ \A i \in 1..n - 2 + 1 : SubSeq(writes, 2, n)[i] = writes[2 + i - 1]
    BY <1>1, <2>1, SubSeqProperties
  <2> QED
    BY <1>1, <2>2
<1>4. writes' = SubSeq(writes, 2, n)
  <2>1. writes' = SubSeq(writes, 1, 0) \o SubSeq(writes, 2, n)
    BY DEF Others, FirstWrite
  <2> QED
    BY <1>2, <1>3, <2>1, ConcatEmptySeq
<1> HIDE DEF n
<1>5. /\ writes' \in Seq(Statement) /\ DOMAIN writes' = 1..n - 1
      /\ \A i \in 1..n - 1 : i + 1 \in 1..n /\ writes'[i] = writes[i + 1]
  BY <1>1, <1>3, <1>4
<1>6. \A op \in {"store", "remove"} : Issued(op)' \subseteq Issued(op)
  BY <1>1, <1>5 DEF Issued
<1>7. 1 \in DOMAIN writes /\ writes[1] \in Statement
  BY <1>1
<1>8. writes[1].row.m \in Issued(writes[1].op)
  BY <1>7 DEF Issued
<1> QED
  BY <1>1, <1>5, <1>6, <1>7, <1>8

-------------------------------------------------------------------------------
(* send(), from wherever it is called *)

Puts(m, tries, letters) == Enqueue(m, tries, letters) \/ Reject(m, tries, letters)

\* The message is queued and its row issued, or it is buried.
LEMMA PutFacts ==
    ASSUME RouterTypeOK, NEW m \in Messages, NEW tries \in 0..MaxRetries,
           NEW letters \in Seq(Letter), Len(letters) <= MaxDead,
           Puts(m, tries, letters)
    PROVE  /\ dead' \in Seq(Letter) /\ Len(dead') <= MaxDead
           /\ Unlike(letters) => Unlike(dead')
           /\ \/ \E entry \in Entry :
                    /\ entry.m = m /\ entry.seq = seq + 1
                    /\ queue' = queue \cup {entry}
                    /\ writes' = Append(writes, [op |-> "store", row |-> entry])
                    /\ [op |-> "store", row |-> entry] \in Statement
                    /\ seq' = seq + 1 /\ dead' = letters
              \/ /\ UNCHANGED <<queue, writes, seq>>
                 /\ DeadOf(dead') \subseteq DeadOf(letters) \cup {m}
<1>1. CASE Enqueue(m, tries, letters)
  <2> DEFINE entry == [m |-> m, seq |-> seq + 1, tries |-> tries]
  <2>1. entry \in Entry /\ [op |-> "store", row |-> entry] \in Statement
    BY DEF RouterTypeOK, Entry, Statement
  <2> QED
    BY <1>1, <2>1 DEF Enqueue
<1>2. CASE Reject(m, tries, letters)
  BY <1>2, BuriedFacts DEF Reject
<1> QED
  BY <1>1, <1>2 DEF Puts

\* A message that is nowhere else may be put, by a worker that fits afterwards.
LEMMA PutKeepsInv ==
    ASSUME RouterInv, NEW m \in Messages, NEW tries \in 0..MaxRetries,
           NEW letters \in Seq(Letter), Len(letters) <= MaxDead,
           Puts(m, tries, letters),
           Unlike(letters), DeadOf(letters) \subseteq DeadOf(dead),
           m \notin Queued \cup DeadOf(letters), m \notin Gone \ raised,
           m \in used', used \subseteq used', used' \subseteq Messages,
           UNCHANGED <<rows, handlers, mode, expired, accepted, handled, forgotten, raised>>,
           Fits(worker', Queued \cup DeadOf(letters) \cup {m}, Gone, used', raised)
    PROVE  RouterInv'
<1>1. /\ dead' \in Seq(Letter) /\ Len(dead') <= MaxDead /\ Unlike(dead')
      /\ \/ \E entry \in Entry :
               /\ entry.m = m /\ entry.seq = seq + 1
               /\ queue' = queue \cup {entry}
               /\ writes' = Append(writes, [op |-> "store", row |-> entry])
               /\ [op |-> "store", row |-> entry] \in Statement
               /\ seq' = seq + 1 /\ dead' = letters
         \/ /\ UNCHANGED <<queue, writes, seq>>
            /\ DeadOf(dead') \subseteq DeadOf(letters) \cup {m}
  BY PutFacts DEF RouterInv
<1>2. /\ RouterTypeOK /\ Lists /\ Known /\ Kept /\ NotBack /\ Bounded
  BY DEF RouterInv
<1>3. CASE UNCHANGED <<queue, writes, seq>> /\ DeadOf(dead') \subseteq DeadOf(letters) \cup {m}
  <2>1. /\ Queued' = Queued /\ Gone' = Gone /\ InRows' = InRows
        /\ Issued("store")' = Issued("store") /\ Issued("remove")' = Issued("remove")
    BY <1>3 DEF Queued, Gone, InRows, Issued
  <2>2. Taken' \subseteq Queued \cup DeadOf(letters) \cup {m}
    BY <1>3, <2>1 DEF Taken
  <2>3. RouterTypeOK'
    BY <1>1, <1>2, <1>3 DEF RouterTypeOK, Fits
  <2>4. Lists'
    BY <1>1, <1>2, <1>3, <2>1 DEF Lists
  <2>5. Known' /\ Kept' /\ Bounded'
    BY <1>2, <1>3, <2>1, <2>2 DEF Known, Kept, Bounded, Taken
  <2>6. NotBack'
    BY <1>2, <1>3, <2>1, <2>2 DEF NotBack, Taken
  <2>7. Fits(worker, Taken, Gone, used, raised)'
    BY <2>1, <2>2 DEF Fits
  <2> QED
    BY <2>3, <2>4, <2>5, <2>6, <2>7 DEF RouterInv
<1>4. ASSUME NEW entry \in Entry, entry.m = m, entry.seq = seq + 1,
             queue' = queue \cup {entry},
             writes' = Append(writes, [op |-> "store", row |-> entry]),
             [op |-> "store", row |-> entry] \in Statement,
             seq' = seq + 1, dead' = letters
      PROVE  RouterInv'
  <2> DEFINE w == [op |-> "store", row |-> entry]
             n == Len(writes)
  <2>0. w.op = "store" /\ w.row = entry
    OBVIOUS
  <2> HIDE DEF w
  <2>1. /\ writes' \in Seq(Statement)
        /\ DOMAIN writes = 1..n /\ DOMAIN writes' = 1..n + 1
        /\ \A i \in 1..n : writes'[i] = writes[i]
        /\ writes'[n + 1] = w /\ n \in Nat
        /\ Issued("store")' = Issued("store") \cup {m} /\ Issued("remove")' = Issued("remove")
    BY <1>2, <1>4, <2>0, IssuedOneMore DEF RouterTypeOK, w
  <2>2. Queued' = Queued \cup {m} /\ Gone' = Gone /\ InRows' = InRows
    BY <1>4, <2>1 DEF Queued, Gone, InRows
  <2>3. Taken' = Queued \cup DeadOf(letters) \cup {m}
    BY <1>4, <2>2 DEF Taken
  <2>4. RouterTypeOK'
    <3>1. worker' \in Worker
      BY DEF Fits
    <3>2. queue' \subseteq Entry /\ seq' \in Nat
      BY <1>2, <1>4 DEF RouterTypeOK
    <3> QED
      BY <1>1, <1>2, <2>1, <3>1, <3>2 DEF RouterTypeOK
  <2>5. Lists'
    <3>1. \A e \in queue : e.m # m
      BY DEF Queued
    <3>2. Queued' \cap DeadOf(dead)' = {}
      BY <1>2, <1>4, <2>2 DEF Lists
    <3> QED
      BY <1>2, <1>4, <3>1, <3>2 DEF Lists
  <2>6. Known'
    BY <1>2, <2>1, <2>2, <2>3 DEF Known, Taken
  <2>7. Kept'
    BY <1>2, <2>1, <2>2 DEF Kept
  <2>8. NotBack'
    <3>1. /\ (Gone \ raised)' \cap Taken' = {}
          /\ (forgotten \ raised)' \cap (InRows \cup Issued("store"))' = {}
      BY <1>2, <2>1, <2>2, <2>3 DEF NotBack, Taken, Gone
    <3>2. ASSUME NEW i \in DOMAIN writes', NEW j \in DOMAIN writes',
                 writes'[i].op = "remove", writes'[j].op = "store",
                 writes'[i].row.m = writes'[j].row.m
          PROVE  writes'[i].row.m \in raised \/ j < i
      <4>1. i \in 1..n /\ writes'[i] = writes[i]
        BY <2>0, <2>1, <3>2
      <4>2. CASE j = n + 1
        <5>1. m \in Issued("remove")
          BY <1>4, <2>0, <2>1, <3>2, <4>1, <4>2 DEF Issued
        <5> QED
          BY <1>4, <2>0, <2>1, <3>2, <4>2, <5>1 DEF Gone
      <4>3. CASE j # n + 1
        BY <1>2, <2>1, <3>2, <4>1, <4>3 DEF NotBack
      <4> QED
        BY <4>2, <4>3
    <3> QED
      BY <3>1, <3>2 DEF NotBack
  <2>9. Bounded'
    <3>1. PICK k \in Nat : /\ \A e \in rows : e.seq <= k
                           /\ \A i \in DOMAIN writes : writes[i].row.seq <= k
      BY <1>2 DEF Bounded
    <3>2. k + seq + 1 \in Nat /\ seq \in Nat
      BY <1>2, <3>1 DEF RouterTypeOK
    <3>3. \A e \in rows : e.seq \in Nat /\ e.seq <= k + seq + 1
      BY <1>2, <3>1, <3>2 DEF RouterTypeOK, Entry
    <3>4. ASSUME NEW i \in 1..n PROVE writes[i].row.seq <= k + seq + 1
      <4>1. writes[i] \in Statement
        BY <1>2, ElementOfSeq DEF RouterTypeOK
      <4>2. writes[i].row.seq \in Nat /\ writes[i].row.seq <= k
        BY <2>1, <3>1, <4>1 DEF Statement, Entry
      <4> QED
        BY <3>1, <3>2, <4>2
    <3>5. \A i \in 1..n + 1 : writes'[i].row.seq <= k + seq + 1
      BY <1>4, <2>0, <2>1, <3>1, <3>2, <3>4
    <3> QED
      BY <2>1, <3>2, <3>3, <3>5 DEF Bounded
  <2>10. Fits(worker, Taken, Gone, used, raised)'
    BY <2>2, <2>3 DEF Fits
  <2> QED
    BY <2>4, <2>5, <2>6, <2>7, <2>8, <2>9, <2>10 DEF RouterInv
<1> QED
  BY <1>1, <1>3, <1>4

-------------------------------------------------------------------------------
(* The other steps *)

\* A coroutine that holds nothing fits anywhere.
LEMMA IdleFits ==
    ASSUME NEW taken, NEW gone, NEW known, NEW hurt, gone \subseteq Messages
    PROVE  Fits(Idle, taken, gone, known, hurt)
<1>1. Idle \in Worker
  BY RouterAssumption DEF Idle, Worker, Phases
<1> QED
  BY <1>1, RouterAssumption DEF Fits, Idle

\* With less taken and more known, what fits still does.
LEMMA StillFits ==
    ASSUME NEW w, NEW taken, NEW gone, NEW known, NEW hurt, Fits(w, taken, gone, known, hurt),
           NEW taken2 \in SUBSET taken, NEW gone2 \in SUBSET gone, NEW known2, known \subseteq known2,
           NEW hurt2, hurt \subseteq hurt2
    PROVE  Fits(w, taken2, gone2, known2, hurt2)
BY DEF Fits

\* A step that queues nothing and issues nothing, and buries at most what it holds.
LEMMA QuietKeepsInv ==
    ASSUME RouterInv, queue' \subseteq queue,
           \/ UNCHANGED dead
           \/ \E m \in Messages, tries \in 0..MaxRetries :
                 /\ dead' = Buried(dead, m, tries)
                 /\ m \notin Queued' /\ m \in used /\ m \notin Gone \ raised,
           handlers' \subseteq Modules, mode' \in {"running", "draining", "closed"},
           expired' \subseteq Messages, UNCHANGED <<rows, writes, seq, history>>,
           Fits(worker', Taken', Gone, used, raised)
    PROVE  RouterInv'
<1>1. /\ RouterTypeOK /\ Lists /\ Known /\ Kept /\ NotBack /\ Bounded
  BY DEF RouterInv
<1>2. /\ Queued' \subseteq Queued /\ Gone' = Gone /\ InRows' = InRows
      /\ Issued("store")' = Issued("store") /\ Issued("remove")' = Issued("remove")
  BY DEF Queued, Gone, InRows, Issued, history
<1>3. PICK m \in SUBSET used :
         /\ m \cap (Queued' \cup (Gone \ raised)) = {}
         /\ dead' \in Seq(Letter) /\ Len(dead') <= MaxDead /\ Unlike(dead')
         /\ DeadOf(dead') \subseteq DeadOf(dead) \cup m
  <2>1. CASE UNCHANGED dead
    <3>1. /\ {} \cap (Queued' \cup (Gone \ raised)) = {}
          /\ dead' \in Seq(Letter) /\ Len(dead') <= MaxDead /\ Unlike(dead')
          /\ DeadOf(dead') \subseteq DeadOf(dead) \cup {}
      BY <1>1, <2>1 DEF RouterTypeOK, Lists
    <3> QED
      BY <3>1
  <2>2. ASSUME NEW m \in Messages, NEW tries \in 0..MaxRetries,
               dead' = Buried(dead, m, tries),
               m \notin Queued', m \in used, m \notin Gone \ raised
        PROVE  /\ {m} \cap (Queued' \cup (Gone \ raised)) = {}
               /\ dead' \in Seq(Letter) /\ Len(dead') <= MaxDead /\ Unlike(dead')
               /\ DeadOf(dead') \subseteq DeadOf(dead) \cup {m}
               /\ {m} \in SUBSET used
    BY <1>1, <2>2, BuriedFacts DEF RouterTypeOK, Lists
  <2> QED
    BY <2>1, <2>2
<1>4. RouterTypeOK'
  <2>1. worker' \in Worker
    BY DEF Fits
  <2> QED
    BY <1>1, <1>3, <2>1 DEF RouterTypeOK
<1>5. Lists'
  BY <1>1, <1>2, <1>3 DEF Lists
<1>6. Known'
  BY <1>1, <1>2, <1>3 DEF Known, Taken, history
<1>7. Kept' /\ Bounded'
  BY <1>1, <1>2 DEF Kept, Bounded, history
<1>8. NotBack'
  <2>1. ((Gone \ raised) \cap Taken)' = {}
    BY <1>1, <1>2, <1>3 DEF NotBack, Taken, history
  <2> QED
    BY <1>1, <1>2, <2>1 DEF NotBack, history
<1>9. Fits(worker, Taken, Gone, used, raised)'
  BY <1>2 DEF history
<1> QED
  BY <1>4, <1>5, <1>6, <1>7, <1>8, <1>9 DEF RouterInv

\* Anybody sends a new message.
LEMMA SendKeepsInv ==
    ASSUME RouterInv, NEW m \in Messages, Send(m)
    PROVE  RouterInv'
<1>1. m \notin used /\ used' = used \cup {m} /\ Puts(m, 0, dead) /\ worker' = worker
  BY DEF Send, Puts
<1>2. RouterTypeOK /\ Lists /\ Known /\ Fits(worker, Taken, Gone, used, raised)
  BY DEF RouterInv
<1>3. m \notin Taken /\ m \notin Gone /\ used' \subseteq Messages
  BY <1>1, <1>2 DEF Known
<1>4. Fits(worker', Queued \cup DeadOf(dead) \cup {m}, Gone, used', raised)
  BY <1>1, <1>2, RouterAssumption DEF Fits, Taken
<1>5. dead \in Seq(Letter) /\ Len(dead) <= MaxDead /\ Unlike(dead) /\ 0 \in 0..MaxRetries
  BY <1>2, RouterAssumption DEF RouterTypeOK, Lists
<1> QED
  BY <1>1, <1>3, <1>4, <1>5, PutKeepsInv DEF Send, Taken

\* An operator sends a dead letter again.
LEMMA RetryDeadKeepsInv ==
    ASSUME RouterInv, RetryDead
    PROVE  RouterInv'
<1>1. PICK i \in DOMAIN dead : Puts(dead[i].m, dead[i].tries, Unburied(i))
  BY DEF RetryDead, Puts
<1>2. RouterTypeOK /\ Lists /\ Known /\ NotBack /\ Fits(worker, Taken, Gone, used, raised)
  BY DEF RouterInv
<1> DEFINE m == dead[i].m
<1>3. dead[i] \in Letter /\ m \in DeadOf(dead)
  BY <1>2, ElementOfSeq DEF RouterTypeOK, DeadOf
<1>4. m \in Messages /\ dead[i].tries \in 0..MaxRetries
  BY <1>3 DEF Letter
<1>5. /\ Unburied(i) \in Seq(Letter) /\ Len(Unburied(i)) <= MaxDead
      /\ DeadOf(Unburied(i)) \subseteq DeadOf(dead)
      /\ Unlike(Unburied(i)) /\ m \notin DeadOf(Unburied(i))
  BY <1>2, UnburiedFacts DEF RouterTypeOK, Lists
<1>6. m \notin Queued /\ m \notin Gone \ raised /\ m \in used /\ used \subseteq Messages
  BY <1>2, <1>3 DEF Lists, NotBack, Known, Taken
<1>7. /\ UNCHANGED <<rows, handlers, mode, expired, accepted, handled, forgotten, raised>>
      /\ used' = used /\ worker' = worker
  BY DEF RetryDead, history
<1>8. Fits(worker', Queued \cup DeadOf(Unburied(i)) \cup {m}, Gone, used', raised)
  <2>1. Queued \cup DeadOf(Unburied(i)) \cup {m} \subseteq Taken
    BY <1>3, <1>5 DEF Taken
  <2> HIDE DEF m
  <2> QED
    BY <1>2, <1>7, <2>1, StillFits
<1> HIDE DEF m
<1> QED
  BY <1>1, <1>4, <1>5, <1>6, <1>7, <1>8, PutKeepsInv DEF m

\* The loop takes the foremost entry, or discards it.
LEMMA TakeKeepsInv ==
    ASSUME RouterInv, NEW e \in queue, Take(e) \/ Discard(e)
    PROVE  RouterInv'
<1>1. RouterTypeOK /\ Lists /\ Known /\ NotBack /\ Fits(worker, Taken, Gone, used, raised)
  BY DEF RouterInv
<1>2. /\ queue' = queue \ {e}
      /\ UNCHANGED <<rows, writes, handlers, mode, seq, expired, history>>
  BY DEF Take, Discard
<1>3. /\ e \in Entry /\ e.m \in Messages /\ e.tries \in 0..MaxRetries
      /\ e.m \in Queued /\ e.m \notin Queued'
  BY <1>1, <1>2 DEF RouterTypeOK, Entry, Queued, Lists
<1>4. e.m \in used /\ e.m \notin Gone \ raised /\ e.m \notin DeadOf(dead) /\ Gone \subseteq Messages
  BY <1>1, <1>3 DEF Lists, Known, NotBack, Taken
<1>5. CASE Take(e)
  <2> DEFINE w == [phase |-> "handling", m |-> e.m, tries |-> e.tries, response |-> NoMessage]
  <2>1. worker' = w /\ dead' = dead
    BY <1>5 DEF Take
  <2>2. w \in Worker
    BY <1>3 DEF Worker, Phases
  <2>3. e.m \notin Taken'
    BY <1>3, <1>4, <2>1 DEF Taken
  <2>4. Fits(w, Taken', Gone, used, raised)
    BY <1>3, <1>4, <2>2, <2>3 DEF Fits
  <2> HIDE DEF w
  <2> QED
    BY <1>1, <1>2, <2>1, <2>4, QuietKeepsInv DEF RouterTypeOK
<1>6. CASE Discard(e)
  <2>1. worker' = Idle
    BY <1>6 DEF Discard
  <2>2. Fits(worker', Taken', Gone, used, raised)
    BY <1>4, <2>1, IdleFits
  <2>3. \/ UNCHANGED dead
        \/ \E m \in Messages, tries \in 0..MaxRetries :
              /\ dead' = Buried(dead, m, tries)
              /\ m \notin Queued' /\ m \in used /\ m \notin Gone \ raised
    BY <1>3, <1>4, <1>6 DEF Discard, Bury
  <2> QED
    BY <1>1, <1>2, <2>2, <2>3, QuietKeepsInv DEF RouterTypeOK
<1> QED
  BY <1>5, <1>6

\* The handler returned: its message is handled before the removal of its row is issued.
LEMMA ReturnKeepsInv ==
    ASSUME RouterInv, Return
    PROVE  RouterInv'
<1>1. /\ RouterTypeOK /\ Lists /\ Known /\ Kept /\ NotBack /\ Bounded
      /\ Fits(worker, Taken, Gone, used, raised)
  BY DEF RouterInv
<1> DEFINE m == worker.m
           w == [op |-> "remove", row |-> [m |-> worker.m, seq |-> 0, tries |-> 0]]
           n == Len(writes)
<1>2. m \in Messages /\ m \in used /\ m \notin Taken /\ m # NoMessage
  BY <1>1, RouterAssumption DEF Return, Fits
<1>3. PICK response \in (Messages \ used) \cup {NoMessage} :
        /\ worker' = [worker EXCEPT !.phase = "removing", !.response = response]
        /\ used' = used \cup ({response} \ {NoMessage})
  BY DEF Return
<1>4. /\ handled' = handled \cup {m} /\ writes' = Append(writes, w)
      /\ UNCHANGED <<queue, rows, dead, handlers, mode, seq, expired, accepted, forgotten, raised>>
  BY DEF Return
<1>5. w \in Statement /\ w.op = "remove" /\ w.row.m = m /\ w.row.seq = 0
  BY <1>2, RouterAssumption DEF Statement, Entry
<1> HIDE DEF w
<1>6. /\ writes' \in Seq(Statement)
      /\ DOMAIN writes = 1..n /\ DOMAIN writes' = 1..n + 1
      /\ \A i \in 1..n : writes'[i] = writes[i]
      /\ writes'[n + 1] = w /\ n \in Nat
      /\ Issued("store")' = Issued("store") /\ Issued("remove")' = Issued("remove") \cup {m}
  BY <1>1, <1>4, <1>5, IssuedOneMore DEF RouterTypeOK
<1>7. Taken' = Taken /\ InRows' = InRows /\ Gone' = Gone \cup {m}
  BY <1>4, <1>6 DEF Taken, Queued, InRows, Gone
<1>8. /\ worker' \in Worker /\ worker'.phase = "removing" /\ worker'.m = m
      /\ worker'.response = response
  BY <1>1, <1>3 DEF RouterTypeOK, Worker, Phases
<1>9. RouterTypeOK'
  BY <1>1, <1>4, <1>6, <1>8 DEF RouterTypeOK
<1>10. Lists' /\ Known' /\ Kept'
  <2>1. Lists'
    BY <1>1, <1>4 DEF Lists, Queued
  <2>2. Known'
    BY <1>1, <1>2, <1>3, <1>6, <1>7 DEF Known
  <2>3. Kept'
    BY <1>1, <1>4, <1>6, <1>7 DEF Kept
  <2> QED
    BY <2>1, <2>2, <2>3
<1>11. NotBack'
  <2>1. /\ ((Gone \ raised) \cap Taken)' = {}
        /\ ((forgotten \ raised) \cap (InRows \cup Issued("store")))' = {}
    BY <1>1, <1>2, <1>4, <1>6, <1>7 DEF NotBack
  <2>2. ASSUME NEW i \in DOMAIN writes', NEW j \in DOMAIN writes',
               writes'[i].op = "remove", writes'[j].op = "store",
               writes'[i].row.m = writes'[j].row.m
        PROVE  writes'[i].row.m \in raised \/ j < i
    <3>1. j \in 1..n
      BY <1>5, <1>6, <2>2
    <3>2. CASE i = n + 1
      BY <1>6, <3>1, <3>2
    <3>3. CASE i # n + 1
      BY <1>1, <1>6, <2>2, <3>1, <3>3 DEF NotBack
    <3> QED
      BY <3>2, <3>3
  <2> QED
    BY <1>4, <2>1, <2>2 DEF NotBack
<1>12. Bounded'
  <2>1. PICK k \in Nat : /\ \A e \in rows : e.seq <= k
                         /\ \A i \in DOMAIN writes : writes[i].row.seq <= k
    BY <1>1 DEF Bounded
  <2>2. \A i \in 1..n + 1 : writes'[i].row.seq <= k
    BY <1>5, <1>6, <2>1
  <2> QED
    BY <1>4, <1>6, <2>1, <2>2 DEF Bounded
<1>13. Fits(worker, Taken, Gone, used, raised)'
  <2>1. response # NoMessage => response \notin used /\ response \in used'
    BY <1>3
  <2>2. response # NoMessage => response # m /\ response \notin Taken' \cup Gone'
    BY <1>1, <1>2, <1>7, <2>1 DEF Known
  <2>3. m \in used' /\ m \notin Taken'
    BY <1>2, <1>3, <1>7
  <2> HIDE DEF m
  <2> QED
    BY <1>2, <1>8, <2>1, <2>2, <2>3 DEF Fits
<1> QED
  BY <1>9, <1>10, <1>11, <1>12, <1>13 DEF RouterInv

\* The response is sent, or there is none.
LEMMA RespondKeepsInv ==
    ASSUME RouterInv, Respond
    PROVE  RouterInv'
<1>1. /\ RouterTypeOK /\ Lists /\ Known /\ NotBack /\ Fits(worker, Taken, Gone, used, raised)
  BY DEF RouterInv
<1>2. Gone \subseteq Messages
  BY <1>1 DEF Known
<1>3. CASE worker' = Idle /\ UNCHANGED <<queue, writes, seq, dead>>
  <2>1. Fits(worker', Taken', Gone, used, raised)
    BY <1>2, <1>3, IdleFits
  <2> QED
    BY <1>1, <1>3, <2>1, QuietKeepsInv DEF Respond, RouterTypeOK
<1>4. CASE /\ worker.response # NoMessage /\ Puts(worker.response, 0, dead)
           /\ \/ worker' = [worker EXCEPT !.phase = "responding"]
              \/ worker' = Idle
  <2> DEFINE r == worker.response
  <2>1. /\ r \in Messages /\ r \in used /\ r # worker.m /\ r \notin Taken \cup Gone
        /\ worker.m \in Messages /\ worker.m \in used /\ worker.m \notin Taken
    BY <1>1, <1>4, RouterAssumption DEF Fits, Respond, Worker
  <2>2. Fits(worker', Taken \cup {r}, Gone, used, raised)
    <3>1. CASE worker' = Idle
      BY <1>2, <3>1, IdleFits
    <3>2. CASE worker' = [worker EXCEPT !.phase = "responding"]
      <4>1. /\ worker' \in Worker /\ worker'.phase = "responding"
            /\ worker'.m = worker.m /\ worker'.response = r
        BY <1>1, <3>2 DEF RouterTypeOK, Worker, Phases
      <4> HIDE DEF r
      <4> QED
        BY <2>1, <4>1 DEF Fits
    <3> QED
      BY <1>4, <3>1, <3>2
  <2>3. dead \in Seq(Letter) /\ Len(dead) <= MaxDead /\ Unlike(dead) /\ 0 \in 0..MaxRetries
    BY <1>1, RouterAssumption DEF RouterTypeOK, Lists
  <2>4. /\ UNCHANGED <<rows, handlers, mode, expired, accepted, handled, forgotten, raised>>
        /\ used' = used
    BY DEF Respond, history
  <2>5. used \subseteq Messages
    BY <1>1 DEF Known
  <2> HIDE DEF r
  <2> QED
    BY <1>4, <2>1, <2>2, <2>3, <2>4, <2>5, PutKeepsInv DEF Taken, r
<1> QED
  BY <1>3, <1>4 DEF Respond, Puts

\* The handler failed: its message is backed off, or buried.
LEMMA HandlerFailsKeepsInv ==
    ASSUME RouterInv, HandlerFails
    PROVE  RouterInv'
<1>1. /\ RouterTypeOK /\ Known /\ Fits(worker, Taken, Gone, used, raised)
  BY DEF RouterInv
<1>2. UNCHANGED <<queue, rows, writes, handlers, mode, seq, expired, history>>
  BY DEF HandlerFails
<1>3. /\ worker.m \in Messages /\ worker.m \in used /\ worker.m \notin Taken
      /\ worker.m \notin Gone \ raised /\ worker.tries \in 0..MaxRetries
  BY <1>1, RouterAssumption DEF HandlerFails, Fits, Worker
<1>4. CASE RetriesLeft /\ worker' = [worker EXCEPT !.phase = "backoff"] /\ UNCHANGED dead
  <2>1. /\ worker' \in Worker /\ worker'.phase = "backoff" /\ worker'.m = worker.m
        /\ worker'.response = worker.response /\ worker'.tries = worker.tries
    BY <1>1, <1>4 DEF RouterTypeOK, Worker, Phases
  <2>2. Taken' = Taken
    BY <1>2, <1>4 DEF Taken, Queued
  <2>3. Fits(worker', Taken', Gone, used, raised)
    BY <1>1, <1>3, <1>4, <2>1, <2>2 DEF Fits, RetriesLeft
  <2> QED
    BY <1>1, <1>2, <1>4, <2>3, QuietKeepsInv DEF RouterTypeOK
<1>5. CASE worker' = Idle /\ Bury(worker.m, worker.tries)
  <2>1. Fits(worker', Taken', Gone, used, raised)
    BY <1>1, <1>5, IdleFits DEF Known
  <2>2. worker.m \notin Queued'
    BY <1>2, <1>3 DEF Taken, Queued
  <2> QED
    BY <1>1, <1>2, <1>3, <1>5, <2>1, <2>2, QuietKeepsInv DEF RouterTypeOK, Bury
<1> QED
  BY <1>4, <1>5 DEF HandlerFails, MaybeRetry

\* The backoff is over, and the copy is sent.
LEMMA WakeKeepsInv ==
    ASSUME RouterInv, Wake
    PROVE  RouterInv'
<1>1. /\ RouterTypeOK /\ Lists /\ Known /\ Fits(worker, Taken, Gone, used, raised)
  BY DEF RouterInv
<1> DEFINE m == worker.m
<1>2. /\ m \in Messages /\ m \in used /\ m \notin Taken /\ m \notin Gone \ raised
      /\ worker.tries + 1 \in 0..MaxRetries
  BY <1>1, RouterAssumption DEF Wake, Fits, Worker
<1>3. /\ Puts(m, worker.tries + 1, dead)
      /\ worker' = Idle \/ worker' = [worker EXCEPT !.phase = "restoring"]
      /\ UNCHANGED <<rows, handlers, mode, expired, accepted, handled, forgotten, raised>>
      /\ used' = used
  BY DEF Wake, Puts, history
<1>4. Fits(worker', Taken \cup {m}, Gone, used, raised)
  <2>1. CASE worker' = Idle
    BY <1>1, <2>1, IdleFits DEF Known
  <2>2. CASE worker' = [worker EXCEPT !.phase = "restoring"]
    <3>1. /\ worker' \in Worker /\ worker'.phase = "restoring"
          /\ worker'.m = m /\ worker'.response = worker.response
      BY <1>1, <2>2 DEF RouterTypeOK, Worker, Phases
    <3> QED
      BY <1>1, <1>2, <3>1 DEF Fits
  <2> QED
    BY <1>3, <2>1, <2>2
<1>5. dead \in Seq(Letter) /\ Len(dead) <= MaxDead /\ Unlike(dead) /\ used \subseteq Messages
  BY <1>1 DEF RouterTypeOK, Lists, Known
<1> HIDE DEF m
<1> QED
  BY <1>2, <1>3, <1>4, <1>5, PutKeepsInv DEF Taken

\* SQLite executes the statement that was issued first.
LEMMA CommitKeepsInv ==
    ASSUME RouterInv, Commit
    PROVE  RouterInv'
<1>1. /\ RouterTypeOK /\ Lists /\ Known /\ Kept /\ NotBack /\ Bounded
      /\ Fits(worker, Taken, Gone, used, raised)
  BY DEF RouterInv
<1> DEFINE w == writes[1]
           m == w.row.m
           rest == {e \in rows : e.m # m}
<1>2. /\ writes' \in Seq(Statement)
      /\ w \in Statement /\ 1 \in DOMAIN writes
      /\ \A i \in DOMAIN writes' : i + 1 \in DOMAIN writes /\ writes'[i] = writes[i + 1]
      /\ \A op \in {"store", "remove"} : Issued(op)' \subseteq Issued(op)
      /\ m \in Issued(w.op)
  BY <1>1, FirstLeaves DEF Commit, RouterTypeOK, FirstWrite
<1>3. /\ rows' = IF w.op = "store" THEN rest \cup {w.row} ELSE rest
      /\ accepted' = IF w.op = "store" THEN accepted \cup {m} ELSE accepted
      /\ forgotten' = IF w.op = "remove" THEN forgotten \cup {m} ELSE forgotten
      /\ worker' = IF ~Awaited(w) THEN worker
                   ELSE IF w.op = "remove" THEN [worker EXCEPT !.phase = "removed"]
                   ELSE Idle
      /\ UNCHANGED <<queue, dead, handlers, mode, seq, expired, used, handled, raised>>
  BY DEF Commit, FirstWrite
<1>4. w.op \in {"store", "remove"} /\ w.row \in Entry
  BY <1>2 DEF Statement
<1>5. Taken' = Taken /\ Gone' \subseteq Gone
  BY <1>2, <1>3, <1>4 DEF Taken, Queued, Gone
<1>6. InRows' \subseteq IF w.op = "store" THEN InRows \cup {m} ELSE InRows \ {m}
  BY <1>3, <1>4 DEF InRows
<1>7. InRows \ {m} \subseteq InRows' /\ (w.op = "store" => m \in InRows')
  BY <1>3, <1>4 DEF InRows
<1>8. Fits(worker, Taken, Gone, used, raised)'
  <2>1. CASE worker' = worker
    BY <1>1, <1>3, <1>5, <2>1, StillFits
  <2>2. CASE worker' = Idle
    BY <1>1, <1>3, <1>5, <2>2, IdleFits DEF Known
  <2>3. CASE /\ w.op = "remove" /\ Awaited(w)
             /\ worker' = [worker EXCEPT !.phase = "removed"]
    <3>1. worker.phase = "removing"
      BY <2>3 DEF Awaited
    <3>2. /\ worker' \in Worker /\ worker'.phase = "removed" /\ worker'.m = worker.m
          /\ worker'.response = worker.response
      BY <1>1, <2>3 DEF RouterTypeOK, Worker, Phases
    <3>3. Fits(worker', Taken, Gone, used, raised)
      BY <1>1, <3>1, <3>2 DEF Fits
    <3> QED
      BY <1>3, <1>5, <3>3, StillFits
  <2> QED
    BY <1>3, <2>1, <2>2, <2>3
<1>9. RouterTypeOK'
  <2>1. worker' \in Worker
    BY <1>8 DEF Fits
  <2>2. rows' \subseteq Entry
    BY <1>1, <1>3, <1>4 DEF RouterTypeOK
  <2> QED
    BY <1>1, <1>2, <1>3, <2>1, <2>2 DEF RouterTypeOK
<1>10. Lists' /\ Known'
  <2>1. Lists'
    BY <1>1, <1>3 DEF Lists, Queued
  <2>2. m \in used
    BY <1>1, <1>2, <1>4 DEF Known, Gone
  <2>3. Known'
    BY <1>1, <1>2, <1>3, <1>5, <1>6, <2>2 DEF Known
  <2> QED
    BY <2>1, <2>3
<1>11. Kept'
  <2>1. \A e, f \in rows' : e.m = f.m => e = f
    BY <1>1, <1>3 DEF Kept
  <2>2. w.op = "remove" => m \in handled
    BY <1>1, <1>2 DEF Kept
  <2>3. accepted' \ handled' \subseteq InRows'
    BY <1>1, <1>3, <1>4, <1>7, <2>2 DEF Kept
  <2> QED
    BY <1>1, <1>2, <1>3, <2>1, <2>3 DEF Kept
<1>12. NotBack'
  <2>1. ((Gone \ raised) \cap Taken)' = {}
    BY <1>1, <1>3, <1>5 DEF NotBack
  <2>2. ASSUME NEW g \in (forgotten \ raised)'
        PROVE  g \notin InRows' /\ g \notin Issued("store")'
    <3>1. CASE g = m /\ w.op = "remove"
      <4>1. g \notin InRows'
        BY <1>6, <3>1
      <4>2. ASSUME NEW j \in DOMAIN writes', writes'[j].op = "store", writes'[j].row.m = g
            PROVE  FALSE
        <5>1. j + 1 \in DOMAIN writes /\ writes[j + 1].op = "store" /\ writes[j + 1].row.m = m
          BY <1>2, <3>1, <4>2
        <5>2. j + 1 < 1
          BY <1>1, <1>2, <1>3, <2>2, <3>1, <5>1 DEF NotBack
        <5>3. j \in Nat
          BY <1>2
        <5> QED
          BY <5>2, <5>3
      <4> QED
        BY <4>1, <4>2 DEF Issued
    <3>2. CASE ~(g = m /\ w.op = "remove")
      <4>1. g \in forgotten \ raised
        BY <1>3, <2>2, <3>2
      <4>2. g \notin InRows /\ g \notin Issued("store")
        BY <1>1, <4>1 DEF NotBack
      <4>3. w.op = "store" => g # m
        BY <1>2, <4>2
      <4> QED
        BY <1>2, <1>6, <4>2, <4>3
    <3> QED
      BY <3>1, <3>2
  <2>3. ASSUME NEW i \in DOMAIN writes', NEW j \in DOMAIN writes',
               writes'[i].op = "remove", writes'[j].op = "store",
               writes'[i].row.m = writes'[j].row.m
        PROVE  writes'[i].row.m \in raised' \/ j < i
    <3>1. /\ i + 1 \in DOMAIN writes /\ writes'[i] = writes[i + 1]
          /\ j + 1 \in DOMAIN writes /\ writes'[j] = writes[j + 1]
          /\ i \in Nat /\ j \in Nat
      BY <1>2
    <3>2. writes'[i].row.m \in raised \/ j + 1 < i + 1
      BY <1>1, <2>3, <3>1 DEF NotBack
    <3> QED
      BY <1>3, <3>1, <3>2
  <2> QED
    BY <2>1, <2>2, <2>3 DEF NotBack
<1>13. Bounded'
  <2>1. PICK k \in Nat : /\ \A e \in rows : e.seq <= k
                         /\ \A i \in DOMAIN writes : writes[i].row.seq <= k
    BY <1>1 DEF Bounded
  <2>2. \A e \in rows' : e.seq <= k
    BY <1>2, <1>3, <2>1
  <2>3. \A i \in DOMAIN writes' : writes'[i].row.seq <= k
    BY <1>2, <2>1
  <2> QED
    BY <2>1, <2>2, <2>3 DEF Bounded
<1> QED
  BY <1>8, <1>9, <1>10, <1>11, <1>12, <1>13 DEF RouterInv

\* Or it raises, and the coroutine that awaited it fails.
LEMMA WriteRaisesKeepsInv ==
    ASSUME RouterInv, WriteRaises
    PROVE  RouterInv'
<1>1. /\ RouterTypeOK /\ Lists /\ Known /\ Kept /\ NotBack /\ Bounded
      /\ Fits(worker, Taken, Gone, used, raised)
  BY DEF RouterInv
<1> DEFINE w == writes[1]
<1>2. /\ writes' \in Seq(Statement)
      /\ \A i \in DOMAIN writes' : i + 1 \in DOMAIN writes /\ writes'[i] = writes[i + 1]
      /\ \A op \in {"store", "remove"} : Issued(op)' \subseteq Issued(op)
  BY <1>1, FirstLeaves DEF WriteRaises, RouterTypeOK
<1>3. /\ raised' = raised \cup {w.row.m} \cup (IF Awaited(w) THEN {worker.m} ELSE {})
      /\ UNCHANGED <<queue, rows, handlers, seq, expired, used, accepted, handled, forgotten>>
      /\ \/ Awaited(w) /\ worker.phase # "restoring" /\ MaybeRetry /\ UNCHANGED mode
         \/ /\ Awaited(w) /\ worker.phase = "restoring"
            /\ worker' = Idle
            /\ mode' = IF mode = "draining" THEN "closed" ELSE mode
            /\ UNCHANGED dead
         \/ ~Awaited(w) /\ UNCHANGED <<worker, dead, mode>>
  BY DEF WriteRaises, FirstWrite
<1>4. /\ raised \subseteq raised' /\ Queued' = Queued /\ InRows' = InRows
      /\ Gone' \subseteq Gone /\ Gone \subseteq Messages
  BY <1>1, <1>2, <1>3 DEF Queued, InRows, Gone, Known
<1>5. /\ dead' \in Seq(Letter) /\ Len(dead') <= MaxDead /\ Unlike(dead')
      /\ Fits(worker', Queued \cup DeadOf(dead'), Gone, used, raised')
      /\ \A m \in DeadOf(dead') : m \in DeadOf(dead) \/ (m \in raised' \cap used /\ m \notin Queued)
  <2>1. CASE UNCHANGED <<worker, dead>>
    BY <1>1, <1>4, <2>1, StillFits DEF RouterTypeOK, Lists, Taken
  <2>2. CASE worker' = Idle /\ UNCHANGED dead
    BY <1>1, <1>4, <2>2, IdleFits DEF RouterTypeOK, Lists
  <2>3. CASE Awaited(w) /\ worker.phase # "restoring" /\ MaybeRetry
    <3>1. /\ worker.phase \in {"removing", "responding"} /\ worker.m \in raised'
          /\ worker.m \in Messages /\ worker.m \in used /\ worker.m \notin Taken
          /\ worker.tries \in 0..MaxRetries
      BY <1>1, <1>3, <2>3, RouterAssumption DEF Awaited, Fits, Worker
    <3>2. CASE RetriesLeft /\ worker' = [worker EXCEPT !.phase = "backoff"] /\ UNCHANGED dead
      <4>1. /\ worker' \in Worker /\ worker'.phase = "backoff" /\ worker'.m = worker.m
            /\ worker'.response = worker.response /\ worker'.tries = worker.tries
        BY <1>1, <3>2 DEF RouterTypeOK, Worker, Phases
      <4>2. Fits(worker', Queued \cup DeadOf(dead'), Gone, used, raised')
        BY <1>1, <3>1, <3>2, <4>1 DEF Fits, RetriesLeft, Taken
      <4> QED
        BY <1>1, <3>2, <4>2 DEF RouterTypeOK, Lists
    <3>3. CASE worker' = Idle /\ dead' = Buried(dead, worker.m, worker.tries)
      <4>1. Fits(worker', Queued \cup DeadOf(dead'), Gone, used, raised')
        BY <1>4, <3>3, IdleFits
      <4> QED
        BY <1>1, <3>1, <3>3, <4>1, BuriedFacts DEF RouterTypeOK, Lists, Taken
    <3> QED
      BY <2>3, <3>2, <3>3 DEF MaybeRetry, Bury
  <2> QED
    BY <1>3, <2>1, <2>2, <2>3
<1>6. Fits(worker, Taken, Gone, used, raised)'
  <2>1. Taken' = Queued \cup DeadOf(dead')
    BY <1>4 DEF Taken
  <2> QED
    BY <1>3, <1>4, <1>5, <2>1, StillFits
<1>7. RouterTypeOK'
  <2>1. worker' \in Worker /\ mode' \in {"running", "draining", "closed"}
    BY <1>1, <1>3, <1>5 DEF Fits, RouterTypeOK
  <2> QED
    BY <1>1, <1>2, <1>3, <1>5, <2>1 DEF RouterTypeOK
<1>8. Lists' /\ Known' /\ Kept'
  <2>1. Lists'
    BY <1>1, <1>3, <1>4, <1>5 DEF Lists
  <2>2. Known'
    BY <1>1, <1>2, <1>3, <1>4, <1>5 DEF Known, Taken
  <2>3. Kept'
    BY <1>1, <1>2, <1>3, <1>4 DEF Kept
  <2> QED
    BY <2>1, <2>2, <2>3
<1>9. NotBack'
  <2>1. ((Gone \ raised) \cap Taken)' = {}
    BY <1>1, <1>4, <1>5 DEF NotBack, Taken
  <2>2. ((forgotten \ raised) \cap (InRows \cup Issued("store")))' = {}
    BY <1>1, <1>2, <1>3, <1>4 DEF NotBack
  <2>3. ASSUME NEW i \in DOMAIN writes', NEW j \in DOMAIN writes',
               writes'[i].op = "remove", writes'[j].op = "store",
               writes'[i].row.m = writes'[j].row.m
        PROVE  writes'[i].row.m \in raised' \/ j < i
    <3>1. /\ i + 1 \in DOMAIN writes /\ writes'[i] = writes[i + 1]
          /\ j + 1 \in DOMAIN writes /\ writes'[j] = writes[j + 1]
          /\ i \in Nat /\ j \in Nat
      BY <1>2
    <3>2. writes'[i].row.m \in raised \/ j + 1 < i + 1
      BY <1>1, <2>3, <3>1 DEF NotBack
    <3> QED
      BY <1>4, <3>1, <3>2
  <2> QED
    BY <2>1, <2>2, <2>3 DEF NotBack
<1>10. Bounded'
  BY <1>1, <1>2, <1>3 DEF Bounded
<1> QED
  BY <1>6, <1>7, <1>8, <1>9, <1>10 DEF RouterInv

-------------------------------------------------------------------------------
(* Restarts *)

\* Sets of numbers have a least element.
LEMMA LeastNumber ==
    ASSUME NEW S \in SUBSET Nat, S # {}
    PROVE  \E n \in S : \A k \in S : n <= k
<1> DEFINE R == OpToRel(<, Nat)
<1>1. IsWellFoundedOn(R, Nat)
  BY NatLessThanWellFounded
<1>2. \A a, b \in Nat : a < b => <<a, b>> \in R
  BY DEF OpToRel
<1> HIDE DEF R
<1>3. PICK n \in S : \A k \in S : ~ (<<k, n>> \in R)
  BY <1>1, WFMin
<1>4. ASSUME NEW k \in S PROVE n <= k
  <2>1. k \in Nat /\ n \in Nat
    OBVIOUS
  <2>2. ~ (k < n)
    BY <2>1, <1>2, <1>3
  <2> QED
    BY <2>1, <2>2
<1> QED
  BY <1>4

\* init() goes on behind the largest sequence number it loaded.
LEMMA SeqAfterFacts ==
    ASSUME NEW S \in SUBSET Entry, NEW n \in Nat, \A e \in S : e.seq <= n
    PROVE  SeqAfter(S) \in Nat /\ \A e \in S : e.seq < SeqAfter(S)
<1>1. CASE S = {}
  BY <1>1 DEF SeqAfter
<1>2. CASE S # {}
  <2> DEFINE N == {e.seq : e \in S}
             D == {n - k : k \in N}
             Largest(k) == \A e \in S : e.seq <= k
  <2>1. \A e \in S : e.seq \in Nat
    BY DEF Entry
  <2>2. N \subseteq Nat /\ N # {} /\ \A k \in N : k <= n
    BY <1>2, <2>1
  <2>3. D \subseteq Nat /\ D # {}
    BY <2>2
  <2>4. PICK d \in D : \A k \in D : d <= k
    BY <2>3, LeastNumber
  <2>5. PICK k \in N : d = n - k
    BY <2>4
  <2>6. Largest(k)
    <3>1. ASSUME NEW e \in S PROVE e.seq <= k
      <4>1. n - e.seq \in D /\ e.seq \in Nat /\ k \in Nat
        BY <2>1, <2>2, <2>5
      <4>2. n - k <= n - e.seq
        BY <2>4, <2>5, <4>1
      <4> QED
        BY <4>1, <4>2
    <3> QED
      BY <3>1
  <2> DEFINE c == CHOOSE x \in N : Largest(x)
  <2>7. c \in N /\ Largest(c)
    BY <2>6
  <2>8. SeqAfter(S) = 1 + c
    BY <1>2 DEF SeqAfter
  <2> HIDE DEF c
  <2> QED
    BY <2>1, <2>2, <2>7, <2>8
<1> QED
  BY <1>1, <1>2

\* A restart loads rows, which hold nothing that is forgotten.
LEMMA RestartKeepsInv ==
    ASSUME RouterInv, Restart
    PROVE  RouterInv'
<1>1. /\ RouterTypeOK /\ Known /\ Kept /\ NotBack /\ Bounded
  BY DEF RouterInv
<1>2. /\ expired' \subseteq Messages
      /\ queue' = {e \in rows : e.m \notin expired'} /\ seq' = SeqAfter(queue')
      /\ writes' = <<>> /\ dead' = <<>> /\ worker' = Idle
      /\ handlers' = Modules /\ mode' = "running"
      /\ UNCHANGED <<rows, used, accepted, handled, forgotten, raised>>
  BY <1>1 DEF Restart, RouterTypeOK, history
<1>3. PICK n \in Nat : \A e \in rows : e.seq <= n
  BY <1>1 DEF Bounded
<1>4. queue' \subseteq rows /\ queue' \subseteq Entry
  BY <1>1, <1>2 DEF RouterTypeOK
<1>5. seq' \in Nat
  BY <1>2, <1>3, <1>4, SeqAfterFacts
<1>6. /\ DeadOf(dead') = {} /\ Unlike(dead') /\ Issued("store")' = {} /\ Issued("remove")' = {}
      /\ writes' \in Seq(Statement) /\ dead' \in Seq(Letter) /\ Len(dead') <= MaxDead
      /\ DOMAIN writes' = {}
  BY <1>2, RouterAssumption, EmptySeq DEF DeadOf, Unlike, Issued
<1>7. /\ Taken' = Queued' /\ Queued' \subseteq InRows
      /\ InRows' = InRows /\ Gone' = forgotten /\ forgotten \subseteq Gone
  BY <1>2, <1>4, <1>6 DEF Taken, Queued, InRows, Gone
<1>8. Fits(worker, Taken, Gone, used, raised)'
  BY <1>1, <1>2, <1>7, IdleFits DEF Known
<1>9. RouterTypeOK'
  <2>1. worker' \in Worker
    BY <1>8 DEF Fits
  <2> QED
    BY <1>1, <1>2, <1>4, <1>5, <1>6, <2>1 DEF RouterTypeOK
<1>10. Lists' /\ Known' /\ Kept'
  <2>1. Lists'
    BY <1>1, <1>4, <1>6 DEF Lists, Kept
  <2>2. Known'
    BY <1>1, <1>2, <1>6, <1>7 DEF Known
  <2>3. Kept'
    BY <1>1, <1>2, <1>6, <1>7 DEF Kept
  <2> QED
    BY <2>1, <2>2, <2>3
<1>11. NotBack'
  BY <1>1, <1>2, <1>6, <1>7 DEF NotBack
<1>12. Bounded'
  BY <1>2, <1>3, <1>6 DEF Bounded
<1> QED
  BY <1>8, <1>9, <1>10, <1>11, <1>12 DEF RouterInv

-------------------------------------------------------------------------------
(* The theorems *)

\* The initial states satisfy the invariant.
LEMMA RouterStart == RouterInit => RouterInv
<1> SUFFICES ASSUME RouterInit PROVE RouterInv
  OBVIOUS
<1>1. /\ Queued = {} /\ DeadOf(dead) = {} /\ Unlike(dead) /\ InRows = {}
      /\ Issued("store") = {} /\ Issued("remove") = {}
      /\ writes \in Seq(Statement) /\ dead \in Seq(Letter) /\ Len(dead) <= MaxDead
      /\ DOMAIN writes = {}
  BY RouterAssumption, EmptySeq DEF RouterInit, Queued, DeadOf, Unlike, InRows, Issued
<1>2. Taken = {} /\ Gone = {}
  BY <1>1 DEF RouterInit, Taken, Gone
<1>3. Fits(worker, Taken, Gone, used, raised)
  BY <1>2, IdleFits DEF RouterInit
<1>4. RouterTypeOK
  <2>1. worker \in Worker
    BY <1>3 DEF Fits
  <2> QED
    BY <1>1, <2>1 DEF RouterInit, RouterTypeOK
<1>5. Lists /\ Known /\ Kept /\ NotBack /\ Bounded
  <2>1. Lists
    BY <1>1 DEF RouterInit, Lists
  <2>2. Known
    BY <1>1, <1>2 DEF RouterInit, Known
  <2>3. Kept
    BY <1>1 DEF RouterInit, Kept
  <2>4. NotBack
    BY <1>1, <1>2 DEF RouterInit, NotBack
  <2>5. Bounded
    BY <1>1 DEF RouterInit, Bounded
  <2> QED
    BY <2>1, <2>2, <2>3, <2>4, <2>5
<1> QED
  BY <1>3, <1>4, <1>5 DEF RouterInv

\* Every step keeps it.
LEMMA RouterStep == RouterInv /\ [RouterNext]_vars => RouterInv'
<1> SUFFICES ASSUME RouterInv, [RouterNext]_vars PROVE RouterInv'
  OBVIOUS
<1>1. RouterTypeOK /\ Known /\ Fits(worker, Taken, Gone, used, raised)
  BY DEF RouterInv
<1>2. ASSUME queue' = queue, dead' = dead, worker' = worker \/ worker' = Idle
      PROVE  Taken' = Taken /\ Fits(worker', Taken', Gone, used, raised)
  <2>1. Taken' = Taken
    BY <1>2 DEF Taken, Queued
  <2>2. CASE worker' = worker
    BY <1>1, <2>1, <2>2
  <2>3. CASE worker' = Idle
    <3>1. Gone \subseteq Messages
      BY <1>1 DEF Known
    <3>2. Fits(Idle, Taken', Gone, used, raised)
      BY <3>1, IdleFits
    <3> QED
      BY <2>1, <2>3, <3>2
  <2> QED
    BY <1>2, <2>1, <2>2, <2>3
<1>3. ASSUME queue' = queue, dead' = dead, worker' = worker \/ worker' = Idle,
             handlers' \subseteq Modules, mode' \in {"running", "draining", "closed"},
             expired' \subseteq Messages, UNCHANGED <<rows, writes, seq, history>>
      PROVE  RouterInv'
  BY <1>2, <1>3, QuietKeepsInv
<1>4. CASE Work
  <2>1. ASSUME NEW e \in queue, Take(e) \/ Discard(e) PROVE RouterInv'
    BY <2>1, TakeKeepsInv
  <2>2. CASE Close
    BY <1>1, <1>3, <2>2 DEF Close, RouterTypeOK
  <2> QED
    BY <1>4, <2>1, <2>2, ReturnKeepsInv, RespondKeepsInv, HandlerFailsKeepsInv, WakeKeepsInv
       DEF Work
<1>5. ASSUME NEW m \in Messages, Expire(m) PROVE RouterInv'
  BY <1>1, <1>3, <1>5 DEF Expire, memory, RouterTypeOK
<1>6. ASSUME NEW n \in Modules, Register(n) \/ Unregister(n) PROVE RouterInv'
  <2>1. handlers' \subseteq Modules
    BY <1>1, <1>6 DEF Register, Unregister, RouterTypeOK
  <2> QED
    BY <1>1, <1>3, <1>6, <2>1 DEF Register, Unregister, RouterTypeOK
<1>7. CASE Stop
  BY <1>1, <1>3, <1>7 DEF Stop, RouterTypeOK
<1>8. CASE UNCHANGED vars
  BY <1>1, <1>3, <1>8 DEF vars, memory, RouterTypeOK
<1> QED
  BY <1>4, <1>5, <1>6, <1>7, <1>8, CommitKeepsInv, WriteRaisesKeepsInv, SendKeepsInv,
     RetryDeadKeepsInv, RestartKeepsInv DEF RouterNext

\* The invariant always holds.
LEMMA RouterAlways == RouterSpec => []RouterInv
BY RouterStart, RouterStep, PTL DEF RouterSpec

\* Types, and the bound of the dead-letter queue: whatever is queued, retried, buried
\* and replayed, DeadLetterQueue never holds more than max_size.
THEOREM RouterTyped == RouterSpec => []RouterTypeOK
<1>1. RouterInv => RouterTypeOK
  BY DEF RouterInv
<1> QED
  BY <1>1, RouterAlways, PTL

\* Retries, operator retries and replay never make two copies of a message.
THEOREM CopiesAreSingle == RouterSpec => []SingleCopy
<1>1. RouterInv => SingleCopy
  <2> SUFFICES ASSUME RouterInv PROVE SingleCopy
    OBVIOUS
  <2>1. Lists /\ Fits(worker, Taken, Gone, used, raised)
    BY DEF RouterInv
  <2>2. \A m \in Held : m \notin Taken
    BY <2>1 DEF Held, Fits
  <2>3. \A e \in queue : e.m \in Queued /\ e.m \in Taken
    BY DEF Queued, Taken
  <2>4. \A i \in DOMAIN dead : dead[i].m \in DeadOf(dead) /\ dead[i].m \in Taken
    BY DEF DeadOf, Taken
  <2>5. \A e \in queue : \A i \in DOMAIN dead : dead[i].m # e.m
    BY <2>1, <2>3, <2>4 DEF Lists
  <2> QED
    BY <2>1, <2>2, <2>3, <2>4, <2>5 DEF SingleCopy, Lists, Unlike
<1> QED
  BY <1>1, RouterAlways, PTL

\* A row stays until a handler returned for its message, and a message whose removal
\* was committed is in no row and will not be delivered, unless a write about it raised.
THEOREM RowsAreTrue == RouterSpec => []RowsFollowMessages
<1>1. RouterInv => RowsFollowMessages
  <2> SUFFICES ASSUME RouterInv PROVE RowsFollowMessages
    OBVIOUS
  <2>1. Kept /\ NotBack /\ Fits(worker, Taken, Gone, used, raised)
    BY DEF RouterInv
  <2>2. \A m \in accepted \ handled : \E e \in rows : e.m = m
    BY <2>1 DEF Kept, InRows
  <2>3. ASSUME NEW m \in forgotten \ raised
        PROVE  ~Owed(m) /\ \A e \in rows : e.m # m
    <3>1. m \in Gone \ raised
      BY DEF Gone
    <3>2. \A e \in queue : e.m # m
      BY <2>1, <3>1 DEF NotBack, Taken, Queued
    <3>3. ~(worker.phase \in {"handling", "backoff"} /\ worker.m = m)
      BY <2>1, <3>1 DEF Fits
    <3>4. \A e \in rows : e.m # m
      BY <2>1 DEF NotBack, InRows
    <3> QED
      BY <3>2, <3>3, <3>4 DEF Owed
  <2> QED
    BY <2>2, <2>3 DEF RowsFollowMessages
<1> QED
  BY <1>1, RouterAlways, PTL

-------------------------------------------------------------------------------
(* Sequence numbers, while the monotonic clock is not reset *)

Stores == {writes[i].row : i \in {k \in DOMAIN writes : writes[k].op = "store"}}

\* What a restart could load, now or when the issued statements are committed.
Live == {e \in rows \cup Stores : e.m \notin expired}

\* _seq is past every entry of the heap and every row that a restart may load, and two
\* of these with one number are the same message.
Numbered ==
    /\ \A e \in queue \cup Live : e.seq <= seq
    /\ \A e, f \in queue : e.seq = f.seq => e = f
    /\ \A e, f \in Live : e.seq = f.seq => e.m = f.m

\* A step that neither queues an entry nor issues a store.
LEMMA FewerKeepNumbers ==
    ASSUME Numbered, queue' \subseteq queue, Live' \subseteq Live, seq' = seq
    PROVE  Numbered'
BY DEF Numbered

\* Nothing becomes live when no store is issued and nobody resets the clock.
LEMMA LiveShrinks ==
    ASSUME rows' \subseteq rows \cup Stores, Stores' \subseteq Stores, expired \subseteq expired'
    PROVE  Live' \subseteq Live
BY DEF Live

\* send() takes the next number.
LEMMA PutKeepsNumbers ==
    ASSUME RouterInv, Numbered, NEW m \in Messages, NEW tries \in 0..MaxRetries,
           NEW letters \in Seq(Letter), Len(letters) <= MaxDead,
           Puts(m, tries, letters), UNCHANGED <<rows, expired>>
    PROVE  Numbered'
<1>1. RouterTypeOK
  BY DEF RouterInv
<1>2. /\ seq \in Nat
      /\ \A e \in queue : e.seq \in Nat
      /\ \A e \in Live : e.seq \in Nat
  <2>1. \A i \in DOMAIN writes : writes[i] \in Statement
    BY <1>1, ElementOfSeq DEF RouterTypeOK
  <2>2. \A e \in Stores : e \in Entry
    BY <2>1 DEF Stores, Statement
  <2> QED
    BY <1>1, <2>2 DEF RouterTypeOK, Live, Entry
<1>3. CASE UNCHANGED <<queue, writes, seq>>
  <2>1. Live' = Live
    BY <1>3 DEF Live, Stores
  <2> QED
    BY <1>3, <2>1, FewerKeepNumbers
<1>4. ASSUME NEW entry \in Entry, entry.m = m, entry.seq = seq + 1,
             queue' = queue \cup {entry},
             writes' = Append(writes, [op |-> "store", row |-> entry]),
             [op |-> "store", row |-> entry] \in Statement,
             seq' = seq + 1
      PROVE  Numbered'
  <2> DEFINE w == [op |-> "store", row |-> entry]
             n == Len(writes)
  <2>1. w.row = entry /\ w \in Statement /\ writes' = Append(writes, w)
    BY <1>4
  <2> HIDE DEF w
  <2>2. /\ DOMAIN writes = 1..n /\ DOMAIN writes' = 1..n + 1
        /\ \A i \in 1..n : writes'[i] = writes[i]
        /\ writes'[n + 1] = w /\ n \in Nat
    BY <1>1, <2>1, IssuedOneMore DEF RouterTypeOK
  <2>3. Stores' \subseteq Stores \cup {entry}
    BY <2>1, <2>2 DEF Stores
  <2>4. Live' \subseteq Live \cup {entry}
    BY <2>3 DEF Live
  <2>5. \A e \in queue \cup Live : e.seq <= seq
    BY DEF Numbered
  <2>6. \A e \in queue \cup Live : e.seq \in Nat /\ e.seq <= seq + 1 /\ e.seq # entry.seq
    BY <1>2, <1>4, <2>5
  <2> QED
    BY <1>2, <1>4, <2>4, <2>6 DEF Numbered
<1> QED
  BY <1>1, <1>3, <1>4, PutFacts

\* The statement that leaves the connection was a store or none.
LEMMA StoresShrink ==
    ASSUME RouterInv, writes # <<>>, writes' = Others(FirstWrite)
    PROVE  /\ Stores' \subseteq Stores
           /\ writes[FirstWrite].op = "store" => writes[FirstWrite].row \in Stores
<1>1. /\ 1 \in DOMAIN writes
      /\ \A i \in DOMAIN writes' : i + 1 \in DOMAIN writes /\ writes'[i] = writes[i + 1]
  BY FirstLeaves DEF RouterInv, RouterTypeOK
<1> QED
  BY <1>1 DEF Stores, FirstWrite

\* A restart goes on behind the rows it loads, which were live.
LEMMA RestartKeepsNumbers ==
    ASSUME RouterInv, Numbered, Restart, ClockResets = {FALSE}
    PROVE  Numbered'
<1>1. RouterTypeOK /\ Kept /\ Bounded
  BY DEF RouterInv
<1>2. /\ expired' = expired /\ rows' = rows /\ writes' = <<>>
      /\ queue' = {e \in rows : e.m \notin expired} /\ seq' = SeqAfter(queue')
  BY DEF Restart
<1>3. Live' = queue' /\ queue' \subseteq Live /\ queue' \subseteq rows /\ queue' \subseteq Entry
  <2>1. Stores' = {}
    BY <1>2, EmptySeq DEF Stores
  <2> QED
    BY <1>1, <1>2, <2>1 DEF Live, RouterTypeOK
<1>4. seq' \in Nat /\ \A e \in queue' : e.seq < seq'
  <2>1. PICK n \in Nat : \A e \in rows : e.seq <= n
    BY <1>1 DEF Bounded
  <2> QED
    BY <1>2, <1>3, <2>1, SeqAfterFacts
<1>5. \A e \in queue' : e.seq \in Nat /\ e.seq <= seq'
  BY <1>3, <1>4 DEF Entry
<1>6. \A e, f \in queue' : e.seq = f.seq => e.m = f.m
  BY <1>3 DEF Numbered
<1>7. \A e, f \in queue' : e.m = f.m => e = f
  BY <1>1, <1>3 DEF Kept
<1> QED
  BY <1>3, <1>5, <1>6, <1>7 DEF Numbered

\* Every step keeps the numbers apart.
LEMMA NumbersStep ==
    ASSUME ClockResets = {FALSE}
    PROVE  RouterInv /\ Numbered /\ [RouterNext]_vars => Numbered'
<1> SUFFICES ASSUME RouterInv, Numbered, [RouterNext]_vars PROVE Numbered'
  OBVIOUS
<1>1. /\ RouterTypeOK /\ Lists /\ Fits(worker, Taken, Gone, used, raised)
      /\ 0 \in 0..MaxRetries
  BY RouterAssumption DEF RouterInv
<1>2. dead \in Seq(Letter) /\ Len(dead) <= MaxDead
  BY <1>1 DEF RouterTypeOK
<1>3. ASSUME NEW m \in Messages, NEW tries \in 0..MaxRetries,
             Puts(m, tries, dead), UNCHANGED <<rows, expired>>
      PROVE  Numbered'
  BY <1>2, <1>3, PutKeepsNumbers
<1>4. ASSUME queue' \subseteq queue, rows' \subseteq rows \cup Stores, Stores' \subseteq Stores,
             expired \subseteq expired', seq' = seq
      PROVE  Numbered'
  BY <1>4, LiveShrinks, FewerKeepNumbers
<1>5. ASSUME queue' \subseteq queue, UNCHANGED <<rows, writes, seq>>, expired \subseteq expired'
      PROVE  Numbered'
  <2>1. Stores' = Stores
    BY <1>5 DEF Stores
  <2> QED
    BY <1>4, <1>5, <2>1
<1>6. CASE Work
  <2>1. ASSUME NEW e \in queue, Take(e) \/ Discard(e) PROVE Numbered'
    <3>1. queue' \subseteq queue /\ UNCHANGED <<rows, writes, seq, expired>>
      BY <2>1 DEF Take, Discard
    <3> QED
      BY <1>5, <3>1
  <2>2. CASE Return
    <3> DEFINE w == [op |-> "remove", row |-> [m |-> worker.m, seq |-> 0, tries |-> 0]]
    <3>1. w.op = "remove" /\ writes' = Append(writes, w)
      BY <2>2 DEF Return
    <3>2. w \in Statement
      BY <1>1, <2>2, RouterAssumption DEF Return, Fits, Statement, Entry
    <3> HIDE DEF w
    <3>3. /\ DOMAIN writes' = DOMAIN writes \cup {Len(writes) + 1}
          /\ \A i \in DOMAIN writes : writes'[i] = writes[i]
          /\ writes'[Len(writes) + 1] = w
      BY <1>1, <3>1, <3>2, IssuedOneMore DEF RouterTypeOK
    <3>4. Stores' \subseteq Stores
      BY <3>1, <3>3 DEF Stores
    <3> QED
      BY <1>4, <2>2, <3>4 DEF Return
  <2>3. CASE Respond
    <3>1. CASE worker.response = NoMessage
      BY <1>5, <2>3, <3>1 DEF Respond
    <3>2. CASE worker.response # NoMessage
      <4>1. worker.response \in Messages
        BY <1>1, <3>2 DEF Fits, Worker
      <4>2. Puts(worker.response, 0, dead) /\ UNCHANGED <<rows, expired>>
        BY <2>3, <3>2 DEF Respond, Puts
      <4> QED
        BY <1>1, <1>3, <4>1, <4>2
    <3> QED
      BY <3>1, <3>2
  <2>4. CASE HandlerFails
    BY <1>5, <2>4 DEF HandlerFails
  <2>5. CASE Wake
    <3>1. worker.m \in Messages /\ worker.tries + 1 \in 0..MaxRetries
      BY <1>1, <2>5, RouterAssumption DEF Wake, Fits, Worker
    <3>2. Puts(worker.m, worker.tries + 1, dead) /\ UNCHANGED <<rows, expired>>
      BY <2>5 DEF Wake, Puts
    <3> QED
      BY <1>3, <3>1, <3>2
  <2>6. CASE Close
    BY <1>5, <2>6 DEF Close
  <2> QED
    BY <1>6, <2>1, <2>2, <2>3, <2>4, <2>5, <2>6 DEF Work
<1>7. CASE Commit
  <2>1. /\ Stores' \subseteq Stores
        /\ writes[FirstWrite].op = "store" => writes[FirstWrite].row \in Stores
    BY <1>7, StoresShrink DEF Commit
  <2>2. rows' \subseteq rows \cup Stores /\ UNCHANGED <<queue, seq, expired>>
    BY <1>7, <2>1 DEF Commit
  <2> QED
    BY <1>4, <2>1, <2>2
<1>8. CASE WriteRaises
  <2>1. Stores' \subseteq Stores
    BY <1>8, StoresShrink DEF WriteRaises
  <2>2. UNCHANGED <<queue, rows, seq, expired>>
    BY <1>8 DEF WriteRaises
  <2> QED
    BY <1>4, <2>1, <2>2
<1>9. ASSUME NEW m \in Messages, Send(m) PROVE Numbered'
  BY <1>1, <1>3, <1>9 DEF Send, Puts
<1>10. ASSUME NEW m \in Messages, Expire(m) PROVE Numbered'
  BY <1>5, <1>10 DEF Expire, memory
<1>11. CASE RetryDead
  <2>1. PICK i \in DOMAIN dead : Puts(dead[i].m, dead[i].tries, Unburied(i))
    BY <1>11 DEF RetryDead, Puts
  <2>2. dead[i].m \in Messages /\ dead[i].tries \in 0..MaxRetries
    <3>1. dead[i] \in Letter
      BY <1>2, <2>1, ElementOfSeq
    <3> QED
      BY <3>1 DEF Letter
  <2>3. Unburied(i) \in Seq(Letter) /\ Len(Unburied(i)) <= MaxDead
    BY <1>2, UnburiedFacts
  <2>4. UNCHANGED <<rows, expired>>
    BY <1>11 DEF RetryDead
  <2> QED
    BY <2>1, <2>2, <2>3, <2>4, PutKeepsNumbers
<1>12. ASSUME NEW n \in Modules, Register(n) \/ Unregister(n) PROVE Numbered'
  BY <1>5, <1>12 DEF Register, Unregister
<1>13. CASE Stop \/ UNCHANGED vars
  BY <1>5, <1>13 DEF Stop, vars, memory
<1> QED
  BY <1>6, <1>7, <1>8, <1>9, <1>10, <1>11, <1>12, <1>13, RestartKeepsNumbers DEF RouterNext

\* While restarts do not follow a reboot, no two entries of the heap tie on priority and
\* sequence number, so the heap never compares two Message objects.
THEOREM HeapNeverTies ==
    ASSUME ClockResets = {FALSE}
    PROVE  RouterSpec => []NoTie
<1>1. RouterInit => Numbered
  <2> SUFFICES ASSUME RouterInit PROVE Numbered
    OBVIOUS
  <2>1. queue = {} /\ rows = {} /\ Stores = {}
    BY EmptySeq DEF RouterInit, Stores
  <2> QED
    BY <2>1 DEF Numbered, Live
<1>2. RouterInv /\ Numbered /\ [RouterNext]_vars => Numbered'
  BY NumbersStep
<1>3. RouterInv /\ Numbered => NoTie
  <2> SUFFICES ASSUME RouterInv, Numbered, NEW e \in queue, NEW f \in queue, e # f
               PROVE  Before(e, f) \/ Before(f, e)
    BY DEF NoTie
  <2>1. e \in Entry /\ f \in Entry
    BY DEF RouterInv, RouterTypeOK
  <2>2. Priority[e.m] \in Nat /\ Priority[f.m] \in Nat /\ e.seq \in Nat /\ f.seq \in Nat
    BY <2>1, RouterAssumption DEF Entry
  <2>3. e.seq # f.seq
    BY DEF Numbered
  <2> QED
    BY <2>2, <2>3 DEF Before
<1> QED
  BY <1>1, <1>2, <1>3, RouterAlways, PTL DEF RouterSpec
-------------------------------------------------------------------------------
(* The bus is a mailbox. *)

\* Which record the rows are, after a step that leaves them alone.
LEMMA RowsStay ==
    ASSUME UNCHANGED <<rows, history>>
    PROVE  UNCHANGED Box!mailboxVars
BY DEF Box!mailboxVars, history

\* A handler that returns serves its message, which is open: only a delivery whose
\* handler has returned holds a message that is being removed.
LEMMA ReturnServes ==
    ASSUME RouterInv, Return
    PROVE  Box!MailboxNext
<1>1. Fits(worker, Taken, Gone, used, raised)
  BY DEF RouterInv
<1>2. worker.m \in Messages /\ worker.m \in used /\ worker.m \notin Gone \ raised
  BY <1>1, RouterAssumption DEF Return, Fits
<1>3. Box!Open(worker.m)
  BY <1>2 DEF Box!Open, Gone
<1>4. PICK response \in (Messages \ used) \cup {NoMessage} :
         used' = used \cup ({response} \ {NoMessage})
  BY DEF Return
<1>5. /\ handled' = handled \cup {worker.m}
      /\ UNCHANGED <<rows, accepted, forgotten, raised>>
  BY DEF Return
<1>6. PICK answer \in {{}} \cup {{a} : a \in Messages} : answer = {response} \ {NoMessage}
  <2>1. {response} \ {NoMessage} \in {{}} \cup {{a} : a \in Messages}
    <3>1. CASE response = NoMessage
      BY <3>1
    <3>2. CASE response # NoMessage
      <4>1. {response} \ {NoMessage} = {response} /\ response \in Messages
        BY <3>2
      <4> QED
        BY <4>1
    <3> QED
      BY <3>1, <3>2
  <2> QED
    BY <2>1
<1>7. answer \cap used = {} /\ used' = used \cup answer
  BY <1>4, <1>6
<1>8. Box!Serve(worker.m, answer)
  BY <1>3, <1>5, <1>7 DEF Box!Serve
<1> QED
  BY <1>2, <1>8 DEF Box!MailboxNext

\* A statement that is committed lodges its message, which nobody struck off, or strikes
\* one that was served.
LEMMA CommitLodgesOrStrikes ==
    ASSUME RouterInv, Commit
    PROVE  Box!MailboxNext
<1>1. RouterTypeOK /\ Known /\ Kept /\ NotBack
  BY DEF RouterInv
<1>2. PICK w \in Statement : w = writes[1] /\ w.row.m \in Issued(w.op)
  BY <1>1, FirstLeaves DEF Commit, RouterTypeOK, FirstWrite
<1>3. PICK m \in Messages : m = w.row.m
  BY DEF Statement, Entry
<1> DEFINE rest == {e \in rows : e.m # m}
<1>4. /\ w.op \in {"store", "remove"}
      /\ rows' = IF w.op = "store" THEN rest \cup {w.row} ELSE rest
      /\ accepted' = IF w.op = "store" THEN accepted \cup {m} ELSE accepted
      /\ forgotten' = IF w.op = "remove" THEN forgotten \cup {m} ELSE forgotten
      /\ UNCHANGED <<used, handled, raised>>
  BY <1>2, <1>3 DEF Commit, FirstWrite, Statement
<1>5. CASE w.op = "store"
  <2>1. {e.m : e \in rows'} = {e.m : e \in rows} \cup {m}
    BY <1>3, <1>4, <1>5
  <2>2. m \in used /\ (m \in forgotten => m \in raised)
    BY <1>1, <1>2, <1>3, <1>5 DEF Known, NotBack
  <2>3. accepted' = accepted \cup {m} /\ UNCHANGED <<used, handled, forgotten, raised>>
    BY <1>4, <1>5
  <2>4. Box!Lodge(m)
    BY <2>1, <2>2, <2>3 DEF Box!Lodge, Box!Open
  <2> QED
    BY <2>4 DEF Box!MailboxNext
<1>6. CASE w.op = "remove"
  <2>1. {e.m : e \in rows'} = {e.m : e \in rows} \ {m}
    BY <1>3, <1>4, <1>6
  <2>2. m \in handled
    BY <1>1, <1>2, <1>3, <1>6 DEF Kept
  <2>3. forgotten' = forgotten \cup {m} /\ UNCHANGED <<used, handled, accepted, raised>>
    BY <1>4, <1>6
  <2>4. Box!Strike(m)
    BY <2>1, <2>2, <2>3 DEF Box!Strike
  <2> QED
    BY <2>4 DEF Box!MailboxNext
<1> QED
  BY <1>4, <1>5, <1>6

\* A write that raises casts doubt on its message, and on the one whose delivery waits.
LEMMA WriteRaisesDoubts ==
    ASSUME RouterInv, WriteRaises
    PROVE  Box!MailboxNext
<1>1. RouterTypeOK /\ Fits(worker, Taken, Gone, used, raised)
  BY DEF RouterInv
<1>2. PICK w \in Statement : w = writes[1]
  BY <1>1, FirstLeaves DEF WriteRaises, RouterTypeOK, FirstWrite
<1>3. PICK m \in Messages : m = w.row.m
  BY DEF Statement, Entry
<1>4. /\ raised' = raised \cup {m} \cup (IF Awaited(w) THEN {worker.m} ELSE {})
      /\ UNCHANGED <<rows, used, accepted, handled, forgotten>>
  BY <1>2, <1>3 DEF WriteRaises, FirstWrite
<1>5. PICK n \in Messages : raised' = raised \cup {m, n}
  <2>1. CASE Awaited(w)
    <3>1. worker.m \in Messages
      BY <1>1, <2>1 DEF Awaited, Fits
    <3> QED
      BY <1>4, <2>1, <3>1
  <2>2. CASE ~Awaited(w)
    BY <1>4, <2>2
  <2> QED
    BY <2>1, <2>2
<1>6. Box!Doubt({m, n})
  BY <1>4, <1>5 DEF Box!Doubt
<1> QED
  BY <1>6 DEF Box!MailboxNext

\* send() from outside brings a message that nobody had created.
LEMMA SendSends ==
    ASSUME NEW m \in Messages, Send(m)
    PROVE  Box!MailboxNext
<1>1. Box!SendOne(m)
  BY DEF Send, Box!SendOne
<1> QED
  BY <1>1 DEF Box!MailboxNext

\* Every step of the bus is a step of the mailbox, or none of its business.
LEMMA StepKeepsMailbox ==
    RouterInv /\ [RouterNext]_vars => [Box!MailboxNext]_(Box!mailboxVars)
<1> SUFFICES ASSUME RouterInv, [RouterNext]_vars
             PROVE  Box!MailboxNext \/ UNCHANGED Box!mailboxVars
  OBVIOUS
<1>1. CASE Work
  <2>1. ASSUME NEW e \in queue, Take(e) \/ Discard(e) PROVE UNCHANGED <<rows, history>>
    BY <2>1 DEF Take, Discard
  <2>2. Respond \/ HandlerFails => UNCHANGED <<rows, history>>
    BY DEF Respond, HandlerFails
  <2>3. Wake \/ Close => UNCHANGED <<rows, history>>
    BY DEF Wake, Close
  <2> QED
    BY <1>1, <2>1, <2>2, <2>3, RowsStay, ReturnServes DEF Work
<1>2. ASSUME NEW m \in Messages, Expire(m) PROVE UNCHANGED <<rows, history>>
  BY <1>2 DEF Expire
<1>3. ASSUME NEW n \in Modules, Register(n) \/ Unregister(n) PROVE UNCHANGED <<rows, history>>
  BY <1>3 DEF Register, Unregister
<1>4. CASE RetryDead \/ Stop \/ Restart \/ UNCHANGED vars
  <2>1. UNCHANGED <<rows, history>>
    BY <1>4 DEF RetryDead, Stop, Restart, vars
  <2> QED
    BY <2>1, RowsStay
<1> QED
  BY <1>1, <1>2, <1>3, <1>4, RowsStay, CommitLodgesOrStrikes, WriteRaisesDoubts, SendSends
     DEF RouterNext

(* The message bus implements Mailbox: whatever is queued, retried, buried, replayed  *)
(* or cut short, and whichever writes raise, its rows only ever move as the record of *)
(* a mailbox may.                                                                     *)
THEOREM RouterKeepsMailbox == RouterSpec => KeepsMailbox
<1>1. RouterInit => Box!MailboxInit
  BY DEF RouterInit, Box!MailboxInit
<1>2. RouterInv /\ [RouterNext]_vars => [Box!MailboxNext]_(Box!mailboxVars)
  BY StepKeepsMailbox
<1> QED
  BY <1>1, <1>2, RouterAlways, PTL DEF RouterSpec, KeepsMailbox, Box!MailboxSpec
===============================================================================
