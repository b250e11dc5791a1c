---------------------------- MODULE DeliveryProofs ----------------------------
(***************************************************************************)
(* Theorems about ApprovalQueue, for any sets of requests and people, any   *)
(* history bound, load limit and quorum, with writes that may raise; and    *)
(* about Delivery, for any jobs, senders, routes and retries.  The          *)
(* composition runs the approval queue as its own module describes it, so   *)
(* that what is proved of the queue holds inside it, and no package leaves   *)
(* unsigned.                                                               *)
(***************************************************************************)
EXTENDS Delivery, FiniteSetTheorems, SequenceTheorems, TLAPS

-------------------------------------------------------------------------------
(***************************************************************************)
(* The approval queue                                                       *)
(***************************************************************************)

\* How a request the process holds is related to its row: an open request may be
\* ahead of its row by signatures whose write raised, a settled one by its execution.
RowOf(r) ==
    /\ r \in pending =>
         /\ disk[r].status \in OpenStatus \cup {"absent"}
         /\ disk[r].received \subseteq mem[r].received
         /\ disk[r].status # "absent" => disk[r].required = mem[r].required
    /\ r \in InHistory =>
         \/ disk[r] = mem[r]
         \/ disk[r].status = "approved" /\ mem[r] = [disk[r] EXCEPT !.status = "executed"]
    /\ disk[r].status = "absent" => disk[r] = NoRow
    /\ created[r] = 0 => r \notin pending /\ r \notin InHistory /\ disk[r] = NoRow

RowSigned(r) ==
    disk[r].status \in Granted => Cardinality(disk[r].received) >= disk[r].required

QueueInv ==
    /\ QueueTypeOK
    /\ EachInOnePlace
    /\ ToldIsKept
    /\ \A r \in Requests : RowOf(r) /\ RowSigned(r)

-------------------------------------------------------------------------------
\* Dropping the first k entries of a list.
LEMMA Dropped ==
    ASSUME NEW S, NEW q \in Seq(S), NEW k \in 0..Len(q)
    PROVE  /\ SubSeq(q, k + 1, Len(q)) \in Seq(S)
           /\ Len(SubSeq(q, k + 1, Len(q))) = Len(q) - k
           /\ \A i \in 1..Len(q) - k : SubSeq(q, k + 1, Len(q))[i] = q[i + k]
<1>1. \A i \in k + 1..Len(q) : q[i] \in S
  OBVIOUS
<1>2. k + 1 \in Int /\ Len(q) \in Int
  OBVIOUS
<1>3. /\ SubSeq(q, k + 1, Len(q)) \in Seq(S)
      /\ Len(SubSeq(q, k + 1, Len(q)))
           = IF k + 1 <= Len(q) THEN Len(q) - (k + 1) + 1 ELSE 0
      /\ \A i \in 1..Len(q) - (k + 1) + 1 :
           SubSeq(q, k + 1, Len(q))[i] = q[(k + 1) + i - 1]
  BY <1>1, <1>2, SubSeqProperties
<1>4. Len(q) - (k + 1) + 1 = Len(q) - k
  OBVIOUS
<1>5. ASSUME NEW i \in 1..Len(q) - k
      PROVE  SubSeq(q, k + 1, Len(q))[i] = q[i + k]
  <2>1. i \in 1..Len(q) - (k + 1) + 1 /\ (k + 1) + i - 1 = i + k
    OBVIOUS
  <2> QED
    BY <1>3, <2>1
<1>6. Len(SubSeq(q, k + 1, Len(q))) = Len(q) - k
  BY <1>3
<1> QED
  BY <1>3, <1>5, <1>6

\* Appending to _history keeps a suffix of what would have been there without the bound.
LEMMA ArchivedIsSuffix ==
    ASSUME history \in Seq(Requests), NEW s \in Seq(Requests)
    PROVE  /\ Archived(s) \in Seq(Requests)
           /\ \E k \in Nat :
                /\ Len(Archived(s)) + k = Len(history) + Len(s)
                /\ \A i \in 1..Len(Archived(s)) : Archived(s)[i] = (history \o s)[i + k]
<1>1. /\ history \o s \in Seq(Requests)
      /\ Len(history \o s) = Len(history) + Len(s)
  BY ConcatProperties
<1>2. PICK k : k = IF Excess(Len(history \o s)) < Len(s) THEN Excess(Len(history \o s))
                                                          ELSE Len(s)
  OBVIOUS
<1>3. k \in 0..Len(history \o s)
  BY <1>1, <1>2, QueueAssumption DEF Excess
<1>4. Archived(s) = SubSeq(history \o s, k + 1, Len(history \o s))
  BY <1>2 DEF Archived
<1>5. /\ Archived(s) \in Seq(Requests)
      /\ Len(Archived(s)) = Len(history \o s) - k
      /\ \A i \in 1..Len(history \o s) - k : Archived(s)[i] = (history \o s)[i + k]
  BY <1>1, <1>3, <1>4, Dropped
<1>6. k \in Nat /\ Len(Archived(s)) + k = Len(history) + Len(s)
  BY <1>1, <1>3, <1>5
<1> QED
  BY <1>5, <1>6

\* So its members are old members or appended ones, and stay distinct.
LEMMA ArchivedMembers ==
    ASSUME history \in Seq(Requests), NEW s \in Seq(Requests),
           \A i, j \in 1..Len(history) : history[i] = history[j] => i = j,
           \A i, j \in 1..Len(s) : s[i] = s[j] => i = j,
           \A i \in 1..Len(s) : s[i] \notin InHistory
    PROVE  /\ \A i \in 1..Len(Archived(s)) :
                \/ Archived(s)[i] \in InHistory
                \/ \E j \in 1..Len(s) : Archived(s)[i] = s[j]
           /\ \A i, j \in 1..Len(Archived(s)) : Archived(s)[i] = Archived(s)[j] => i = j
<1> DEFINE longer == history \o s
           a == Archived(s)
<1>1. PICK k \in Nat : /\ Len(a) + k = Len(history) + Len(s)
                       /\ \A i \in 1..Len(a) : a[i] = longer[i + k]
  BY ArchivedIsSuffix
<1>2. Len(a) \in Nat /\ Len(history) \in Nat /\ Len(s) \in Nat
  BY ArchivedIsSuffix
<1>3. \A i \in 1..Len(history) + Len(s) :
         longer[i] = IF i <= Len(history) THEN history[i] ELSE s[i - Len(history)]
  BY ConcatProperties
<1>4. \A i \in 1..Len(history) + Len(s) :
         \/ i \in 1..Len(history) /\ longer[i] = history[i] /\ longer[i] \in InHistory
         \/ i - Len(history) \in 1..Len(s) /\ longer[i] = s[i - Len(history)]
  BY <1>2, <1>3 DEF InHistory
<1>5. \A i \in 1..Len(a) : i + k \in 1..Len(history) + Len(s)
  BY <1>1, <1>2
<1>6. \A i, j \in 1..Len(history) + Len(s) : longer[i] = longer[j] => i = j
  <2> SUFFICES ASSUME NEW i \in 1..Len(history) + Len(s), NEW j \in 1..Len(history) + Len(s),
                      longer[i] = longer[j]
               PROVE  i = j
    OBVIOUS
  <2> HIDE DEF longer
  <2>1. CASE i \in 1..Len(history) /\ j \in 1..Len(history)
    BY <2>1, <1>3, <1>2
  <2>2. CASE i \notin 1..Len(history) /\ j \notin 1..Len(history)
    <3>1. i - Len(history) \in 1..Len(s) /\ j - Len(history) \in 1..Len(s)
      BY <2>2, <1>2
    <3>2. s[i - Len(history)] = s[j - Len(history)]
      BY <2>2, <1>4
    <3>3. i - Len(history) = j - Len(history)
      BY <3>1, <3>2
    <3> QED
      BY <3>3, <1>2
  <2>3. CASE i \in 1..Len(history) /\ j \notin 1..Len(history)
    BY <2>3, <1>4, <1>2
  <2>4. CASE i \notin 1..Len(history) /\ j \in 1..Len(history)
    BY <2>4, <1>4, <1>2
  <2> QED
    BY <2>1, <2>2, <2>3, <2>4
<1> HIDE DEF longer, a
<1>7. \A i \in 1..Len(a) : a[i] \in InHistory \/ \E j \in 1..Len(s) : a[i] = s[j]
  <2> SUFFICES ASSUME NEW i \in 1..Len(a)
               PROVE  a[i] \in InHistory \/ \E j \in 1..Len(s) : a[i] = s[j]
    OBVIOUS
  <2>1. i + k \in 1..Len(history) + Len(s) /\ a[i] = longer[i + k]
    BY <1>1, <1>5
  <2>2. CASE longer[i + k] \in InHistory
    BY <2>1, <2>2
  <2>3. CASE /\ (i + k) - Len(history) \in 1..Len(s)
             /\ longer[i + k] = s[(i + k) - Len(history)]
    BY <2>1, <2>3
  <2> QED
    BY <2>1, <2>2, <2>3, <1>4
<1>8. \A i, j \in 1..Len(a) : a[i] = a[j] => i = j
  <2> SUFFICES ASSUME NEW i \in 1..Len(a), NEW j \in 1..Len(a), a[i] = a[j]
               PROVE  i = j
    OBVIOUS
  <2>1. i + k = j + k
    BY <1>1, <1>5, <1>6
  <2> QED
    BY <2>1, <1>1, <1>2
<1> QED
  BY <1>7, <1>8 DEF a

\* A loop over S, oldest first, visits the members of S, each once.
LEMMA OldestFirstVisits ==
    ASSUME NEW S \in SUBSET Requests, created \in [Requests -> Nat], NEW s \in OldestFirst(S)
    PROVE  /\ s \in Seq(Requests)
           /\ \A i, j \in 1..Len(s) : s[i] = s[j] => i = j
           /\ \A i \in 1..Len(s) : s[i] \in S
<1>1. Cardinality(S) \in Nat
  BY FS_Subset, FS_CardinalityType, QueueAssumption
<1>2. s \in [1..Cardinality(S) -> S] /\ s \in Seq(S) /\ Len(s) = Cardinality(S)
  BY <1>1 DEF OldestFirst
<1>3. s \in Seq(Requests)
  BY <1>1, <1>2
<1>4. \A i, j \in 1..Len(s) : i < j => created[s[i]] < created[s[j]]
  BY <1>2 DEF OldestFirst
<1>5. \A i \in 1..Len(s) : created[s[i]] \in Nat
  BY <1>2
<1>6. \A i, j \in 1..Len(s) : s[i] = s[j] => i = j
  <2> SUFFICES ASSUME NEW i \in 1..Len(s), NEW j \in 1..Len(s), s[i] = s[j], i # j
               PROVE  FALSE
    OBVIOUS
  <2>1. i < j \/ j < i
    BY <1>1, <1>2
  <2> QED
    BY <2>1, <1>4, <1>5
<1> QED
  BY <1>2, <1>3, <1>6

\* What _history becomes when the requests of S, none of them in it, are archived.
LEMMA HistoryAfter ==
    ASSUME QueueInv, NEW S, NEW s \in Seq(Requests),
           \A i, j \in 1..Len(s) : s[i] = s[j] => i = j,
           \A i \in 1..Len(s) : s[i] \in S,
           S \cap InHistory = {},
           history' = Archived(s)
    PROVE  /\ history' \in Seq(Requests)
           /\ \A i, j \in 1..Len(history') : history'[i] = history'[j] => i = j
           /\ \A r \in InHistory' : r \in InHistory \/ r \in S
<1>1. /\ history \in Seq(Requests)
      /\ \A i, j \in 1..Len(history) : history[i] = history[j] => i = j
      /\ \A i \in 1..Len(s) : s[i] \notin InHistory
  BY DEF QueueInv, QueueTypeOK, EachInOnePlace
<1>2. history' \in Seq(Requests)
  BY <1>1, ArchivedIsSuffix
<1>3. /\ \A i \in 1..Len(history') :
           \/ history'[i] \in InHistory
           \/ \E j \in 1..Len(s) : history'[i] = s[j]
      /\ \A i, j \in 1..Len(history') : history'[i] = history'[j] => i = j
  BY <1>1, ArchivedMembers
<1>4. \A r \in InHistory' : r \in InHistory \/ r \in S
  BY <1>3 DEF InHistory
<1> QED
  BY <1>2, <1>3, <1>4

\* approve() and deny() settle an open request.
LEMMA SettleKeepsInv ==
    ASSUME QueueInv, NEW r \in pending, NEW row \in Row, NEW ok \in BOOLEAN,
           row.status \in {"approved", "denied", "expired"},
           row.status = "approved" => Cardinality(row.received) >= row.required,
           Settle(r, row, ok)
    PROVE  QueueInv'
<1> USE DEF QueueInv
<1>1. r \in Requests /\ r \notin InHistory
  BY DEF QueueTypeOK, EachInOnePlace
<1>2. row.status \in SettledStatus /\ row.status # "absent" /\ row.status \notin OpenStatus
  BY DEF SettledStatus, OpenStatus
<1>3. /\ history' \in Seq(Requests)
      /\ \A i, j \in 1..Len(history') : history'[i] = history'[j] => i = j
      /\ \A q \in InHistory' : q \in InHistory \/ (ok /\ q = r)
  <2>1. CASE ok
    <3>1. <<r>> \in Seq(Requests) /\ Len(<<r>>) = 1 /\ <<r>>[1] = r
      BY <1>1
    <3>2. history' = Archived(<<r>>)
      BY <2>1 DEF Settle
    <3>3. {r} \cap InHistory = {}
      BY <1>1
    <3>4. \A i, j \in 1..Len(<<r>>) : <<r>>[i] = <<r>>[j] => i = j
      BY <3>1
    <3>5. \A i \in 1..Len(<<r>>) : <<r>>[i] \in {r}
      BY <3>1
    <3>6. /\ history' \in Seq(Requests)
          /\ \A i, j \in 1..Len(history') : history'[i] = history'[j] => i = j
          /\ \A q \in InHistory' : q \in InHistory \/ q \in {r}
      BY <3>1, <3>2, <3>3, <3>4, <3>5, HistoryAfter
    <3> QED
      BY <3>6, <2>1
  <2>2. CASE ~ok
    <3>1. history' = history
      BY <2>2 DEF Settle
    <3> QED
      BY <3>1 DEF QueueTypeOK, EachInOnePlace, InHistory
  <2> QED
    BY <2>1, <2>2
<1>4. /\ pending' = pending \ {r}
      /\ mem' = [mem EXCEPT ![r] = row]
      /\ disk' = IF ok THEN [disk EXCEPT ![r] = row] ELSE disk
      /\ acked' = IF ok THEN [acked EXCEPT ![r] = acked[r] \cup {row.status}] ELSE acked
      /\ created' = created /\ overdue' = overdue
  BY DEF Settle, Write, Tell
<1>5. disk[r].status \notin SettledStatus /\ acked[r] = {}
  <2>1. disk[r].status \in OpenStatus \cup {"absent"}
    BY <1>1 DEF RowOf
  <2>2. disk[r].status \notin SettledStatus
    BY <2>1 DEF OpenStatus, SettledStatus
  <2>3. \A what \in acked[r] : FALSE
    BY <2>1, <1>1 DEF ToldIsKept, QueueTypeOK, OpenStatus, SettledStatus
  <2> QED
    BY <2>2, <2>3
<1>6. QueueTypeOK'
  BY <1>1, <1>2, <1>3, <1>4 DEF QueueTypeOK
<1>7. EachInOnePlace'
  BY <1>1, <1>2, <1>3, <1>4 DEF EachInOnePlace, QueueTypeOK
<1>8. ToldIsKept'
  BY <1>1, <1>4, <1>5 DEF ToldIsKept, QueueTypeOK
<1>9. ASSUME NEW q \in Requests
      PROVE  RowOf(q)' /\ RowSigned(q)'
  <2>1. CASE q = r
    BY <2>1, <1>1, <1>2, <1>3, <1>4 DEF RowOf, RowSigned, QueueTypeOK, Granted
  <2>2. CASE q # r
    <3>1. /\ mem'[q] = mem[q] /\ disk'[q] = disk[q] /\ created'[q] = created[q]
          /\ q \in pending' <=> q \in pending
          /\ q \in InHistory' => q \in InHistory
      BY <2>2, <1>1, <1>3, <1>4 DEF QueueTypeOK
    <3> QED
      BY <3>1 DEF RowOf, RowSigned
  <2> QED
    BY <2>1, <2>2
<1> QED
  BY <1>6, <1>7, <1>8, <1>9

\* propose() adds an open request nothing mentioned before.
LEMMA ProposeKeepsInv ==
    ASSUME QueueInv, NEW r \in Requests, NEW n \in Asked, NEW ok \in BOOLEAN,
           Propose(r, n, ok)
    PROVE  QueueInv'
<1> USE DEF QueueInv
<1>1. /\ r \notin pending /\ r \notin InHistory /\ disk[r] = NoRow
      /\ acked[r] = {}
  <2>1. created[r] = 0
    BY DEF Propose
  <2>2. r \notin pending /\ r \notin InHistory /\ disk[r] = NoRow
    BY <2>1 DEF RowOf
  <2>3. disk[r].status = "absent"
    BY <2>2 DEF NoRow
  <2>4. \A what \in acked[r] : FALSE
    BY <2>3 DEF ToldIsKept, QueueTypeOK, SettledStatus
  <2> QED
    BY <2>2, <2>4
<1>2. PICK row : row = [status |-> "pending", required |-> Required(n), received |-> {}]
  OBVIOUS
<1>3. row \in Row /\ row.status = "pending"
  BY <1>2, QueueAssumption DEF Row, Required, OpenStatus
<1>4. /\ pending' = pending \cup {r}
      /\ mem' = [mem EXCEPT ![r] = row]
      /\ disk' = IF ok THEN [disk EXCEPT ![r] = row] ELSE disk
      /\ history' = history /\ overdue' = overdue /\ acked' = acked
  BY <1>2 DEF Propose, Write
<1>5. Cardinality({q \in Requests : created[q] > 0}) + 1 \in Nat \ {0}
  <2>1. {q \in Requests : created[q] > 0} \in SUBSET Requests
    OBVIOUS
  <2> QED
    BY <2>1, FS_Subset, FS_CardinalityType, QueueAssumption
<1>6. /\ created' \in [Requests -> Nat] /\ created'[r] # 0
      /\ \A q \in Requests \ {r} : created'[q] = created[q]
  BY <1>5 DEF Propose, QueueTypeOK
<1>7. InHistory' = InHistory
  BY <1>4 DEF InHistory
<1>8. QueueTypeOK'
  BY <1>3, <1>4, <1>6 DEF QueueTypeOK
<1>9. EachInOnePlace'
  BY <1>1, <1>3, <1>4, <1>7 DEF EachInOnePlace, QueueTypeOK, OpenStatus
<1>10. ToldIsKept'
  BY <1>1, <1>4 DEF ToldIsKept, QueueTypeOK
<1>11. ASSUME NEW q \in Requests
       PROVE  RowOf(q)' /\ RowSigned(q)'
  <2>1. CASE q = r
    <3>1. r \notin InHistory' /\ mem'[r] = row /\ disk'[r] \in {row, NoRow}
      BY <1>1, <1>4, <1>7 DEF QueueTypeOK
    <3>2. RowSigned(r)'
      BY <3>1, <1>3 DEF RowSigned, Granted, NoRow
    <3>3. RowOf(r)'
      <4>1. CASE disk'[r] = row
        BY <4>1, <3>1, <1>3, <1>6 DEF RowOf, OpenStatus
      <4>2. CASE disk'[r] = NoRow
        <5>1. disk'[r].status = "absent" /\ disk'[r].received = {}
          BY <4>2 DEF NoRow
        <5> QED
          BY <5>1, <4>2, <3>1, <1>3, <1>6 DEF RowOf
      <4> QED
        BY <3>1, <4>1, <4>2
    <3> QED
      BY <3>2, <3>3, <2>1
  <2>2. CASE q # r
    <3>1. /\ mem'[q] = mem[q] /\ disk'[q] = disk[q] /\ created'[q] = created[q]
          /\ q \in pending' <=> q \in pending
          /\ q \in InHistory' <=> q \in InHistory
      BY <2>2, <1>4, <1>6, <1>7 DEF QueueTypeOK
    <3> QED
      BY <3>1 DEF RowOf, RowSigned
  <2> QED
    BY <2>1, <2>2
<1> QED
  BY <1>8, <1>9, <1>10, <1>11

\* A signature short of the quorum leaves the request open.
LEMMA ApprovePartlyKeepsInv ==
    ASSUME QueueInv, NEW r \in Requests, NEW d \in Deciders, NEW ok \in BOOLEAN,
           ApprovePartly(r, d, ok)
    PROVE  QueueInv'
<1> USE DEF QueueInv
<1>1. PICK row : row = [Signed(r, d) EXCEPT !.status = "partially_approved"]
  OBVIOUS
<1>2. /\ row \in Row /\ row.status = "partially_approved"
      /\ row.required = mem[r].required /\ mem[r].received \subseteq row.received
  <2>1. mem[r] \in Row
    BY DEF QueueTypeOK
  <2> QED
    BY <1>1, <2>1 DEF Signed, Row, OpenStatus
<1>3. r \in pending /\ r \notin InHistory
  BY DEF ApprovePartly, EachInOnePlace
<1>4. /\ mem' = [mem EXCEPT ![r] = row]
      /\ disk' = IF ok THEN [disk EXCEPT ![r] = row] ELSE disk
      /\ history' = history /\ overdue' = overdue /\ acked' = acked
      /\ pending' = pending /\ created' = created
  BY <1>1 DEF ApprovePartly, Write
<1>5. InHistory' = InHistory
  BY <1>4 DEF InHistory
<1>6. QueueTypeOK'
  BY <1>2, <1>4 DEF QueueTypeOK
<1>7. EachInOnePlace'
  <2>1. \A q \in Requests : q # r => mem'[q] = mem[q]
    BY <1>4 DEF QueueTypeOK
  <2>2. mem'[r].status \in OpenStatus
    BY <1>2, <1>4 DEF QueueTypeOK, OpenStatus
  <2>3. InHistory \subseteq Requests /\ pending \subseteq Requests
    BY DEF QueueTypeOK, InHistory
  <2>4. \A q \in pending' : mem'[q].status \in OpenStatus
    BY <1>4, <2>1, <2>2, <2>3 DEF EachInOnePlace
  <2>5. \A q \in InHistory' : mem'[q].status \in SettledStatus /\ q \notin pending'
    BY <1>3, <1>4, <1>5, <2>1, <2>3 DEF EachInOnePlace
  <2>6. \A i, j \in 1..Len(history') : history'[i] = history'[j] => i = j
    BY <1>4 DEF EachInOnePlace
  <2> QED
    BY <2>4, <2>5, <2>6 DEF EachInOnePlace
<1>8. disk[r].status \in OpenStatus \cup {"absent"}
  BY <1>3 DEF RowOf
<1>9. ToldIsKept'
  <2>1. \A what \in acked[r] : FALSE
    BY <1>8 DEF ToldIsKept, QueueTypeOK, OpenStatus, SettledStatus
  <2> QED
    BY <2>1, <1>4 DEF ToldIsKept, QueueTypeOK
<1>10. ASSUME NEW q \in Requests
       PROVE  RowOf(q)' /\ RowSigned(q)'
  <2>1. CASE q = r
    <3>1. r \notin InHistory' /\ mem'[r] = row /\ disk'[r] \in {row, disk[r]}
      BY <1>3, <1>4, <1>5 DEF QueueTypeOK
    <3>2. RowSigned(r)'
      BY <3>1, <1>2, <1>8 DEF RowSigned, Granted, OpenStatus
    <3>3. RowOf(r)'
      BY <3>1, <1>2, <1>3, <1>4 DEF RowOf, OpenStatus
    <3> QED
      BY <3>2, <3>3, <2>1
  <2>2. CASE q # r
    <3>1. /\ mem'[q] = mem[q] /\ disk'[q] = disk[q] /\ created'[q] = created[q]
          /\ q \in pending' <=> q \in pending
          /\ q \in InHistory' <=> q \in InHistory
      BY <2>2, <1>4, <1>5 DEF QueueTypeOK
    <3> QED
      BY <3>1 DEF RowOf, RowSigned
  <2> QED
    BY <2>1, <2>2
<1> QED
  BY <1>6, <1>7, <1>9, <1>10

\* mark_executed() moves an approved request, and its row, to executed.
LEMMA MarkExecutedKeepsInv ==
    ASSUME QueueInv, NEW r \in Requests, NEW ok \in BOOLEAN, MarkExecuted(r, ok)
    PROVE  QueueInv'
<1> USE DEF QueueInv
<1>1. PICK row : row = [mem[r] EXCEPT !.status = "executed"]
  OBVIOUS
<1>2. mem[r] \in Row /\ mem[r].status = "approved" /\ r \in InHistory /\ r \notin pending
  BY DEF MarkExecuted, QueueTypeOK, EachInOnePlace
<1>3. /\ row \in Row /\ row.status = "executed"
      /\ row.required = mem[r].required /\ row.received = mem[r].received
  BY <1>1, <1>2 DEF Row, SettledStatus
<1>4. /\ mem' = [mem EXCEPT ![r] = row]
      /\ disk' = IF ok THEN [disk EXCEPT ![r] = row] ELSE disk
      /\ acked' = IF ok THEN [acked EXCEPT ![r] = acked[r] \cup {"executed"}] ELSE acked
      /\ history' = history /\ overdue' = overdue
      /\ pending' = pending /\ created' = created
  BY <1>1 DEF MarkExecuted, Write, Tell
<1>5. InHistory' = InHistory
  BY <1>4 DEF InHistory
<1>6. disk[r] = mem[r]
  <2>1. \/ disk[r] = mem[r]
        \/ mem[r] = [disk[r] EXCEPT !.status = "executed"]
    BY <1>2 DEF RowOf
  <2>2. disk[r] \in Row
    BY DEF QueueTypeOK
  <2> QED
    BY <2>1, <2>2, <1>2 DEF Row
<1>7. QueueTypeOK'
  BY <1>3, <1>4 DEF QueueTypeOK, SettledStatus
<1>8. EachInOnePlace'
  BY <1>2, <1>3, <1>4, <1>5 DEF EachInOnePlace, QueueTypeOK, SettledStatus
<1>9. ToldIsKept'
  <2>1. \A what \in acked[r] : what = "approved"
    BY <1>2, <1>6 DEF ToldIsKept
  <2> QED
    BY <2>1, <1>3, <1>4 DEF ToldIsKept, QueueTypeOK
<1>10. ASSUME NEW q \in Requests
       PROVE  RowOf(q)' /\ RowSigned(q)'
  <2>1. CASE q = r
    <3>1. mem'[r] = row /\ disk'[r] = IF ok THEN row ELSE disk[r]
      BY <1>4 DEF QueueTypeOK
    <3>2. RowSigned(r)'
      BY <3>1, <1>2, <1>3, <1>6 DEF RowSigned, Granted
    <3>3. RowOf(r)'
      BY <3>1, <1>1, <1>2, <1>3, <1>4, <1>5, <1>6 DEF RowOf
    <3> QED
      BY <3>2, <3>3, <2>1
  <2>2. CASE q # r
    <3>1. /\ mem'[q] = mem[q] /\ disk'[q] = disk[q] /\ created'[q] = created[q]
          /\ q \in pending' <=> q \in pending
          /\ q \in InHistory' <=> q \in InHistory
      BY <2>2, <1>4, <1>5 DEF QueueTypeOK
    <3> QED
      BY <3>1 DEF RowOf, RowSigned
  <2> QED
    BY <2>1, <2>2
<1> QED
  BY <1>7, <1>8, <1>9, <1>10

\* What expire_stale() makes of an overdue request.
LEMMA DueRow ==
    ASSUME QueueInv, NEW r \in Due
    PROVE  /\ r \in Requests /\ r \in pending /\ r \notin InHistory /\ acked[r] = {}
           /\ [mem[r] EXCEPT !.status = "expired"] \in Row
           /\ [mem[r] EXCEPT !.status = "expired"].status = "expired"
           /\ [mem[r] EXCEPT !.status = "expired"].required = mem[r].required
           /\ [mem[r] EXCEPT !.status = "expired"].received = mem[r].received
           /\ created[r] # 0
<1>1. r \in pending /\ r \in Requests /\ r \notin InHistory /\ mem[r] \in Row
  BY DEF Due, QueueInv, QueueTypeOK, EachInOnePlace
<1>2. disk[r].status \in OpenStatus \cup {"absent"} /\ created[r] # 0
  BY <1>1 DEF QueueInv, RowOf
<1>3. \A what \in acked[r] : FALSE
  BY <1>1, <1>2 DEF QueueInv, ToldIsKept, QueueTypeOK, OpenStatus, SettledStatus
<1> QED
  BY <1>1, <1>2, <1>3 DEF Row, SettledStatus

\* The sweep, completed or interrupted by a write that raises.
LEMMA ExpireStaleKeepsInv ==
    ASSUME QueueInv, ExpireStale
    PROVE  QueueInv'
<1>1. PICK done \in Begun(Due) :
        LET struck == IF done = Due THEN {} ELSE Oldest(Due \ done)
        IN  /\ pending' = pending \ (done \cup struck)
            /\ mem' = Expired(done \cup struck, mem)
            /\ disk' = Expired(done, disk)
            /\ \E s \in OldestFirst(done) : history' = Archived(s)
            /\ acked' = [r \in Requests |->
                           IF done = Due /\ r \in Due THEN acked[r] \cup {"expired"}
                                                      ELSE acked[r]]
  BY DEF ExpireStale
<1>2. PICK gone : gone = done \cup (IF done = Due THEN {} ELSE Oldest(Due \ done))
  OBVIOUS
<1>3. done \subseteq Due /\ done \subseteq gone /\ gone \subseteq Due
  BY <1>2 DEF Begun, Oldest
<1>4. /\ pending' = pending \ gone
      /\ mem' = [r \in Requests |-> IF r \in gone THEN [mem[r] EXCEPT !.status = "expired"]
                                                  ELSE mem[r]]
      /\ disk' = [r \in Requests |-> IF r \in done THEN [mem[r] EXCEPT !.status = "expired"]
                                                   ELSE disk[r]]
      /\ created' = created /\ overdue' = overdue
  BY <1>1, <1>2 DEF Expired, ExpireStale
<1>5. /\ QueueTypeOK /\ EachInOnePlace /\ ToldIsKept
      /\ \A r \in Requests : RowOf(r) /\ RowSigned(r)
  BY DEF QueueInv
<1>6. /\ history' \in Seq(Requests)
      /\ \A i, j \in 1..Len(history') : history'[i] = history'[j] => i = j
      /\ \A r \in InHistory' : r \in InHistory \/ r \in done
  <2>1. PICK s \in OldestFirst(done) : history' = Archived(s)
    BY <1>1
  <2>2. done \in SUBSET Requests /\ done \cap InHistory = {}
    BY <1>3, DueRow
  <2>3. /\ s \in Seq(Requests)
        /\ \A i, j \in 1..Len(s) : s[i] = s[j] => i = j
        /\ \A i \in 1..Len(s) : s[i] \in done
    BY <2>2, <1>5, OldestFirstVisits DEF QueueTypeOK
  <2> QED
    BY <2>1, <2>2, <2>3, HistoryAfter
<1>7. \A r \in Requests : r \in gone => /\ r \in pending /\ r \notin InHistory
                                        /\ acked[r] = {} /\ created[r] # 0
                                        /\ mem'[r] \in Row /\ mem'[r].status = "expired"
                                        /\ mem'[r].required = mem[r].required
                                        /\ mem'[r].received = mem[r].received
  BY <1>3, <1>4, DueRow
<1>8. \A r \in Requests : r \in done => disk'[r] = mem'[r] /\ r \in gone
  BY <1>3, <1>4
<1>9. \A r \in Requests : /\ r \notin gone => mem'[r] = mem[r]
                          /\ r \notin done => disk'[r] = disk[r]
  BY <1>4
<1>10. \A r \in Requests : acked'[r] = acked[r] \/ (r \in done /\ acked'[r] = {"expired"})
  <2> SUFFICES ASSUME NEW r \in Requests
               PROVE  acked'[r] = acked[r] \/ (r \in done /\ acked'[r] = {"expired"})
    OBVIOUS
  <2>1. CASE done = Due /\ r \in Due
    BY <2>1, <1>1, DueRow
  <2>2. CASE ~(done = Due /\ r \in Due)
    BY <2>2, <1>1
  <2> QED
    BY <2>1, <2>2
<1>11. QueueTypeOK'
  <2>1. acked' \in [Requests -> SUBSET SettledStatus]
    BY <1>1, <1>5 DEF QueueTypeOK, SettledStatus
  <2>2. \A r \in Requests : mem'[r] \in Row /\ disk'[r] \in Row
    BY <1>5, <1>7, <1>8, <1>9 DEF QueueTypeOK
  <2> QED
    BY <2>1, <2>2, <1>4, <1>5, <1>6 DEF QueueTypeOK
<1>12. EachInOnePlace'
  <2>1. \A r \in pending' : r \in Requests /\ r \notin gone /\ mem'[r].status \in OpenStatus
    BY <1>4, <1>5, <1>9 DEF QueueTypeOK, EachInOnePlace
  <2>2. \A r \in InHistory' : r \in Requests
    BY <1>6 DEF InHistory
  <2>3. \A r \in InHistory' : mem'[r].status \in SettledStatus /\ r \notin pending'
    <3> SUFFICES ASSUME NEW r \in InHistory'
                 PROVE  mem'[r].status \in SettledStatus /\ r \notin pending'
      OBVIOUS
    <3>1. CASE r \in done
      BY <3>1, <2>2, <1>4, <1>7, <1>8 DEF SettledStatus
    <3>2. CASE r \in InHistory
      <4>1. r \notin gone
        BY <3>2, <2>2, <1>7
      <4> QED
        BY <4>1, <3>2, <2>2, <1>4, <1>5, <1>9 DEF EachInOnePlace
    <3> QED
      BY <3>1, <3>2, <1>6
  <2> QED
    BY <2>1, <2>3, <1>6 DEF EachInOnePlace
<1>13. ToldIsKept'
  <2> SUFFICES ASSUME NEW r \in Requests, NEW what \in acked'[r]
               PROVE  \/ disk'[r].status = what
                      \/ what = "approved" /\ disk'[r].status = "executed"
    BY DEF ToldIsKept
  <2>1. CASE r \in done
    BY <2>1, <1>7, <1>8, <1>10
  <2>2. CASE r \notin done
    BY <2>2, <1>5, <1>9, <1>10 DEF ToldIsKept
  <2> QED
    BY <2>1, <2>2
<1>14. ASSUME NEW r \in Requests
       PROVE  RowOf(r)' /\ RowSigned(r)'
  <2>1. CASE r \in done
    BY <2>1, <1>4, <1>7, <1>8 DEF RowOf, RowSigned, Granted
  <2>2. CASE r \notin done /\ r \in gone
    BY <2>2, <1>4, <1>5, <1>6, <1>7, <1>9 DEF RowOf, RowSigned
  <2>3. CASE r \notin gone
    <3>1. /\ mem'[r] = mem[r] /\ disk'[r] = disk[r] /\ created'[r] = created[r]
          /\ r \in pending' <=> r \in pending
          /\ r \in InHistory' => r \in InHistory
      BY <2>3, <1>4, <1>6, <1>8, <1>9
    <3> QED
      BY <3>1, <1>5 DEF RowOf, RowSigned
  <2> QED
    BY <2>1, <2>2, <2>3
<1> QED
  BY <1>11, <1>12, <1>13, <1>14 DEF QueueInv

\* A crash, perhaps part-way through a sweep, and the reload of the rows.
LEMMA RestartKeepsInv ==
    ASSUME QueueInv, Restart
    PROVE  QueueInv'
<1>1. PICK done \in Begun(Due) :
        LET kept   == Expired(done, disk)
            loaded == Newest({r \in Requests : kept[r].status # "absent"})
            open   == {r \in loaded : kept[r].status \in OpenStatus}
        IN  /\ disk' = kept
            /\ mem' = kept
            /\ pending' = open
            /\ history' \in OldestFirst(loaded \ open)
            /\ UNCHANGED <<created, overdue, acked>>
  BY DEF Restart
<1>2. PICK loaded : loaded = Newest({r \in Requests : disk'[r].status # "absent"})
  OBVIOUS
<1>3. /\ loaded \subseteq Requests
      /\ \A r \in loaded : disk'[r].status # "absent"
  BY <1>2 DEF Newest
<1>4. /\ disk' = [r \in Requests |-> IF r \in done THEN [mem[r] EXCEPT !.status = "expired"]
                                                   ELSE disk[r]]
      /\ mem' = disk'
      /\ pending' = {r \in loaded : disk'[r].status \in OpenStatus}
      /\ history' \in OldestFirst(loaded \ pending')
      /\ created' = created /\ overdue' = overdue /\ acked' = acked
  BY <1>1, <1>2 DEF Expired
<1>5. done \subseteq Due
  BY DEF Begun
<1>6. /\ QueueTypeOK /\ ToldIsKept
      /\ \A r \in Requests : RowOf(r) /\ RowSigned(r)
  BY DEF QueueInv
<1>7. /\ history' \in Seq(Requests)
      /\ \A i, j \in 1..Len(history') : history'[i] = history'[j] => i = j
      /\ \A r \in InHistory' : r \in loaded /\ r \notin pending'
  <2>1. loaded \ pending' \in SUBSET Requests
    BY <1>3
  <2>2. /\ history' \in Seq(Requests)
        /\ \A i, j \in 1..Len(history') : history'[i] = history'[j] => i = j
        /\ \A i \in 1..Len(history') : history'[i] \in loaded \ pending'
    BY <2>1, <1>4, <1>6, OldestFirstVisits DEF QueueTypeOK
  <2> QED
    BY <2>2 DEF InHistory
<1>8. \A r \in done : /\ acked[r] = {} /\ created[r] # 0 /\ r \in Requests
                      /\ disk'[r] \in Row /\ disk'[r].status = "expired"
  BY <1>4, <1>5, DueRow
<1>9. \A r \in Requests : r \notin done => disk'[r] = disk[r]
  BY <1>4
<1>10. QueueTypeOK'
  <2>1. \A r \in Requests : disk'[r] \in Row
    BY <1>6, <1>8, <1>9 DEF QueueTypeOK
  <2> QED
    BY <2>1, <1>3, <1>4, <1>6, <1>7 DEF QueueTypeOK
<1>11. EachInOnePlace'
  <2>1. \A r \in loaded : disk'[r].status \in OpenStatus \cup SettledStatus
    BY <1>3, <1>10 DEF QueueTypeOK, Row
  <2>2. \A r \in InHistory' : mem'[r].status \in SettledStatus /\ r \notin pending'
    BY <2>1, <1>4, <1>7
  <2> QED
    BY <2>2, <1>4, <1>7 DEF EachInOnePlace
<1>12. ToldIsKept'
  <2> SUFFICES ASSUME NEW r \in Requests, NEW what \in acked'[r]
               PROVE  \/ disk'[r].status = what
                      \/ what = "approved" /\ disk'[r].status = "executed"
    BY DEF ToldIsKept
  <2>1. r \notin done
    BY <1>4, <1>8
  <2> QED
    BY <2>1, <1>4, <1>6, <1>9 DEF ToldIsKept
<1>13. ASSUME NEW r \in Requests
       PROVE  RowOf(r)' /\ RowSigned(r)'
  <2>1. created[r] = 0 => /\ r \notin done /\ disk'[r] = NoRow
                          /\ r \notin pending' /\ r \notin InHistory'
    <3> SUFFICES ASSUME created[r] = 0
                 PROVE  /\ r \notin done /\ disk'[r] = NoRow
                        /\ r \notin pending' /\ r \notin InHistory'
      OBVIOUS
    <3>1. r \notin done /\ disk'[r] = NoRow
      BY <1>6, <1>8, <1>9 DEF RowOf
    <3>2. disk'[r].status = "absent"
      BY <3>1 DEF NoRow
    <3>3. r \notin loaded
      BY <3>2, <1>3
    <3> QED
      BY <3>1, <3>3, <1>4, <1>7
  <2>2. disk'[r].status = "absent" => disk'[r] = NoRow
    BY <1>6, <1>8, <1>9 DEF RowOf
  <2>3. RowSigned(r)'
    BY <1>6, <1>8, <1>9 DEF RowSigned, Granted
  <2>4. RowOf(r)'
    BY <2>1, <2>2, <1>4 DEF RowOf
  <2> QED
    BY <2>3, <2>4
<1> QED
  BY <1>10, <1>11, <1>12, <1>13 DEF QueueInv

-------------------------------------------------------------------------------
\* The empty queue satisfies it.
LEMMA InitInv == QueueInit => QueueInv
<1> SUFFICES ASSUME QueueInit
             PROVE  QueueInv
  OBVIOUS
<1>1. InHistory = {}
  BY DEF QueueInit, InHistory
<1>2. NoRow \in Row /\ NoRow.status = "absent"
  BY DEF NoRow, Row
<1>3. QueueTypeOK
  BY <1>2 DEF QueueInit, QueueTypeOK
<1>4. EachInOnePlace
  BY <1>1 DEF QueueInit, EachInOnePlace
<1>5. ToldIsKept
  BY DEF QueueInit, ToldIsKept
<1>6. \A r \in Requests : RowOf(r) /\ RowSigned(r)
  BY <1>1, <1>2 DEF QueueInit, RowOf, RowSigned, Granted
<1> QED
  BY <1>3, <1>4, <1>5, <1>6 DEF QueueInv

\* Every step keeps it: one lemma above per kind of step.
LEMMA NextInv == QueueInv /\ [QueueNext]_queueVars => QueueInv'
<1> SUFFICES ASSUME QueueInv, [QueueNext]_queueVars
             PROVE  QueueInv'
  OBVIOUS
<1>1. ASSUME NEW r \in Requests, NEW ok \in WriteOutcomes, NEW n \in Asked, Propose(r, n, ok)
      PROVE  QueueInv'
  BY <1>1, ProposeKeepsInv, QueueAssumption
<1>2. ASSUME NEW r \in Requests, NEW ok \in WriteOutcomes, ApproveLate(r, ok)
      PROVE  QueueInv'
  <2>1. PICK row : row = [mem[r] EXCEPT !.status = "expired"]
    OBVIOUS
  <2>2. row \in Row /\ row.status = "expired" /\ r \in pending
    BY <1>2, <2>1 DEF QueueInv, QueueTypeOK, Row, SettledStatus, ApproveLate
  <2>3. Settle(r, row, ok)
    BY <1>2, <2>1 DEF ApproveLate
  <2> QED
    BY <2>2, <2>3, SettleKeepsInv, QueueAssumption
<1>3. ASSUME NEW r \in Requests, NEW ok \in WriteOutcomes, NEW d \in Deciders,
             ApproveFully(r, d, ok)
      PROVE  QueueInv'
  <2>1. PICK row : row = [Signed(r, d) EXCEPT !.status = "approved"]
    OBVIOUS
  <2>2. mem[r] \in Row
    BY DEF QueueInv, QueueTypeOK
  <2>3. /\ row \in Row /\ row.status = "approved" /\ r \in pending
        /\ Cardinality(row.received) >= row.required
    BY <1>3, <2>1, <2>2 DEF Row, SettledStatus, ApproveFully, Signed, IsFullyApproved
  <2>4. Settle(r, row, ok)
    BY <1>3, <2>1 DEF ApproveFully
  <2> QED
    BY <2>3, <2>4, SettleKeepsInv, QueueAssumption
<1>4. ASSUME NEW r \in Requests, NEW ok \in WriteOutcomes, NEW d \in Deciders,
             ApprovePartly(r, d, ok)
      PROVE  QueueInv'
  BY <1>4, ApprovePartlyKeepsInv, QueueAssumption
<1>5. ASSUME NEW r \in Requests, NEW ok \in WriteOutcomes, Deny(r, ok)
      PROVE  QueueInv'
  <2>1. PICK row : row = [mem[r] EXCEPT !.status = "denied"]
    OBVIOUS
  <2>2. row \in Row /\ row.status = "denied" /\ r \in pending
    BY <1>5, <2>1 DEF QueueInv, QueueTypeOK, Row, SettledStatus, Deny
  <2>3. Settle(r, row, ok)
    BY <1>5, <2>1 DEF Deny
  <2> QED
    BY <2>2, <2>3, SettleKeepsInv, QueueAssumption
<1>6. ASSUME NEW r \in Requests, NEW ok \in WriteOutcomes, MarkExecuted(r, ok)
      PROVE  QueueInv'
  BY <1>6, MarkExecutedKeepsInv, QueueAssumption
<1>7. CASE ExpireStale
  BY <1>7, ExpireStaleKeepsInv
<1>8. CASE Restart
  BY <1>8, RestartKeepsInv
<1>9. CASE UNCHANGED <<pending, history, mem, disk, created, acked>> /\ overdue' \subseteq Requests
  <2>1. InHistory' = InHistory
    BY <1>9 DEF InHistory
  <2>2. QueueTypeOK' /\ EachInOnePlace' /\ ToldIsKept'
    BY <2>1, <1>9 DEF QueueInv, QueueTypeOK, EachInOnePlace, ToldIsKept
  <2>3. \A r \in Requests : RowOf(r)' /\ RowSigned(r)'
    BY <2>1, <1>9 DEF QueueInv, RowOf, RowSigned
  <2> QED
    BY <2>2, <2>3 DEF QueueInv
<1>10. ASSUME NEW r \in Requests, Lapse(r)
       PROVE  QueueInv'
  BY <1>9, <1>10 DEF Lapse, QueueInv, QueueTypeOK
<1>11. CASE UNCHANGED queueVars
  BY <1>9, <1>11 DEF queueVars, QueueInv, QueueTypeOK
<1> QED
  BY <1>1, <1>2, <1>3, <1>4, <1>5, <1>6, <1>7, <1>8, <1>10, <1>11 DEF QueueNext

\* The strengthening every theorem below rests on.
THEOREM QueueInvariant == QueueSpec => []QueueInv
  BY InitInv, NextInv, PTL DEF QueueSpec

(* The type invariant: in particular a quorum is never below one signature,       *)
(* whatever required_approvals a caller asked for (propose clamps it).            *)
THEOREM QueueTyped == QueueSpec => []QueueTypeOK
<1>1. QueueInv => QueueTypeOK
  BY DEF QueueInv
<1> QED
  BY <1>1, QueueInvariant, PTL

(* A request is never pending and settled at once, and never twice in _history.    *)
THEOREM OnePlace == QueueSpec => []EachInOnePlace
<1>1. QueueInv => EachInOnePlace
  BY DEF QueueInv
<1> QED
  BY <1>1, QueueInvariant, PTL

(* No request counts as granted without a full quorum of distinct people, in memory *)
(* or in the database, whatever crashed or failed to write.                          *)
THEOREM GrantsAreSigned == QueueSpec => []QuorumBehindGrant
<1>1. QueueInv => QuorumBehindGrant
  <2> SUFFICES ASSUME QueueInv, NEW r \in Requests
               PROVE  /\ disk[r].status \in Granted =>
                           Cardinality(disk[r].received) >= disk[r].required
                      /\ r \in InHistory /\ mem[r].status \in Granted =>
                           Cardinality(mem[r].received) >= mem[r].required
    BY DEF QuorumBehindGrant
  <2>1. RowOf(r) /\ RowSigned(r) /\ disk[r] \in Row
    BY DEF QueueInv, QueueTypeOK
  <2>2. ASSUME r \in InHistory, mem[r].status \in Granted
        PROVE  Cardinality(mem[r].received) >= mem[r].required
    <3>1. CASE disk[r] = mem[r]
      BY <2>1, <2>2, <3>1 DEF RowSigned
    <3>2. CASE disk[r].status = "approved" /\ mem[r] = [disk[r] EXCEPT !.status = "executed"]
      BY <2>1, <3>2 DEF RowSigned, Granted, Row
    <3> QED
      BY <2>1, <2>2, <3>1, <3>2 DEF RowOf
  <2> QED
    BY <2>1, <2>2 DEF RowSigned
<1> QED
  BY <1>1, QueueInvariant, PTL

(* What approve, deny or mark_executed told a caller survives every crash.           *)
THEOREM DecisionsAreKept == QueueSpec => []ToldIsKept
<1>1. QueueInv => ToldIsKept
  BY DEF QueueInv
<1> QED
  BY <1>1, QueueInvariant, PTL

-------------------------------------------------------------------------------
\* The rows a step may grant, or touch at all.
LEMMA RowsOfAStep ==
    ASSUME QueueInv, QueueNext
    PROVE  \/ disk' = disk
           \/ \E r \in Requests, row \in Row :
                /\ disk' = [disk EXCEPT ![r] = row]
                /\ disk[r].received \subseteq row.received
                /\ \/ /\ disk[r].status \in OpenStatus \cup {"absent"}
                      /\ disk[r].status # "absent" => row.required = disk[r].required
                      /\ \/ row.status \in OpenStatus \cup {"denied", "expired"}
                         \/ /\ row.status = "approved" /\ r \notin overdue
                            /\ Cardinality(row.received) >= row.required
                   \/ /\ disk[r].status = "approved"
                      /\ row = [disk[r] EXCEPT !.status = "executed"]
           \/ \E done \in SUBSET Due : disk' = Expired(done, disk)
<1> USE DEF QueueInv
<1>1. ASSUME NEW r \in Requests, NEW row \in Row, NEW ok \in WriteOutcomes,
             Write(r, row, ok)
      PROVE  disk' = disk \/ disk' = [disk EXCEPT ![r] = row]
  BY <1>1 DEF Write
<1>2. \A r \in pending : /\ r \in Requests /\ mem[r] \in Row /\ mem[r].status \in OpenStatus
                         /\ disk[r].status \in OpenStatus \cup {"absent"}
                         /\ disk[r].received \subseteq mem[r].received
                         /\ disk[r].status # "absent" => mem[r].required = disk[r].required
  BY DEF QueueTypeOK, EachInOnePlace, RowOf
<1>3. ASSUME NEW r \in Requests, NEW ok \in WriteOutcomes, NEW n \in Asked, Propose(r, n, ok)
      PROVE  \/ disk' = disk
             \/ \E row \in Row : /\ disk' = [disk EXCEPT ![r] = row]
                                 /\ disk[r] = NoRow
                                 /\ row.status = "pending"
  <2>1. PICK row : row = [status |-> "pending", required |-> Required(n), received |-> {}]
    OBVIOUS
  <2>2. row \in Row /\ row.status = "pending"
    BY <2>1, QueueAssumption DEF Row, Required, OpenStatus
  <2>3. Write(r, row, ok) /\ disk[r] = NoRow
    BY <1>3, <2>1 DEF Propose, RowOf
  <2> QED
    BY <2>2, <2>3, <1>1
<1>4. ASSUME NEW r \in Requests, NEW ok \in WriteOutcomes, ApproveLate(r, ok) \/ Deny(r, ok)
      PROVE  \/ disk' = disk
             \/ \E row \in Row : /\ disk' = [disk EXCEPT ![r] = row]
                                 /\ r \in pending
                                 /\ row.status \in {"denied", "expired"}
                                 /\ row.required = mem[r].required
                                 /\ row.received = mem[r].received
  <2>1. PICK how \in {"denied", "expired"} : Settle(r, [mem[r] EXCEPT !.status = how], ok)
    BY <1>4 DEF ApproveLate, Deny
  <2>2. PICK row : row = [mem[r] EXCEPT !.status = how]
    OBVIOUS
  <2>3. r \in pending
    BY <1>4 DEF ApproveLate, Deny
  <2>4. /\ row \in Row /\ row.status = how
        /\ row.required = mem[r].required /\ row.received = mem[r].received
    BY <2>2, <2>3, <1>2 DEF Row, SettledStatus
  <2>5. Write(r, row, ok)
    BY <2>1, <2>2 DEF Settle
  <2> QED
    BY <2>3, <2>4, <2>5, <1>1
<1>5. ASSUME NEW r \in Requests, NEW ok \in WriteOutcomes, NEW d \in Deciders,
             ApproveFully(r, d, ok)
      PROVE  \/ disk' = disk
             \/ \E row \in Row : /\ disk' = [disk EXCEPT ![r] = row]
                                 /\ r \in pending /\ r \notin overdue
                                 /\ row.status = "approved"
                                 /\ row.required = mem[r].required
                                 /\ mem[r].received \subseteq row.received
                                 /\ Cardinality(row.received) >= row.required
  <2>1. PICK row : row = [Signed(r, d) EXCEPT !.status = "approved"]
    OBVIOUS
  <2>2. r \in pending /\ r \notin overdue
    BY <1>2, <1>5 DEF ApproveFully, IsExpired
  <2>3. /\ row \in Row /\ row.status = "approved" /\ row.required = mem[r].required
        /\ mem[r].received \subseteq row.received
        /\ Cardinality(row.received) >= row.required
    BY <1>2, <1>5, <2>1, <2>2 DEF Row, SettledStatus, ApproveFully, Signed, IsFullyApproved
  <2>4. Write(r, row, ok)
    BY <1>5, <2>1 DEF ApproveFully, Settle
  <2> QED
    BY <2>2, <2>3, <2>4, <1>1
<1>6. ASSUME NEW r \in Requests, NEW ok \in WriteOutcomes, NEW d \in Deciders,
             ApprovePartly(r, d, ok)
      PROVE  \/ disk' = disk
             \/ \E row \in Row : /\ disk' = [disk EXCEPT ![r] = row]
                                 /\ r \in pending
                                 /\ row.status = "partially_approved"
                                 /\ row.required = mem[r].required
                                 /\ mem[r].received \subseteq row.received
  <2>1. PICK row : row = [Signed(r, d) EXCEPT !.status = "partially_approved"]
    OBVIOUS
  <2>2. r \in pending /\ Write(r, row, ok)
    BY <1>6, <2>1 DEF ApprovePartly
  <2>3. /\ row \in Row /\ row.status = "partially_approved"
        /\ row.required = mem[r].required /\ mem[r].received \subseteq row.received
    BY <1>2, <2>1, <2>2 DEF Row, OpenStatus, Signed
  <2> QED
    BY <2>2, <2>3, <1>1
<1>7. ASSUME NEW r \in Requests, NEW ok \in WriteOutcomes, MarkExecuted(r, ok)
      PROVE  \/ disk' = disk
             \/ \E row \in Row : /\ disk' = [disk EXCEPT ![r] = row]
                                 /\ disk[r].status = "approved"
                                 /\ row = [disk[r] EXCEPT !.status = "executed"]
                                 /\ row.received = disk[r].received
  <2>1. PICK row : row = [mem[r] EXCEPT !.status = "executed"]
    OBVIOUS
  <2>2. Write(r, row, ok) /\ mem[r].status = "approved" /\ r \in InHistory
    BY <1>7, <2>1 DEF MarkExecuted
  <2>3. disk[r] = mem[r] /\ mem[r] \in Row
    <3>1. disk[r] \in Row /\ mem[r] \in Row
      BY DEF QueueTypeOK
    <3> QED
      BY <3>1, <2>2 DEF RowOf, Row
  <2>4. row \in Row /\ row.received = disk[r].received
    BY <2>1, <2>3 DEF Row, SettledStatus
  <2> QED
    BY <2>1, <2>2, <2>3, <2>4, <1>1
<1>8. CASE ExpireStale \/ Restart
  <2>1. PICK done \in Begun(Due) : disk' = Expired(done, disk)
    BY <1>8 DEF ExpireStale, Restart
  <2>2. done \in SUBSET Due
    BY DEF Begun
  <2> QED
    BY <2>1, <2>2
<1>9. ASSUME NEW r \in Requests, Lapse(r)
      PROVE  disk' = disk
  BY <1>9 DEF Lapse
<1>10. NoRow.status = "absent" /\ NoRow.received = {}
  BY DEF NoRow
<1>11. "pending" \in OpenStatus /\ "partially_approved" \in OpenStatus
  BY DEF OpenStatus
<1>12. CASE \E r \in Requests, ok \in WriteOutcomes, n \in Asked : Propose(r, n, ok)
  BY <1>3, <1>10, <1>11, <1>12
<1>13. CASE \E r \in Requests, ok \in WriteOutcomes : ApproveLate(r, ok) \/ Deny(r, ok)
  BY <1>2, <1>4, <1>13
<1>14. CASE \E r \in Requests, ok \in WriteOutcomes, d \in Deciders : ApproveFully(r, d, ok)
  BY <1>2, <1>5, <1>14
<1>15. CASE \E r \in Requests, ok \in WriteOutcomes, d \in Deciders : ApprovePartly(r, d, ok)
  BY <1>2, <1>6, <1>11, <1>15
<1>16. CASE \E r \in Requests, ok \in WriteOutcomes : MarkExecuted(r, ok)
  BY <1>7, <1>16
<1> QED
  BY <1>8, <1>9, <1>12, <1>13, <1>14, <1>15, <1>16 DEF QueueNext

(* Neither an approver who is late, nor a sweep, nor a restart grants a request     *)
(* whose TTL has run out.                                                           *)
THEOREM NoGrantAfterTTL == QueueSpec => NoLateGrant
<1>1. ASSUME QueueInv, [QueueNext]_queueVars, NEW r \in overdue,
             disk[r].status \notin Granted
      PROVE  disk'[r].status \notin Granted
  <2>1. r \in Requests
    BY <1>1 DEF QueueInv, QueueTypeOK
  <2>2. CASE disk' = disk
    BY <1>1, <2>2
  <2>3. CASE \E q \in Requests, row \in Row :
               /\ disk' = [disk EXCEPT ![q] = row]
               /\ \/ row.status \in OpenStatus \cup {"denied", "expired"}
                  \/ row.status = "approved" /\ q \notin overdue
                  \/ disk[q].status = "approved"
    <3>1. PICK q \in Requests, row \in Row :
               /\ disk' = [disk EXCEPT ![q] = row]
               /\ \/ row.status \in OpenStatus \cup {"denied", "expired"}
                  \/ row.status = "approved" /\ q \notin overdue
                  \/ disk[q].status = "approved"
      BY <2>3
    <3>2. CASE q # r
      BY <1>1, <2>1, <3>1, <3>2 DEF QueueInv, QueueTypeOK
    <3>3. CASE q = r
      BY <1>1, <2>1, <3>1, <3>3 DEF QueueInv, QueueTypeOK, Granted, OpenStatus
    <3> QED
      BY <3>2, <3>3
  <2>4. CASE \E done \in SUBSET Due : disk' = Expired(done, disk)
    <3>1. PICK done \in SUBSET Due : disk' = Expired(done, disk)
      BY <2>4
    <3>2. disk'[r] = IF r \in done THEN [mem[r] EXCEPT !.status = "expired"] ELSE disk[r]
      BY <2>1, <3>1 DEF Expired
    <3>3. r \in done => [mem[r] EXCEPT !.status = "expired"].status = "expired"
      BY <1>1, DueRow
    <3> QED
      BY <1>1, <3>2, <3>3 DEF Granted
  <2>5. CASE UNCHANGED queueVars
    BY <2>2, <2>5 DEF queueVars
  <2>6. CASE QueueNext
    BY <1>1, <2>2, <2>3, <2>4, <2>6, RowsOfAStep
  <2> QED
    BY <1>1, <2>5, <2>6
<1>2. QueueInv /\ [QueueNext]_queueVars =>
        [\A r \in overdue : disk[r].status \notin Granted =>
                              disk'[r].status \notin Granted]_queueVars
  BY <1>1
<1> QED
  BY <1>2, QueueInvariant, PTL DEF QueueSpec, NoLateGrant

(* An execution that was acknowledged cannot be acknowledged again: the row says     *)
(* executed, and so does any copy a restart loads.                                   *)
THEOREM OneExecution == QueueSpec => ExecutedOnce
<1>1. ASSUME QueueInv, NEW r \in Requests, "executed" \in acked[r],
             r \in InHistory, mem[r].status = "approved"
      PROVE  FALSE
  <2>1. disk[r].status = "executed"
    BY <1>1 DEF QueueInv, ToldIsKept
  <2>2. disk[r] = mem[r] \/ disk[r].status = "approved"
    BY <1>1 DEF QueueInv, RowOf
  <2> QED
    BY <1>1, <2>1, <2>2
<1>2. QueueInv /\ [QueueNext]_queueVars =>
        [\A r \in Requests :
            "executed" \in acked[r] =>
              ~(r \in InHistory /\ mem[r].status = "approved" /\ mem'[r].status = "executed")
        ]_queueVars
  BY <1>1
<1> QED
  BY <1>2, QueueInvariant, PTL DEF QueueSpec, ExecutedOnce

-------------------------------------------------------------------------------
\* How the database looks to the contract.
StateOf(r) == IF disk[r].status \in OpenStatus THEN "open" ELSE disk[r].status

\* It looks settled to the contract when it is, and open when it is.
LEMMA ViewOfStatus ==
    ASSUME QueueInv, NEW r \in Requests
    PROVE  /\ StateOf(r) \in Promise!States
           /\ StateOf(r) \in Promise!Unsettled
                <=> disk[r].status \in OpenStatus \cup {"absent"}
           /\ StateOf(r) = "open" <=> disk[r].status \in OpenStatus
<1>1. disk[r].status \in OpenStatus \cup SettledStatus \cup {"absent"}
  BY DEF QueueInv, QueueTypeOK, Row
<1> QED
  BY <1>1 DEF StateOf, Promise!States, Promise!Unsettled, OpenStatus, SettledStatus

\* Rows that change only as the contract lets them.
LEMMA RowsAmend ==
    ASSUME QueueInv, QueueInv', NEW R \in SUBSET Requests,
           \A r \in R : /\ disk[r].status \in OpenStatus \cup {"absent"}
                        /\ disk[r].received \subseteq disk'[r].received
                        /\ disk[r].status # "absent" => disk'[r].required = disk[r].required,
           \A r \in Requests \ R : disk'[r] = disk[r]
    PROVE  Promise!Amend(R)
<1>1. \A r \in Requests : disk'[r] \in Row /\ disk[r] \in Row
  BY DEF QueueInv, QueueTypeOK
<1>2. \A r \in Requests : StateOf(r)' \in Promise!States
  BY <1>1 DEF StateOf, Promise!States, Row, OpenStatus, SettledStatus
<1>3. \A r \in R : /\ r \in Requests
                   /\ StateOf(r) \in Promise!Unsettled
                   /\ StateOf(r) = "open" => disk'[r].required = disk[r].required
  <2> SUFFICES ASSUME NEW r \in R
               PROVE  /\ r \in Requests
                      /\ StateOf(r) \in Promise!Unsettled
                      /\ StateOf(r) = "open" => disk'[r].required = disk[r].required
    OBVIOUS
  <2>1. r \in Requests
    OBVIOUS
  <2>2. "absent" \notin OpenStatus
    BY DEF OpenStatus
  <2> QED
    BY <2>1, <2>2, ViewOfStatus
<1>4. \A r \in Requests \ R : StateOf(r)' = StateOf(r)
  BY DEF StateOf
<1>5. \A r \in Requests : disk'[r].received \in SUBSET Deciders /\ disk'[r].required \in Nat \ {0}
  BY <1>1 DEF Row
<1> QED
  BY <1>2, <1>3, <1>4, <1>5 DEF Promise!Amend, StateOf

\* The contract counts signatures the way the queue does.
LEMMA SameCount == ASSUME NEW S PROVE Promise!Cardinality(S) = Cardinality(S)
  BY DEF Promise!Cardinality, Cardinality

\* Every step of the queue is a step of the contract, or changes no row.
LEMMA StepKeepsPromise ==
    ASSUME QueueInv, QueueInv', [QueueNext]_queueVars
    PROVE  [Promise!ContractNext]_(Promise!contractVars)
<1>1. \A r \in Requests : disk[r] \in Row /\ disk'[r] \in Row
  BY DEF QueueInv, QueueTypeOK
<1>2. CASE disk' = disk
  BY <1>2 DEF Promise!contractVars
<1>3. ASSUME NEW r \in Requests, NEW row \in Row,
             disk' = [disk EXCEPT ![r] = row],
             disk[r].received \subseteq row.received,
             disk[r].status \in OpenStatus \cup {"absent"},
             disk[r].status # "absent" => row.required = disk[r].required,
             \/ row.status \in OpenStatus \cup {"denied", "expired"}
             \/ row.status = "approved" /\ Cardinality(row.received) >= row.required
      PROVE  Promise!ContractNext
  <2>1. disk'[r] = row /\ \A q \in Requests \ {r} : disk'[q] = disk[q]
    BY <1>3 DEF QueueInv, QueueTypeOK
  <2>2. Promise!Amend({r})
    <3>1. {r} \in SUBSET Requests
      OBVIOUS
    <3>2. \A q \in {r} : /\ disk[q].status \in OpenStatus \cup {"absent"}
                         /\ disk[q].received \subseteq disk'[q].received
                         /\ disk[q].status # "absent" => disk'[q].required = disk[q].required
      BY <1>3, <2>1
    <3> QED
      BY <2>1, <3>1, <3>2, RowsAmend
  <2>3. CASE row.status \in OpenStatus
    <3>1. Promise!Sign(r)
      BY <2>1, <2>2, <2>3 DEF Promise!Sign
    <3> QED
      BY <3>1 DEF Promise!ContractNext
  <2>4. CASE row.status = "denied"
    <3>1. Promise!Refuse(r)
      BY <2>1, <2>2, <2>4 DEF Promise!Refuse, OpenStatus
    <3> QED
      BY <3>1 DEF Promise!ContractNext
  <2>5. CASE row.status = "expired"
    <3>1. Promise!Lapse({r})
      BY <2>1, <2>2, <2>5 DEF Promise!Lapse, OpenStatus
    <3> QED
      BY <3>1 DEF Promise!ContractNext
  <2>6. CASE row.status = "approved" /\ Cardinality(row.received) >= row.required
    <3>1. disk'[r].status = "approved" /\ disk'[r].status \notin OpenStatus
      BY <2>1, <2>6 DEF OpenStatus
    <3>2. Cardinality(disk'[r].received) >= disk'[r].required
      BY <2>1, <2>6
    <3>3. Promise!Approve(r)
      BY <2>2, <3>1, <3>2, SameCount DEF Promise!Approve
    <3> QED
      BY <3>3 DEF Promise!ContractNext
  <2> QED
    BY <1>3, <2>3, <2>4, <2>5, <2>6
<1>4. ASSUME NEW r \in Requests, NEW row \in Row,
             disk' = [disk EXCEPT ![r] = row],
             disk[r].status = "approved",
             row = [disk[r] EXCEPT !.status = "executed"]
      PROVE  Promise!ContractNext
  <2>1. disk'[r] = row /\ \A q \in Requests \ {r} : disk'[q] = disk[q]
    BY <1>4 DEF QueueInv, QueueTypeOK
  <2>2. /\ row.status = "executed" /\ row.received = disk[r].received
        /\ row.required = disk[r].required
    BY <1>1, <1>4 DEF Row
  <2>3. \A q \in Requests : /\ disk'[q].received = disk[q].received
                           /\ disk'[q].required = disk[q].required
                           /\ q # r => disk'[q].status = disk[q].status
    BY <2>1, <2>2
  <2>4. disk[r].status \notin OpenStatus /\ disk'[r].status = "executed"
          /\ disk'[r].status \notin OpenStatus
    BY <1>4, <2>1, <2>2 DEF OpenStatus
  <2> DEFINE View(rows, q) == IF rows[q].status \in OpenStatus THEN "open" ELSE rows[q].status
  <2>5. [q \in Requests |-> View(disk', q)]
          = [[q \in Requests |-> View(disk, q)] EXCEPT ![r] = "executed"]
    <3>1. View(disk', r) = "executed"
      BY <2>4
    <3>2. \A q \in Requests \ {r} : View(disk', q) = View(disk, q)
      BY <2>1
    <3> HIDE DEF View
    <3> QED
      BY <3>1, <3>2
  <2>6. Promise!Execute(r)
    BY <1>4, <2>3, <2>4, <2>5 DEF Promise!Execute
  <2> QED
    BY <2>6 DEF Promise!ContractNext
<1>5. ASSUME NEW done \in SUBSET Due, disk' = Expired(done, disk)
      PROVE  Promise!ContractNext
  <2>1. done \in SUBSET Requests
    BY DueRow
  <2>2. \A q \in Requests \ done : disk'[q] = disk[q]
    BY <1>5 DEF Expired
  <2>3. \A q \in done : /\ disk'[q].status = "expired"
                        /\ disk[q].status \in OpenStatus \cup {"absent"}
                        /\ disk[q].received \subseteq disk'[q].received
                        /\ disk[q].status # "absent" => disk'[q].required = disk[q].required
    <3> SUFFICES ASSUME NEW q \in done
                 PROVE  /\ disk'[q].status = "expired"
                        /\ disk[q].status \in OpenStatus \cup {"absent"}
                        /\ disk[q].received \subseteq disk'[q].received
                        /\ disk[q].status # "absent" => disk'[q].required = disk[q].required
      OBVIOUS
    <3>1. /\ q \in Requests /\ q \in pending
          /\ [mem[q] EXCEPT !.status = "expired"].status = "expired"
          /\ [mem[q] EXCEPT !.status = "expired"].required = mem[q].required
          /\ [mem[q] EXCEPT !.status = "expired"].received = mem[q].received
      BY DueRow
    <3>2. disk'[q] = [mem[q] EXCEPT !.status = "expired"]
      BY <1>5, <3>1 DEF Expired
    <3>3. RowOf(q)
      BY <3>1 DEF QueueInv
    <3> QED
      BY <3>1, <3>2, <3>3 DEF RowOf
  <2>4. Promise!Amend(done)
    BY <2>1, <2>2, <2>3, RowsAmend
  <2>5. Promise!Lapse(done)
    BY <2>1, <2>3, <2>4 DEF Promise!Lapse, OpenStatus
  <2> QED
    BY <2>1, <2>5 DEF Promise!ContractNext
<1>6. CASE UNCHANGED queueVars
  BY <1>2, <1>6 DEF queueVars
<1>7. CASE QueueNext
  BY <1>2, <1>3, <1>4, <1>5, <1>7, RowsOfAStep
<1> QED
  BY <1>6, <1>7

(* The queue implements the contract: whatever crashes, sweeps, reloads or writes     *)
(* that raise, its rows only ever move as ApprovalContract lets a record move.        *)
THEOREM QueueKeepsPromise == QueueSpec => KeepsPromise
<1>1. QueueInit => Promise!ContractInit
  BY DEF QueueInit, Promise!ContractInit, NoRow, OpenStatus
<1>2. QueueInv /\ QueueInv' /\ [QueueNext]_queueVars
        => [Promise!ContractNext]_(Promise!contractVars)
  BY StepKeepsPromise
<1> QED
  BY <1>1, <1>2, QueueInvariant, PTL DEF QueueSpec, KeepsPromise, Promise!Contract

-------------------------------------------------------------------------------
\* Archiving loses an entry, old or new, only where _history is full afterwards; and
\* _history never gets shorter by it.
LEMMA ArchivedHoldsOrIsFull ==
    ASSUME history \in Seq(Requests), NEW s \in Seq(Requests)
    PROVE  /\ Len(Archived(s)) \in Nat /\ Len(Archived(s)) >= Len(history)
           /\ \/ Len(Archived(s)) >= MaxHistory
              \/ /\ \A r \in InHistory : \E i \in 1..Len(Archived(s)) : Archived(s)[i] = r
                 /\ \A k \in 1..Len(s) : \E i \in 1..Len(Archived(s)) : Archived(s)[i] = s[k]
<1> DEFINE longer == history \o s
           popped == IF Excess(Len(longer)) < Len(s) THEN Excess(Len(longer)) ELSE Len(s)
<1>1. /\ longer \in Seq(Requests) /\ Len(longer) = Len(history) + Len(s)
      /\ \A i \in 1..Len(history) + Len(s) :
           longer[i] = IF i <= Len(history) THEN history[i] ELSE s[i - Len(history)]
  BY ConcatProperties
<1>2. Len(history) \in Nat /\ Len(s) \in Nat /\ MaxHistory \in Nat
  BY QueueAssumption
<1>3. Archived(s) = SubSeq(longer, popped + 1, Len(longer))
  BY DEF Archived
<1>4. /\ popped \in 0..Len(longer) /\ popped <= Len(s)
      /\ popped = 0 \/ Len(longer) - popped >= MaxHistory
  BY <1>1, <1>2 DEF Excess
<1> HIDE DEF longer, popped
<1>5. /\ Len(Archived(s)) = Len(longer) - popped
      /\ \A i \in 1..Len(longer) - popped : Archived(s)[i] = longer[i + popped]
  BY <1>1, <1>3, <1>4, Dropped
<1>6. CASE popped = 0
  <2>1. Len(Archived(s)) = Len(longer) /\ \A i \in 1..Len(longer) : Archived(s)[i] = longer[i]
    BY <1>1, <1>2, <1>5, <1>6
  <2>2. ASSUME NEW r \in InHistory PROVE \E i \in 1..Len(Archived(s)) : Archived(s)[i] = r
    <3>1. PICK i \in 1..Len(history) : history[i] = r
      BY DEF InHistory
    <3> QED
      BY <1>1, <1>2, <2>1, <3>1
  <2>3. ASSUME NEW k \in 1..Len(s) PROVE \E i \in 1..Len(Archived(s)) : Archived(s)[i] = s[k]
    <3>1. Len(history) + k \in 1..Len(history) + Len(s) /\ ~(Len(history) + k <= Len(history))
          /\ (Len(history) + k) - Len(history) = k
      BY <1>2
    <3> QED
      BY <1>1, <2>1, <3>1
  <2> QED
    BY <1>1, <1>2, <2>1, <2>2, <2>3
<1>7. CASE popped # 0
  BY <1>1, <1>2, <1>4, <1>5, <1>7
<1> QED
  BY <1>6, <1>7

\* The requests made after r
Later(r) == {q \in Requests : created[q] > created[r]}

\* There are never fewer of them.
LEMMA LaterStays ==
    ASSUME QueueInv, [QueueNext]_queueVars, NEW r \in Requests, created[r] # 0
    PROVE  /\ Cardinality(Later(r)) \in Nat /\ Cardinality(Later(r)') \in Nat
           /\ Cardinality(Later(r)) <= Cardinality(Later(r)')
           /\ created'[r] = created[r]
<1>1. created \in [Requests -> Nat]
  BY DEF QueueInv, QueueTypeOK
<1>2. \/ created' = created
      \/ \E q \in Requests : /\ created[q] = 0
                             /\ created' = [created EXCEPT ![q] = Cardinality({p \in Requests : created[p] > 0}) + 1]
  <2>1. ASSUME NEW q \in Requests, NEW n \in Asked, NEW ok \in WriteOutcomes, Propose(q, n, ok)
        PROVE  /\ created[q] = 0
               /\ created' = [created EXCEPT ![q] = Cardinality({p \in Requests : created[p] > 0}) + 1]
    BY <2>1 DEF Propose
  <2>2. \/ \E q \in Requests, n \in Asked, ok \in WriteOutcomes : Propose(q, n, ok)
        \/ created' = created
    BY DEF QueueNext, queueVars, ApproveLate, ApproveFully, ApprovePartly, Deny, Settle,
           MarkExecuted, ExpireStale, Restart, Lapse
  <2> QED
    BY <2>1, <2>2
<1>3. Cardinality({p \in Requests : created[p] > 0}) \in Nat
  BY FS_Subset, FS_CardinalityType, QueueAssumption
<1>4. Later(r) \subseteq Later(r)' /\ created'[r] = created[r]
  BY <1>1, <1>2, <1>3 DEF Later
<1>5. IsFiniteSet(Later(r)) /\ IsFiniteSet(Later(r)')
  BY FS_Subset, QueueAssumption DEF Later
<1> QED
  BY <1>4, <1>5, FS_Subset, FS_CardinalityType

\* What was out of reach for a full bound stays so, while _history does not shrink.
LEMMA StaysOut ==
    ASSUME QueueInv, QueueInv', ApprovalReachable, [QueueNext]_queueVars,
           Len(history') >= Len(history), NEW r \in Requests,
           disk[r].status = "approved", r \notin InHistory
    PROVE  Len(history') >= MaxHistory \/ Cardinality(Later(r)') >= LoadLimit
<1>1. Len(history) >= MaxHistory \/ Cardinality(Later(r)) >= LoadLimit
  BY DEF ApprovalReachable, Later
<1>2. created[r] # 0
  <2>1. RowOf(r)
    BY DEF QueueInv
  <2> QED
    BY <2>1 DEF RowOf, NoRow
<1>3. Len(history) \in Nat /\ Len(history') \in Nat /\ MaxHistory \in Nat /\ LoadLimit \in Nat
  BY QueueAssumption DEF QueueInv, QueueTypeOK
<1>4. /\ Cardinality(Later(r)) \in Nat /\ Cardinality(Later(r)') \in Nat
      /\ Cardinality(Later(r)) <= Cardinality(Later(r)')
  BY <1>2, LaterStays
<1> QED
  BY <1>1, <1>3, <1>4

\* A step that leaves _history alone, and approves nothing.
LEMMA NothingArchived ==
    ASSUME QueueInv, QueueInv', ApprovalReachable, [QueueNext]_queueVars, history' = history,
           \A q \in Requests : disk'[q].status = "approved" => disk[q].status = "approved"
    PROVE  ApprovalReachable'
<1>1. InHistory' = InHistory
  BY DEF InHistory
<1>2. Len(history') >= Len(history)
  BY DEF QueueInv, QueueTypeOK
<1>3. ASSUME NEW q \in Requests, disk'[q].status = "approved", q \notin InHistory'
      PROVE  Len(history') >= MaxHistory \/ Cardinality(Later(q)') >= LoadLimit
  BY <1>1, <1>2, <1>3, StaysOut
<1> QED
  BY <1>3 DEF ApprovalReachable, Later

\* A step that archives the requests of s, the only ones it may approve.
LEMMA Archives ==
    ASSUME QueueInv, QueueInv', ApprovalReachable, [QueueNext]_queueVars,
           NEW s \in Seq(Requests), history' = Archived(s),
           \A q \in Requests : disk'[q].status = "approved" =>
              disk[q].status = "approved" \/ \E k \in 1..Len(s) : s[k] = q
    PROVE  ApprovalReachable'
<1>1. history \in Seq(Requests) /\ MaxHistory \in Nat
  BY QueueAssumption DEF QueueInv, QueueTypeOK
<1>2. /\ Len(history') \in Nat /\ Len(history') >= Len(history)
      /\ \/ Len(history') >= MaxHistory
         \/ /\ \A r \in InHistory : \E i \in 1..Len(history') : history'[i] = r
            /\ \A k \in 1..Len(s) : \E i \in 1..Len(history') : history'[i] = s[k]
  BY <1>1, ArchivedHoldsOrIsFull
<1>3. ASSUME NEW q \in Requests, disk'[q].status = "approved", q \notin InHistory'
      PROVE  Len(history') >= MaxHistory \/ Cardinality(Later(q)') >= LoadLimit
  <2>1. ~ \E i \in 1..Len(history') : history'[i] = q
    BY <1>3 DEF InHistory
  <2>2. CASE Len(history') >= MaxHistory
    BY <2>2
  <2>3. CASE ~(Len(history') >= MaxHistory)
    <3>1. q \notin InHistory /\ ~ \E k \in 1..Len(s) : s[k] = q
      BY <1>2, <2>1, <2>3
    <3>2. disk[q].status = "approved"
      BY <1>3, <3>1
    <3> QED
      BY <1>2, <3>1, <3>2, StaysOut
  <2> QED
    BY <2>2, <2>3
<1> QED
  BY <1>3 DEF ApprovalReachable, Later

\* A settled request is archived, or its write raised.
LEMMA SettleReaches ==
    ASSUME QueueInv, QueueInv', ApprovalReachable, [QueueNext]_queueVars,
           NEW r \in Requests, NEW row, NEW ok \in BOOLEAN, Settle(r, row, ok)
    PROVE  ApprovalReachable'
<1>1. CASE ok
  <2>1. <<r>> \in Seq(Requests) /\ Len(<<r>>) = 1 /\ <<r>>[1] = r
    OBVIOUS
  <2>2. history' = Archived(<<r>>) /\ disk' = [disk EXCEPT ![r] = row]
    BY <1>1 DEF Settle, Write
  <2>3. \A q \in Requests : disk'[q].status = "approved" =>
              disk[q].status = "approved" \/ \E k \in 1..Len(<<r>>) : <<r>>[k] = q
    <3>1. \A q \in Requests : q # r => disk'[q] = disk[q]
      BY <2>2 DEF QueueInv, QueueTypeOK
    <3> QED
      BY <2>1, <3>1
  <2> QED
    BY <2>1, <2>2, <2>3, Archives
<1>2. CASE ~ok
  <2>1. history' = history /\ disk' = disk
    BY <1>2 DEF Settle, Write
  <2> QED
    BY <2>1, NothingArchived
<1> QED
  BY <1>1, <1>2

\* After a restart the rows loaded are the newest.
LEMMA RestartReaches ==
    ASSUME QueueInv, Restart
    PROVE  ApprovalReachable'
<1>1. PICK done \in Begun(Due) :
        LET kept   == Expired(done, disk)
            loaded == Newest({r \in Requests : kept[r].status # "absent"})
            open   == {r \in loaded : kept[r].status \in OpenStatus}
        IN  /\ disk' = kept
            /\ history' \in OldestFirst(loaded \ open)
            /\ UNCHANGED created
  BY DEF Restart
<1> DEFINE rows == {r \in Requests : disk'[r].status # "absent"}
           loaded == Newest(rows)
           settled == {r \in loaded : disk'[r].status \notin OpenStatus}
<1>2. created' = created /\ history' \in OldestFirst(settled)
  <2>1. settled = loaded \ {r \in loaded : disk'[r].status \in OpenStatus}
    OBVIOUS
  <2> QED
    BY <1>1, <2>1
<1>3. \A r \in settled : \E i \in 1..Cardinality(settled) : history'[i] = r
  <2> HIDE DEF settled
  <2> QED
    BY <1>2 DEF OldestFirst
<1>4. Len(history') = Cardinality(settled)
  <2>1. settled \subseteq Requests
    BY DEF Newest
  <2>2. Cardinality(settled) \in Nat
    BY <2>1, FS_Subset, FS_CardinalityType, QueueAssumption
  <2>3. history' \in [1..Cardinality(settled) -> settled]
    BY <1>2 DEF OldestFirst
  <2> HIDE DEF settled
  <2> QED
    BY <2>2, <2>3
<1>5. ASSUME NEW q \in Requests, disk'[q].status = "approved", q \notin InHistory'
      PROVE  Cardinality(Later(q)') >= LoadLimit
  <2>1. q \notin settled
    BY <1>3, <1>4, <1>5 DEF InHistory
  <2>2. q \in rows /\ q \notin loaded
    BY <1>5, <2>1 DEF OpenStatus
  <2> DEFINE newer == {p \in rows : created[p] > created[q]}
  <2>3. ~(Cardinality(newer) < LoadLimit)
    BY <2>2 DEF Newest
  <2>4. newer \subseteq Later(q)' /\ IsFiniteSet(Later(q)')
    BY <1>2, FS_Subset, QueueAssumption DEF Later
  <2>5. Cardinality(newer) \in Nat /\ Cardinality(Later(q)') \in Nat
        /\ Cardinality(newer) <= Cardinality(Later(q)')
    <3> HIDE DEF newer
    <3> QED
      BY <2>4, FS_Subset, FS_CardinalityType
  <2> QED
    BY <2>3, <2>5, QueueAssumption
<1> QED
  BY <1>5 DEF ApprovalReachable, Later

\* Every step of the queue leaves each approval in reach.
LEMMA ReachNext ==
    ASSUME QueueInv, ApprovalReachable, [QueueNext]_queueVars
    PROVE  ApprovalReachable'
<1>0. QueueInv'
  BY NextInv
<1>1. disk \in [Requests -> Row] /\ \A r \in pending : r \in Requests
  BY DEF QueueInv, QueueTypeOK
<1>2. ASSUME NEW r \in Requests, NEW ok \in WriteOutcomes, NEW n \in Asked, Propose(r, n, ok)
      PROVE  ApprovalReachable'
  <2> DEFINE row == [status |-> "pending", required |-> Required(n), received |-> {}]
  <2>1. history' = history /\ (disk' = disk \/ disk' = [disk EXCEPT ![r] = row])
    BY <1>2 DEF Propose, Write
  <2>2. row.status # "approved"
    OBVIOUS
  <2> HIDE DEF row
  <2>3. \A q \in Requests : disk'[q].status = "approved" => disk[q].status = "approved"
    BY <1>1, <2>1, <2>2
  <2> QED
    BY <1>0, <2>1, <2>3, NothingArchived
<1>3. ASSUME NEW r \in Requests, NEW ok \in WriteOutcomes, NEW d \in Deciders,
             ApprovePartly(r, d, ok)
      PROVE  ApprovalReachable'
  <2> DEFINE row == [Signed(r, d) EXCEPT !.status = "partially_approved"]
  <2>1. history' = history /\ (disk' = disk \/ disk' = [disk EXCEPT ![r] = row])
    BY <1>3 DEF ApprovePartly, Write
  <2>2. row.status # "approved"
    BY DEF Signed, QueueInv, QueueTypeOK, Row
  <2> HIDE DEF row
  <2>3. \A q \in Requests : disk'[q].status = "approved" => disk[q].status = "approved"
    BY <1>1, <2>1, <2>2
  <2> QED
    BY <1>0, <2>1, <2>3, NothingArchived
<1>4. ASSUME NEW r \in Requests, NEW ok \in WriteOutcomes, MarkExecuted(r, ok)
      PROVE  ApprovalReachable'
  <2> DEFINE row == [mem[r] EXCEPT !.status = "executed"]
  <2>1. history' = history /\ (disk' = disk \/ disk' = [disk EXCEPT ![r] = row])
    BY <1>4 DEF MarkExecuted, Write
  <2>2. row.status # "approved"
    BY DEF QueueInv, QueueTypeOK, Row
  <2> HIDE DEF row
  <2>3. \A q \in Requests : disk'[q].status = "approved" => disk[q].status = "approved"
    BY <1>1, <2>1, <2>2
  <2> QED
    BY <1>0, <2>1, <2>3, NothingArchived
<1>5. ASSUME NEW r \in Requests, NEW ok \in WriteOutcomes, NEW row, Settle(r, row, ok)
      PROVE  ApprovalReachable'
  BY <1>0, <1>5, SettleReaches, QueueAssumption
<1>6. CASE ExpireStale
  <2>1. PICK done \in Begun(Due) : /\ disk' = Expired(done, disk)
                                   /\ \E s \in OldestFirst(done) : history' = Archived(s)
    BY <1>6 DEF ExpireStale
  <2>2. PICK s \in OldestFirst(done) : history' = Archived(s)
    BY <2>1
  <2>3. done \in SUBSET Requests /\ done \subseteq Due
    BY <1>1 DEF Begun, Due
  <2>4. s \in Seq(Requests)
    BY <2>3, OldestFirstVisits DEF QueueInv, QueueTypeOK
  <2>5. \A q \in Requests : disk'[q].status = "approved" => disk[q].status = "approved"
    <3> SUFFICES ASSUME NEW q \in Requests, disk'[q].status = "approved"
                 PROVE  disk[q].status = "approved"
      OBVIOUS
    <3>1. disk'[q] = IF q \in done THEN [mem[q] EXCEPT !.status = "expired"] ELSE disk[q]
      BY <2>1 DEF Expired
    <3>2. q \notin done
      BY <2>3, <3>1, DueRow
    <3> QED
      BY <3>1, <3>2
  <2> QED
    BY <1>0, <2>2, <2>4, <2>5, Archives
<1>7. CASE Restart
  BY <1>7, RestartReaches
<1>8. CASE UNCHANGED <<history, disk>>
  BY <1>0, <1>8, NothingArchived
<1> QED
  BY <1>2, <1>3, <1>4, <1>5, <1>6, <1>7, <1>8
     DEF QueueNext, ApproveLate, ApproveFully, Deny, Lapse, queueVars

(* An approval the database holds can be executed, unless newer decisions filled *)
(* _history or newer rows filled the load. *)
THEOREM ApprovalsAreReachable == QueueSpec => []ApprovalReachable
<1>1. QueueInit => ApprovalReachable
  BY DEF QueueInit, ApprovalReachable, NoRow
<1>2. QueueInv /\ ApprovalReachable /\ [QueueNext]_queueVars => ApprovalReachable'
  BY ReachNext
<1> QED
  BY <1>1, <1>2, QueueInvariant, PTL DEF QueueSpec

-------------------------------------------------------------------------------
(***************************************************************************)
(* The delivery of what was approved                                        *)
(***************************************************************************)

\* Inside the composition writes succeed, and the quorums asked for are legal.
LEMMA Writes == /\ TRUE \in WriteOutcomes
                /\ \A j \in Jobs : RequiredApprovals(j) \in Asked \cap {1, 2}
  BY DeliveryAssumption DEF RequiredApprovals

\* A hand-off executes an approval of the queue or leaves the queue alone.
LEMMA HandOffStep ==
    ASSUME QueueTypeOK, NEW j \in Jobs, NEW cut \in BOOLEAN, SettleHandOff(j, cut)
    PROVE  \/ \E r \in Requests : MarkExecuted(r, TRUE)
           \/ UNCHANGED queueVars
<1>1. InHistory \subseteq Requests
  BY DEF InHistory, QueueTypeOK
<1>2. \A r : Executable(r) => r \in Requests
  BY <1>1 DEF Executable
<1> QED
  BY <1>2 DEF SettleHandOff

\* A caller inside a send is in it for a job, under a request.
LEMMA InFlight ==
    ASSUME DeliveryTypeOK, NEW s \in Senders, sends[s].phase \in {"posting", "backoff"}
    PROVE  /\ sends[s] \in Flight /\ sends[s] # Idle
           /\ sends[s].job \in Jobs /\ sends[s].under \in Requests
  BY DEF DeliveryTypeOK, Flight, Idle

\* What a delivery does to the queue is something the queue may do.
LEMMA QueueStep ==
    ASSUME DeliveryTypeOK, [DeliveryNext]_vars
    PROVE  [QueueNext]_queueVars
<1> USE Writes
<1>0. QueueTypeOK
  BY DEF DeliveryTypeOK
<1>1. ASSUME NEW j \in Jobs, NEW r \in Requests, NEW cut \in BOOLEAN,
             RequestApproval(j, r, cut)
      PROVE  QueueNext
  BY <1>1 DEF RequestApproval, QueueNext
<1>2. ASSUME NEW r \in Requests, MarkExecuted(r, TRUE)
      PROVE  QueueNext
  BY <1>2 DEF QueueNext
<1>3. ASSUME NEW j \in Jobs, HandOff(j)
      PROVE  [QueueNext]_queueVars
  <2>1. CASE \E cut \in BOOLEAN : SettleHandOff(j, cut)
    BY <1>0, <1>2, <2>1, HandOffStep
  <2>2. CASE RefuseHandOff(j)
    BY <2>2 DEF RefuseHandOff
  <2> QED
    BY <1>3, <2>1, <2>2 DEF HandOff
<1>4. ASSUME NEW s \in Senders, Succeed(s)
      PROVE  [QueueNext]_queueVars
  <2>1. sends[s].job \in Jobs
    BY <1>4, InFlight DEF Succeed
  <2>2. CASE \E cut \in BOOLEAN : SettleHandOff(sends[s].job, cut)
    BY <1>0, <1>2, <2>1, <2>2, HandOffStep
  <2>3. CASE RefuseHandOff(sends[s].job)
    BY <2>3 DEF RefuseHandOff
  <2> QED
    BY <1>4, <2>2, <2>3 DEF Succeed
<1>5. ASSUME NEW s \in Senders, BackOff(s) \/ Retry(s) \/ NextRoute(s) \/ Fail(s)
      PROVE  UNCHANGED queueVars
  BY <1>5 DEF BackOff, Retry, NextRoute, Fail
<1>6. ASSUME NEW j \in Jobs, GetBundle(j) \/ GetRecord(j) \/ RefuseSend(j)
      PROVE  UNCHANGED queueVars
  BY <1>6 DEF GetBundle, GetRecord, RefuseSend
<1>7. ASSUME NEW j \in Jobs, NEW s \in Senders, StartSend(s, j)
      PROVE  UNCHANGED queueVars
  BY <1>7 DEF StartSend
<1>8. CASE Elsewhere
  BY <1>8 DEF Elsewhere, QueueNext
<1>9. CASE Reboot
  BY <1>9 DEF Reboot, QueueNext
<1>10. CASE UNCHANGED vars
  BY <1>10 DEF vars, queueVars
<1> QED
  BY <1>1, <1>3, <1>4, <1>5, <1>6, <1>7, <1>8, <1>9, <1>10 DEF DeliveryNext, Progress

-------------------------------------------------------------------------------
\* A row stays, with the quorum it was created with, and so does a decision.
LEMMA RowsStay ==
    ASSUME QueueInv, [QueueNext]_queueVars, NEW r \in Requests,
           disk[r].status # "absent"
    PROVE  /\ disk'[r].status # "absent"
           /\ disk'[r].required = disk[r].required
           /\ disk[r].status \in Granted => disk'[r].status \in Granted
           /\ disk[r].status \in {"denied", "expired"} => disk'[r].status = disk[r].status
<1> USE DEF OpenStatus, Granted
<1>1. disk \in [Requests -> Row]
  BY DEF QueueInv, QueueTypeOK
<1>2. CASE disk' = disk
  BY <1>2
<1>3. CASE \E q \in Requests, row \in Row :
             /\ disk' = [disk EXCEPT ![q] = row]
             /\ \/ /\ disk[q].status \in OpenStatus \cup {"absent"}
                   /\ disk[q].status # "absent" => row.required = disk[q].required
                   /\ row.status # "absent"
                \/ disk[q].status = "approved" /\ row = [disk[q] EXCEPT !.status = "executed"]
  <2>1. PICK q \in Requests, row \in Row :
             /\ disk' = [disk EXCEPT ![q] = row]
             /\ \/ /\ disk[q].status \in OpenStatus \cup {"absent"}
                   /\ disk[q].status # "absent" => row.required = disk[q].required
                   /\ row.status # "absent"
                \/ disk[q].status = "approved" /\ row = [disk[q] EXCEPT !.status = "executed"]
    BY <1>3
  <2>2. [disk[q] EXCEPT !.status = "executed"].required = disk[q].required
        /\ [disk[q] EXCEPT !.status = "executed"].status = "executed"
    BY <1>1 DEF Row
  <2> QED
    BY <1>1, <2>1, <2>2
<1>4. CASE \E done \in SUBSET Due : disk' = Expired(done, disk)
  <2>1. PICK done \in SUBSET Due : disk' = Expired(done, disk)
    BY <1>4
  <2>2. disk'[r] = IF r \in done THEN [mem[r] EXCEPT !.status = "expired"] ELSE disk[r]
    BY <2>1 DEF Expired
  <2>3. CASE r \in done
    <3>1. /\ r \in pending
          /\ disk'[r].status = "expired" /\ disk'[r].required = mem[r].required
      BY <2>1, <2>2, <2>3, DueRow
    <3>2. disk[r].status \in OpenStatus \cup {"absent"} /\ disk[r].required = mem[r].required
      BY <3>1 DEF QueueInv, RowOf
    <3> QED
      BY <3>1, <3>2
  <2> QED
    BY <2>2, <2>3
<1>5. CASE UNCHANGED queueVars
  BY <1>2, <1>5 DEF queueVars
<1>6. CASE QueueNext
  BY <1>2, <1>3, <1>4, <1>6, RowsOfAStep
<1> QED
  BY <1>5, <1>6

\* A request the queue or the database calls granted is granted in the database.
LEMMA AdmittedIsGranted ==
    ASSUME QueueInv, NEW r \in Requests, Admitted(r)
    PROVE  disk[r].status \in Granted
<1>1. r \in pending => mem[r].status \notin Granted
  BY DEF QueueInv, EachInOnePlace, OpenStatus, Granted
<1>2. r \in InHistory => disk[r] = mem[r] \/ disk[r].status = "approved"
  BY DEF QueueInv, RowOf
<1> QED
  BY <1>1, <1>2 DEF Admitted, Lookup, Granted

-------------------------------------------------------------------------------
\* What ties a package to its approval: the record, a send and a POST only ever
\* refer to a request that was made for the job, with the job's quorum, and a POST
\* only to one that is granted; a send backs off only with attempts left.
SendInv ==
    /\ QueueInv
    /\ DeliveryTypeOK
    /\ \A r \in Requests :
          purpose[r] # None =>
              /\ disk[r].status # "absent"
              /\ disk[r].required = RequiredApprovals(purpose[r])
    /\ \A j \in Jobs : record[j].approval # None => purpose[record[j].approval] = j
    /\ \A s \in Senders : sends[s] # Idle => <<sends[s].job, sends[s].under>> \in sent
    /\ \A s \in Senders : sends[s].phase = "backoff" => sends[s].attempt <= Retries
    /\ \A p \in sent : purpose[p[2]] = p[1] /\ disk[p[2]].status \in Granted

\* A step that makes no request for a job and gives no record another one.
LEMMA SameRequests ==
    ASSUME SendInv, [QueueNext]_queueVars, DeliveryTypeOK', UNCHANGED purpose,
           \A j \in Jobs : record'[j].approval = record[j].approval,
           \A s \in Senders : sends'[s] # Idle => <<sends'[s].job, sends'[s].under>> \in sent',
           \A s \in Senders : sends'[s].phase = "backoff" => sends'[s].attempt <= Retries,
           \A p \in sent' : p \in sent \/ (purpose[p[2]] = p[1] /\ Admitted(p[2]))
    PROVE  SendInv'
<1>1. QueueInv /\ QueueInv'
  BY NextInv DEF SendInv
<1>2. \A r \in Requests :
        purpose'[r] # None => /\ disk'[r].status # "absent"
                              /\ disk'[r].required = RequiredApprovals(purpose'[r])
  BY <1>1, RowsStay DEF SendInv, RequiredApprovals
<1>3. ASSUME NEW p \in sent'
      PROVE  purpose'[p[2]] = p[1] /\ disk'[p[2]].status \in Granted
  <2>1. p[2] \in Requests
    BY DEF DeliveryTypeOK
  <2>2. purpose[p[2]] = p[1] /\ disk[p[2]].status \in Granted
    BY <1>1, <2>1, AdmittedIsGranted DEF SendInv
  <2> QED
    BY <1>1, <2>1, <2>2, RowsStay DEF Granted
<1> QED
  BY <1>1, <1>2, <1>3 DEF SendInv

-------------------------------------------------------------------------------
Records == [status : Lifecycle, approval : Requests \cup {None}]

\* A refresh, a new bundle and a hand-off change a record's status only.
LEMMA RecordsClosed ==
    ASSUME NEW rec \in Records
    PROVE  /\ \A status \in Lifecycle :
                 /\ [rec EXCEPT !.status = status] \in Records
                 /\ [rec EXCEPT !.status = status].approval = rec.approval
           /\ \A status \in Lifecycle :
                 /\ Bundled(rec, status) \in Records
                 /\ Bundled(rec, status).approval = rec.approval
           /\ Refreshed(rec) \in Records
           /\ Refreshed(rec).approval = rec.approval
<1>1. \A status \in Lifecycle : /\ [rec EXCEPT !.status = status] \in Records
                                /\ [rec EXCEPT !.status = status].approval = rec.approval
  BY DEF Records
<1>2. \A status \in DOMAIN LifecycleOf : LifecycleOf[status] \in Lifecycle
  BY DEF LifecycleOf, Lifecycle
<1>3. Refreshed(rec) \in Records /\ Refreshed(rec).approval = rec.approval
  BY <1>1, <1>2 DEF Refreshed
<1> QED
  BY <1>1, <1>3 DEF Bundled

\* The record of one job is written.
LEMMA RecordWritten ==
    ASSUME DeliveryTypeOK, QueueTypeOK', NEW j \in Jobs, NEW rec \in Records,
           rec.approval = record[j].approval, record' = [record EXCEPT ![j] = rec],
           UNCHANGED purpose, sends' \in [Senders -> Flight \cup {Idle}],
           sent' \subseteq Jobs \X Requests, confirmed' \subseteq sent', up' \in BOOLEAN
    PROVE  /\ DeliveryTypeOK'
           /\ \A k \in Jobs : record'[k].approval = record[k].approval
  BY DEF DeliveryTypeOK, Records

\* Both ways a hand-off ends write the record only.
LEMMA HandOffRecord ==
    ASSUME DeliveryTypeOK, NEW j \in Jobs,
           (\E cut \in BOOLEAN : SettleHandOff(j, cut)) \/ RefuseHandOff(j)
    PROVE  /\ \E rec \in Records : /\ rec.approval = record[j].approval
                                   /\ record' = [record EXCEPT ![j] = rec]
           /\ up' \in BOOLEAN
<1>1. record[j] \in Records
  BY DEF DeliveryTypeOK, Records
<1>2. AtHandOff(j) \in Records /\ AtHandOff(j).approval = record[j].approval
  BY <1>1, RecordsClosed DEF AtHandOff
<1>3. /\ [AtHandOff(j) EXCEPT !.status = "handed_off"] \in Records
      /\ [AtHandOff(j) EXCEPT !.status = "handed_off"].approval = record[j].approval
  BY <1>2, RecordsClosed DEF Lifecycle
<1> QED
  BY <1>2, <1>3 DEF SettleHandOff, RefuseHandOff, DeliveryTypeOK

\* A POST is made for a request that is admitted, under the caller's own flight.
LEMMA Posted ==
    ASSUME DeliveryTypeOK, NEW s \in Senders, NEW j \in Jobs, NEW r \in Requests,
           NEW route \in 1..Routes, Post(s, j, r, route)
    PROVE  /\ Admitted(r)
           /\ sent' = sent \cup {<<j, r>>} /\ sent' \subseteq Jobs \X Requests
           /\ sends' \in [Senders -> Flight \cup {Idle}]
           /\ \A t \in Senders : IF t = s THEN /\ sends'[t].job = j /\ sends'[t].under = r
                                               /\ sends'[t].phase = "posting"
                                          ELSE sends'[t] = sends[t]
<1> DEFINE new == [phase |-> "posting", job |-> j, under |-> r, route |-> route, attempt |-> 1]
<1>1. 1 \in 1..(Retries + 1)
  BY DeliveryAssumption
<1>2. new \in Flight /\ new.job = j /\ new.under = r /\ new.phase = "posting"
  BY <1>1 DEF Flight
<1>3. sends' = [sends EXCEPT ![s] = new]
  BY DEF Post
<1> HIDE DEF new
<1> QED
  BY <1>2, <1>3 DEF Post, DeliveryTypeOK

-------------------------------------------------------------------------------
\* request_delivery_approval is the one step that gives a record another request,
\* and no record, send or POST refers to that request yet.
LEMMA RequestKeepsInv ==
    ASSUME SendInv, NEW j \in Jobs, NEW r \in Requests, NEW cut \in BOOLEAN,
           RequestApproval(j, r, cut)
    PROVE  SendInv'
<1> DEFINE n == RequiredApprovals(j)
           new == [status |-> "pending", required |-> Required(n), received |-> {}]
<1>1. n \in {1, 2} /\ n \in Asked /\ TRUE \in WriteOutcomes
  BY Writes
<1>2. Propose(r, n, TRUE) /\ [QueueNext]_queueVars
  BY <1>1 DEF RequestApproval, QueueNext
<1>3. QueueInv' /\ QueueTypeOK'
  BY <1>2, NextInv DEF SendInv, QueueInv
<1>4. disk' = [disk EXCEPT ![r] = new] /\ new.status = "pending" /\ new.required = n
  BY <1>1, <1>2 DEF Propose, Write, Required
<1>5. disk \in [Requests -> Row] /\ disk[r].status = "absent"
  BY <1>2 DEF SendInv, QueueInv, QueueTypeOK, RowOf, Propose, NoRow
<1>6. purpose[r] = None /\ \A p \in sent : p[2] # r
  BY <1>5 DEF SendInv, Granted
<1>7. \A k \in Jobs : record[k].approval # r
  BY <1>6, DeliveryAssumption DEF SendInv
<1>8. /\ purpose' = [purpose EXCEPT ![r] = j] /\ purpose \in [Requests -> Jobs \cup {None}]
      /\ UNCHANGED <<sent, confirmed>> /\ up' \in BOOLEAN
      /\ sends' \in [Senders -> Flight \cup {Idle}]
      /\ \A s \in Senders : sends'[s] = sends[s] \/ sends'[s] = Idle
  BY DEF RequestApproval, Stopped, SendInv, DeliveryTypeOK
<1>9. PICK rec \in Records : /\ rec.approval = r \/ rec.approval = record[j].approval
                            /\ record' = [record EXCEPT ![j] = rec]
  <2>0. record[j] \in Records
    BY DEF SendInv, DeliveryTypeOK, Records
  <2>1. Bundled(record[j], "awaiting_approval") \in Records
    BY <2>0, RecordsClosed DEF Lifecycle
  <2>2. [Bundled(record[j], "awaiting_approval") EXCEPT !.approval = r] \in Records
        /\ [Bundled(record[j], "awaiting_approval") EXCEPT !.approval = r].approval = r
    BY <2>1 DEF Records
  <2>3. Bundled(record[j], "prepared") \in Records
        /\ Bundled(record[j], "prepared").approval = record[j].approval
    BY <2>0, RecordsClosed DEF Lifecycle
  <2> QED
    BY <2>2, <2>3 DEF RequestApproval
<1>10. DeliveryTypeOK'
  <2>1. record' \in [Jobs -> Records]
    BY <1>9 DEF SendInv, DeliveryTypeOK, Records
  <2> QED
    BY <1>3, <1>8, <2>1 DEF SendInv, DeliveryTypeOK, Records
<1>11. \A q \in Requests :
         purpose'[q] # None => /\ disk'[q].status # "absent"
                               /\ disk'[q].required = RequiredApprovals(purpose'[q])
  <2> HIDE DEF new
  <2> QED
    BY <1>4, <1>5, <1>8 DEF SendInv, RequiredApprovals
<1>12. \A k \in Jobs : record'[k].approval # None => purpose'[record'[k].approval] = k
  <2>1. \A k \in Jobs : record[k].approval \in Requests \cup {None}
    BY DEF SendInv, DeliveryTypeOK
  <2>2. record \in [Jobs -> Records]
    BY DEF SendInv, DeliveryTypeOK, Records
  <2> QED
    BY <1>7, <1>8, <1>9, <2>1, <2>2 DEF SendInv
<1>14. \A s \in Senders :
          /\ sends'[s] # Idle => <<sends'[s].job, sends'[s].under>> \in sent'
          /\ sends'[s].phase = "backoff" => sends'[s].attempt <= Retries
  <2>1. Idle.phase # "backoff"
    BY DEF Idle
  <2> QED
    BY <1>8, <2>1 DEF SendInv
<1>13. \A p \in sent' : purpose'[p[2]] = p[1] /\ disk'[p[2]].status \in Granted
  <2> HIDE DEF new
  <2>1. \A p \in sent : p[2] \in Requests
    BY DEF SendInv, DeliveryTypeOK
  <2> QED
    BY <1>4, <1>5, <1>6, <1>8, <2>1 DEF SendInv
<1> QED
  BY <1>3, <1>8, <1>10, <1>11, <1>12, <1>13, <1>14 DEF SendInv

\* Every other step makes no request for a job.
LEMMA OtherKeepsInv ==
    ASSUME SendInv, [DeliveryNext]_vars,
           ~ \E j \in Jobs, r \in Requests, cut \in BOOLEAN : RequestApproval(j, r, cut)
    PROVE  SendInv'
<1>0. DeliveryTypeOK /\ QueueInv /\ sends \in [Senders -> Flight \cup {Idle}]
  BY DEF SendInv, DeliveryTypeOK
<1>1. [QueueNext]_queueVars /\ QueueInv' /\ QueueTypeOK'
  BY <1>0, QueueStep, NextInv DEF QueueInv
<1>2. \A j \in Jobs : record[j] \in Records
  BY <1>0 DEF DeliveryTypeOK, Records
<1>3. \A s \in Senders : [sends EXCEPT ![s] = Idle] \in [Senders -> Flight \cup {Idle}]
  BY <1>0
<1>4. \A cut \in BOOLEAN : Stopped(cut) \in [Senders -> Flight \cup {Idle}]
  BY <1>0 DEF Stopped
<1> Idle.phase # "backoff"
  BY DEF Idle
\* A step that changes the record of one job and keeps or ends sends.
<1>5. ASSUME NEW j \in Jobs, NEW rec \in Records, rec.approval = record[j].approval,
             record' = [record EXCEPT ![j] = rec], UNCHANGED <<purpose, sent>>,
             sends' \in [Senders -> Flight \cup {Idle}],
             \A s \in Senders : sends'[s] # Idle => sends'[s] = sends[s],
             confirmed' \subseteq sent, up' \in BOOLEAN
      PROVE  SendInv'
  <2>1. DeliveryTypeOK' /\ \A k \in Jobs : record'[k].approval = record[k].approval
    BY <1>0, <1>1, <1>5, RecordWritten DEF DeliveryTypeOK
  <2>2. \A s \in Senders :
          /\ sends'[s] # Idle => <<sends'[s].job, sends'[s].under>> \in sent'
          /\ sends'[s].phase = "backoff" => sends'[s].attempt <= Retries
    BY <1>5 DEF SendInv
  <2> QED
    BY <1>1, <1>5, <2>1, <2>2, SameRequests
<1>6. ASSUME NEW j \in Jobs, GetBundle(j) \/ GetRecord(j) \/ RefuseSend(j)
      PROVE  SendInv'
  <2>1. PICK rec \in Records : /\ rec.approval = record[j].approval
                               /\ record' = [record EXCEPT ![j] = rec]
    BY <1>2, <1>6, RecordsClosed DEF GetBundle, GetRecord, RefuseSend, Checked, Lifecycle
  <2> QED
    BY <1>0, <1>5, <1>6, <2>1 DEF GetBundle, GetRecord, RefuseSend, DeliveryTypeOK
<1>7. ASSUME NEW j \in Jobs, HandOff(j)
      PROVE  SendInv'
  <2>1. PICK rec \in Records : /\ rec.approval = record[j].approval
                               /\ record' = [record EXCEPT ![j] = rec]
    BY <1>0, <1>7, HandOffRecord DEF HandOff
  <2>2. up' \in BOOLEAN /\ UNCHANGED <<purpose, sent, confirmed>>
    BY <1>0, <1>7, HandOffRecord DEF HandOff
  <2>3. sends' = sends \/ \E cut \in BOOLEAN : sends' = Stopped(cut)
    BY <1>7 DEF HandOff
  <2>4. \A s \in Senders : sends'[s] # Idle => sends'[s] = sends[s]
    BY <2>3 DEF Stopped
  <2> QED
    BY <1>0, <1>4, <1>5, <2>1, <2>2, <2>3, <2>4 DEF DeliveryTypeOK
<1>8. ASSUME NEW s \in Senders, Succeed(s)
      PROVE  SendInv'
  <2> DEFINE j == sends[s].job
             done == [sends EXCEPT ![s] = Idle]
  <2>1. j \in Jobs /\ <<j, sends[s].under>> \in sent
    BY <1>0, <1>8, InFlight DEF Succeed, SendInv
  <2>2. /\ (\E cut \in BOOLEAN : SettleHandOff(j, cut)) \/ RefuseHandOff(j)
        /\ sends' = done \/ \E cut \in BOOLEAN : sends' = Stopped(cut)
        /\ confirmed' = confirmed \/ confirmed' = confirmed \cup {<<j, sends[s].under>>}
        /\ UNCHANGED <<purpose, sent>>
    BY <1>8 DEF Succeed
  <2>3. confirmed' \subseteq sent
    BY <1>0, <2>1, <2>2 DEF DeliveryTypeOK
  <2>4. PICK rec \in Records : /\ rec.approval = record[j].approval
                               /\ record' = [record EXCEPT ![j] = rec]
    BY <1>0, <2>1, <2>2, HandOffRecord
  <2>5. up' \in BOOLEAN
    BY <1>0, <2>1, <2>2, HandOffRecord
  <2>6. sends' \in [Senders -> Flight \cup {Idle}]
    BY <1>3, <1>4, <2>2
  <2>7. \A t \in Senders : sends'[t] # Idle => sends'[t] = sends[t]
    BY <1>0, <2>2 DEF Stopped
  <2> QED
    BY <1>5, <2>1, <2>2, <2>3, <2>4, <2>5, <2>6, <2>7
\* A step that moves one send on.
<1>9. ASSUME NEW s \in Senders, BackOff(s) \/ Retry(s) \/ Fail(s)
      PROVE  SendInv'
  <2>1. /\ sends[s] \in Flight /\ sends[s] # Idle
        /\ UNCHANGED <<record, purpose, sent, confirmed, up>>
    BY <1>0, <1>9, InFlight DEF BackOff, Retry, Fail
  <2>2. PICK next \in Flight \cup {Idle} :
          /\ sends' = [sends EXCEPT ![s] = next]
          /\ next # Idle => next.job = sends[s].job /\ next.under = sends[s].under
          /\ next.phase = "backoff" => next.attempt <= Retries
    <3>1. CASE Fail(s)
      BY <3>1 DEF Fail
    <3>2. CASE BackOff(s)
      <4>1. /\ [sends[s] EXCEPT !.phase = "backoff"] \in Flight
            /\ [sends[s] EXCEPT !.phase = "backoff"].job = sends[s].job
            /\ [sends[s] EXCEPT !.phase = "backoff"].under = sends[s].under
            /\ [sends[s] EXCEPT !.phase = "backoff"].attempt <= Retries
        BY <2>1, <3>2, DeliveryAssumption DEF Flight, BackOff
      <4> QED
        BY <3>2, <4>1 DEF BackOff
    <3>3. CASE Retry(s)
      <4> DEFINE again == [sends[s] EXCEPT !.phase = "posting"]
      <4>1. again \in Flight /\ again.attempt = sends[s].attempt
        BY <2>1 DEF Flight
      <4>2. again.attempt + 1 \in 1..(Retries + 1)
        BY <2>1, <3>3, <4>1, DeliveryAssumption DEF Retry, SendInv, Flight
      <4>3. /\ [again EXCEPT !.attempt = again.attempt + 1] \in Flight
            /\ [again EXCEPT !.attempt = again.attempt + 1].job = sends[s].job
            /\ [again EXCEPT !.attempt = again.attempt + 1].under = sends[s].under
            /\ [again EXCEPT !.attempt = again.attempt + 1].phase = "posting"
        BY <2>1, <4>1, <4>2 DEF Flight
      <4>4. sends' = [sends EXCEPT ![s] = [again EXCEPT !.attempt = again.attempt + 1]]
        BY <1>0, <2>1, <3>3, <4>1 DEF Retry
      <4> HIDE DEF again
      <4> QED
        BY <4>3, <4>4
    <3> QED
      BY <1>9, <3>1, <3>2, <3>3
  <2>3. sends' \in [Senders -> Flight \cup {Idle}]
    BY <1>0, <2>2
  <2>4. \A t \in Senders :
          /\ sends'[t] # Idle => <<sends'[t].job, sends'[t].under>> \in sent'
          /\ sends'[t].phase = "backoff" => sends'[t].attempt <= Retries
    BY <1>0, <2>1, <2>2 DEF SendInv
  <2>5. DeliveryTypeOK'
    BY <1>0, <1>1, <2>1, <2>3 DEF DeliveryTypeOK
  <2> QED
    BY <1>1, <2>1, <2>4, <2>5, SameRequests
<1>10. ASSUME NEW s \in Senders, NEW j \in Jobs, NEW r \in Requests, NEW route \in 1..Routes,
              NEW rec \in Records, Post(s, j, r, route), purpose[r] = j,
              rec.approval = record[j].approval,
              record' = [record EXCEPT ![j] = rec],
              UNCHANGED <<purpose, confirmed, up>>
       PROVE  SendInv'
  <2>1. /\ Admitted(r) /\ sent' = sent \cup {<<j, r>>} /\ sent' \subseteq Jobs \X Requests
        /\ sends' \in [Senders -> Flight \cup {Idle}]
        /\ \A t \in Senders : IF t = s THEN /\ sends'[t].job = j /\ sends'[t].under = r
                                            /\ sends'[t].phase = "posting"
                                       ELSE sends'[t] = sends[t]
    BY <1>0, <1>10, Posted
  <2>2. confirmed' \subseteq sent' /\ up' \in BOOLEAN
    BY <1>0, <1>10, <2>1 DEF DeliveryTypeOK
  <2>3. DeliveryTypeOK' /\ \A k \in Jobs : record'[k].approval = record[k].approval
    BY <1>0, <1>1, <1>10, <2>1, <2>2, RecordWritten
  <2>4. \A t \in Senders :
          /\ sends'[t] # Idle => <<sends'[t].job, sends'[t].under>> \in sent'
          /\ sends'[t].phase = "backoff" => sends'[t].attempt <= Retries
    BY <2>1 DEF SendInv
  <2>5. \A p \in sent' : p \in sent \/ (purpose[p[2]] = p[1] /\ Admitted(p[2]))
    BY <1>10, <2>1
  <2> QED
    BY <1>1, <1>10, <2>3, <2>4, <2>5, SameRequests
<1>11. ASSUME NEW s \in Senders, NEW j \in Jobs, StartSend(s, j)
       PROVE  SendInv'
  <2>1. PICK route \in 1..Routes : Post(s, j, Checked(j).approval, route)
    BY <1>11 DEF StartSend
  <2>2. /\ Checked(j) \in Records /\ Checked(j).approval = record[j].approval
        /\ Bundled(record[j], "prepared").approval = record[j].approval
        /\ Bundled(record[j], "prepared").status = "prepared"
    <3>1. /\ Bundled(record[j], "prepared") \in Records
          /\ Bundled(record[j], "prepared").approval = record[j].approval
      BY <1>2, RecordsClosed DEF Lifecycle
    <3>2. Bundled(record[j], "prepared").status = "prepared"
      BY <1>2 DEF Bundled, Records
    <3> QED
      BY <3>1, <3>2, RecordsClosed DEF Checked
  <2>3. record[j].approval # None
    BY <1>11, <2>2 DEF StartSend, Checked, Refreshed, Sendable
  <2>4. record[j].approval \in Requests /\ purpose[record[j].approval] = j
    BY <1>2, <2>3 DEF Records, SendInv
  <2> QED
    BY <1>10, <1>11, <2>1, <2>2, <2>4 DEF StartSend
<1>12. ASSUME NEW s \in Senders, NextRoute(s)
       PROVE  SendInv'
  <2>1. /\ sends[s].job \in Jobs /\ sends[s].under \in Requests /\ sends[s].route \in 1..Routes
        /\ purpose[sends[s].under] = sends[s].job
    <3>1. /\ sends[s] \in Flight /\ sends[s] # Idle
          /\ sends[s].job \in Jobs /\ sends[s].under \in Requests
      BY <1>0, <1>12, InFlight DEF NextRoute
    <3>2. <<sends[s].job, sends[s].under>> \in sent
      BY <3>1 DEF SendInv
    <3> QED
      BY <3>1, <3>2 DEF Flight, SendInv
  <2>2. PICK route \in (sends[s].route + 1)..Routes : Post(s, sends[s].job, sends[s].under, route)
    BY <1>12 DEF NextRoute
  <2>3. route \in 1..Routes
    BY <2>1, <2>2, DeliveryAssumption
  <2>4. record' = [record EXCEPT ![sends[s].job] = record[sends[s].job]]
    BY <1>0, <1>12 DEF NextRoute, DeliveryTypeOK
  <2> QED
    BY <1>2, <1>10, <1>12, <2>1, <2>2, <2>3, <2>4 DEF NextRoute
<1>13. CASE UNCHANGED deliveryVars
  <2>1. DeliveryTypeOK'
    BY <1>0, <1>1, <1>13 DEF DeliveryTypeOK, deliveryVars
  <2> QED
    BY <1>1, <1>13, <2>1, SameRequests DEF deliveryVars, SendInv
<1>14. CASE Reboot
  <2>1. DeliveryTypeOK'
    BY <1>0, <1>1, <1>14 DEF DeliveryTypeOK, Reboot
  <2> QED
    BY <1>1, <1>14, <2>1, SameRequests DEF Reboot, SendInv, Idle
<1> QED
  BY <1>6, <1>7, <1>8, <1>9, <1>11, <1>12, <1>13, <1>14
     DEF DeliveryNext, Progress, Elsewhere, vars

\* Nothing is recorded or sent at first.
LEMMA SendInvInit == DeliveryInit => SendInv
<1> SUFFICES ASSUME DeliveryInit PROVE SendInv
  OBVIOUS
<1>1. QueueInv /\ QueueTypeOK
  BY InitInv DEF DeliveryInit, QueueInv
<1>2. DeliveryTypeOK
  BY <1>1 DEF DeliveryInit, DeliveryTypeOK, Lifecycle
<1> QED
  BY <1>1, <1>2 DEF DeliveryInit, SendInv, Idle

\* One lemma for the step that makes a request, one for all others.
LEMMA SendInvNext == SendInv /\ [DeliveryNext]_vars => SendInv'
  BY RequestKeepsInv, OtherKeepsInv

\* The strengthening the theorems below rest on.
LEMMA DeliveryInvariant == DeliverySpec => []SendInv
  BY SendInvInit, SendInvNext, PTL DEF DeliverySpec

(* The composition is well typed: in particular no send makes more attempts than its    *)
(* policy allows, takes a route that does not exist, or is confirmed without a POST.    *)
THEOREM DeliveryTyped == DeliverySpec => []DeliveryTypeOK
<1>1. SendInv => DeliveryTypeOK
  BY DEF SendInv
<1> QED
  BY <1>1, DeliveryInvariant, PTL

(* Deliveries use the approval queue only as it may be used, so the queue keeps its      *)
(* promise while packages are requested, handed off, sent and cut short by deaths.       *)
THEOREM DeliveryKeepsPromise == DeliverySpec => KeepsPromise
<1>1. DeliveryInit => QueueInit
  BY DEF DeliveryInit
<1>2. SendInv /\ [DeliveryNext]_vars => [QueueNext]_queueVars
  BY QueueStep DEF SendInv
<1>3. DeliverySpec => QueueSpec
  BY <1>1, <1>2, DeliveryInvariant, PTL DEF DeliverySpec, QueueSpec
<1> QED
  BY <1>3, QueueKeepsPromise, PTL

(* Every package was posted under a granted request that was made for its job and        *)
(* signed by as many people as the job's findings demand.                                *)
THEOREM PackagesAreSigned == DeliverySpec => []SentSigned
<1>1. SendInv => SentSigned
  <2> SUFFICES ASSUME SendInv, NEW p \in sent
               PROVE  /\ purpose[p[2]] = p[1]
                      /\ disk[p[2]].status \in Granted
                      /\ Cardinality(disk[p[2]].received) >= (IF p[1] \in Severe THEN 2 ELSE 1)
    BY DEF SentSigned
  <2>1. p[1] \in Jobs /\ p[2] \in Requests
    BY DEF SendInv, DeliveryTypeOK
  <2>2. purpose[p[2]] = p[1] /\ disk[p[2]].status \in Granted
    BY DEF SendInv
  <2>3. disk[p[2]].required = RequiredApprovals(p[1])
    BY <2>1, <2>2, DeliveryAssumption DEF SendInv
  <2>4. Cardinality(disk[p[2]].received) >= disk[p[2]].required
    BY <2>1, <2>2 DEF SendInv, QueueInv, RowSigned
  <2> QED
    BY <2>2, <2>3, <2>4 DEF RequiredApprovals
<1> QED
  BY <1>1, DeliveryInvariant, PTL

-------------------------------------------------------------------------------
\* RecordFollowsRequest, of one record.
Agrees(rec) ==
    LET status == disk[rec.approval].status
    IN  /\ rec.status = "awaiting_approval" => rec.approval # None /\ status # "absent"
        /\ rec.status \in Sendable => rec.approval # None /\ status \in Granted
        /\ rec.status = "rejected" => rec.approval # None /\ status \in {"denied", "expired"}

\* A record that agrees with the database before a step of the queue does after it.
LEMMA AgreesStays ==
    ASSUME QueueInv, [QueueNext]_queueVars, NEW rec \in Records, Agrees(rec)
    PROVE  Agrees(rec)'
<1>1. CASE rec.approval = None
  BY <1>1 DEF Agrees
<1>2. CASE rec.approval # None
  <2>1. rec.approval \in Requests
    BY <1>2 DEF Records
  <2>2. disk[rec.approval].status # "absent" =>
          /\ disk'[rec.approval].status # "absent"
          /\ disk[rec.approval].status \in Granted => disk'[rec.approval].status \in Granted
          /\ disk[rec.approval].status \in {"denied", "expired"} =>
                disk'[rec.approval].status = disk[rec.approval].status
    BY <2>1, RowsStay
  <2> QED
    BY <2>2 DEF Agrees, Granted
<1> QED
  BY <1>1, <1>2

\* A refresh makes a record agree with its request's row, although it may have read
\* the request's copy in memory.
LEMMA RefreshedAgrees ==
    ASSUME SendInv, NEW j \in Jobs, NEW rec \in Records,
           rec.approval = record[j].approval, Agrees(rec)
    PROVE  Agrees(Refreshed(rec))
<1> DEFINE r == rec.approval
<1>1. CASE Refreshed(rec) = rec
  BY <1>1
<1>2. CASE Refreshed(rec) # rec
  <2>1. /\ r \in Requests /\ r # None /\ Lookup(r) \in DOMAIN LifecycleOf
        /\ Refreshed(rec) = [rec EXCEPT !.status = LifecycleOf[Lookup(r)]]
    BY <1>2 DEF Refreshed, Records
  <2>2. Refreshed(rec).status = LifecycleOf[Lookup(r)] /\ Refreshed(rec).approval = r
    BY <2>1 DEF Records
  <2>3. disk[r].status # "absent"
    BY <2>1, DeliveryAssumption DEF SendInv
  <2>4. r \in pending => Lookup(r) \in OpenStatus
    BY DEF SendInv, QueueInv, EachInOnePlace, Lookup
  <2>5. r \notin pending => \/ Lookup(r) = disk[r].status
                            \/ disk[r].status = "approved" /\ Lookup(r) = "executed"
    <3>1. r \in InHistory => \/ disk[r] = mem[r]
                             \/ /\ disk[r].status = "approved"
                                /\ mem[r] = [disk[r] EXCEPT !.status = "executed"]
      BY <2>1 DEF SendInv, QueueInv, RowOf
    <3>2. [disk[r] EXCEPT !.status = "executed"].status = "executed"
      BY <2>1 DEF SendInv, QueueInv, QueueTypeOK, Row
    <3> QED
      BY <3>1, <3>2 DEF Lookup
  <2>6. /\ LifecycleOf["pending"] = "awaiting_approval"
        /\ LifecycleOf["partially_approved"] = "awaiting_approval"
        /\ LifecycleOf["approved"] = "approved" /\ LifecycleOf["executed"] = "handed_off"
        /\ LifecycleOf["denied"] = "rejected" /\ LifecycleOf["expired"] = "rejected"
        /\ DOMAIN LifecycleOf =
             {"pending", "partially_approved", "approved", "denied", "expired", "executed"}
    BY DEF LifecycleOf
  <2> QED
    BY <2>1, <2>2, <2>3, <2>4, <2>5, <2>6 DEF Agrees, Sendable, Granted, OpenStatus
<1> QED
  BY <1>1, <1>2

\* Every step leaves the records in agreement with the database.
LEMMA FollowsNext ==
    ASSUME SendInv, SendInv', RecordFollowsRequest, [DeliveryNext]_vars
    PROVE  RecordFollowsRequest'
<1>0. DeliveryTypeOK /\ QueueInv /\ [QueueNext]_queueVars
  BY QueueStep DEF SendInv
<1>1. \A j \in Jobs : record[j] \in Records /\ Agrees(record[j])
  BY <1>0 DEF RecordFollowsRequest, Agrees, DeliveryTypeOK, Records
<1>2. \A j \in Jobs : Refreshed(record[j]) \in Records /\ Agrees(Refreshed(record[j]))
  BY <1>1, RecordsClosed, RefreshedAgrees
<1>3. \A j \in Jobs : Bundled(record[j], "prepared") \in Records
                      /\ Agrees(Bundled(record[j], "prepared"))
  <2> SUFFICES ASSUME NEW j \in Jobs
               PROVE  Bundled(record[j], "prepared") \in Records
                      /\ Agrees(Bundled(record[j], "prepared"))
    OBVIOUS
  <2>1. Bundled(record[j], "prepared") \in Records
    BY <1>1, RecordsClosed DEF Lifecycle
  <2>2. Bundled(record[j], "prepared").status = "prepared"
    BY <1>1 DEF Bundled, Records
  <2> QED
    BY <2>1, <2>2 DEF Agrees, Sendable
<1>4. \A j \in Jobs : Checked(j) \in Records /\ Agrees(Checked(j))
  <2> SUFFICES ASSUME NEW j \in Jobs PROVE Checked(j) \in Records /\ Agrees(Checked(j))
    OBVIOUS
  <2>1. Bundled(record[j], "prepared").approval = record[j].approval
    BY <1>1, RecordsClosed DEF Lifecycle
  <2> QED
    BY <1>3, <2>1, RecordsClosed, RefreshedAgrees DEF Checked
\* A step that leaves each record as it was, or as something that agreed before it.
<1>5. ASSUME \A j \in Jobs : \E rec \in Records : Agrees(rec) /\ record'[j] = rec
      PROVE  RecordFollowsRequest'
  <2> SUFFICES ASSUME NEW j \in Jobs PROVE Agrees(record[j])'
    BY DEF RecordFollowsRequest, Agrees
  <2>1. PICK rec \in Records : Agrees(rec) /\ record'[j] = rec
    BY <1>5
  <2>2. Agrees(rec)'
    BY <1>0, <2>1, AgreesStays
  <2> QED
    BY <2>1, <2>2 DEF Agrees
<1>6. ASSUME NEW j \in Jobs, NEW rec \in Records, Agrees(rec),
             record' = [record EXCEPT ![j] = rec]
      PROVE  RecordFollowsRequest'
  BY <1>0, <1>1, <1>5, <1>6 DEF DeliveryTypeOK
<1>7. CASE UNCHANGED record
  BY <1>1, <1>5, <1>7
<1>8. ASSUME NEW j \in Jobs, GetBundle(j) \/ GetRecord(j) \/ RefuseSend(j)
      PROVE  RecordFollowsRequest'
  BY <1>2, <1>3, <1>4, <1>6, <1>8 DEF GetBundle, GetRecord, RefuseSend
<1>9. ASSUME NEW j \in Jobs, NEW s \in Senders, StartSend(s, j)
      PROVE  RecordFollowsRequest'
  BY <1>4, <1>6, <1>9 DEF StartSend
<1>10. ASSUME NEW j \in Jobs, (\E cut \in BOOLEAN : SettleHandOff(j, cut)) \/ RefuseHandOff(j)
       PROVE  RecordFollowsRequest'
  <2> DEFINE rec == AtHandOff(j)
             off == [rec EXCEPT !.status = "handed_off"]
  <2>1. rec \in Records /\ Agrees(rec)
    BY <1>2 DEF AtHandOff
  <2>2. off \in Records /\ off.status = "handed_off" /\ off.approval = rec.approval
    BY <2>1 DEF Records, Lifecycle
  <2>3. rec.status \in Sendable => Agrees(off)
    <3> HIDE DEF off, rec
    <3> QED
      BY <2>1, <2>2 DEF Agrees, Sendable
  <2>4. \/ record' = [record EXCEPT ![j] = rec]
        \/ rec.status \in Sendable /\ record' = [record EXCEPT ![j] = off]
    <3>1. CASE RefuseHandOff(j)
      BY <3>1 DEF RefuseHandOff
    <3>2. ASSUME NEW cut \in BOOLEAN, SettleHandOff(j, cut)
          PROVE  /\ rec.status \in Sendable
                 /\ record' = [record EXCEPT ![j] = IF cut THEN rec ELSE off]
      BY <3>2 DEF SettleHandOff
    <3> QED
      BY <1>10, <3>1, <3>2
  <2> HIDE DEF off, rec
  <2> QED
    BY <1>6, <2>1, <2>2, <2>3, <2>4
<1>11. ASSUME NEW j \in Jobs, NEW r \in Requests, RequestApproval(j, r, FALSE)
       PROVE  RecordFollowsRequest'
  <2> USE <1>11
  <2>1. Bundled(record[j], "awaiting_approval") \in Records
        /\ Bundled(record[j], "awaiting_approval").status = "awaiting_approval"
    BY <1>1 DEF Bundled, Records, Lifecycle
  <2> DEFINE new == [Bundled(record[j], "awaiting_approval") EXCEPT !.approval = r]
  <2>2. new.status = "awaiting_approval" /\ new.approval = r
    BY <2>1 DEF Records
  <2>3. /\ record' = [record EXCEPT ![j] = new]
        /\ purpose'[r] = j /\ r # None /\ j # None
    <3>1. record' = [record EXCEPT ![j] = new]
      BY DEF RequestApproval
    <3>2. purpose' = [purpose EXCEPT ![r] = j] /\ purpose \in [Requests -> Jobs \cup {None}]
      BY <1>0 DEF RequestApproval, DeliveryTypeOK
    <3> QED
      BY <3>1, <3>2, DeliveryAssumption
  <2>4. disk'[r].status # "absent"
    BY <2>3 DEF SendInv
  <2> HIDE DEF new
  <2>5. record'[j] = new /\ \A k \in Jobs : k # j => record'[k] = record[k]
    BY <1>0, <2>3 DEF DeliveryTypeOK
  <2>6. ASSUME NEW k \in Jobs
        PROVE  Agrees(record[k])'
    <3>1. CASE k = j
      BY <2>2, <2>3, <2>4, <2>5, <3>1 DEF Agrees, Sendable
    <3>2. CASE k # j
      <4>1. Agrees(record[k]) /\ record[k] \in Records /\ record'[k] = record[k]
        BY <1>1, <2>5, <3>2
      <4>2. \A rec \in Records : Agrees(rec) => Agrees(rec)'
        BY <1>0, AgreesStays
      <4> QED
        BY <4>1, <4>2 DEF Agrees
    <3> QED
      BY <3>1, <3>2
  <2> QED
    BY <2>6 DEF RecordFollowsRequest, Agrees
<1>13. ASSUME NEW j \in Jobs, NEW r \in Requests, RequestApproval(j, r, TRUE)
       PROVE  RecordFollowsRequest'
  BY <1>3, <1>6, <1>13 DEF RequestApproval
<1>12. ASSUME NEW s \in Senders, Progress(s)
       PROVE  RecordFollowsRequest'
  <2>1. Succeed(s) => sends[s].job \in Jobs
    BY <1>0, InFlight DEF Succeed
  <2> QED
    BY <1>7, <1>10, <1>12, <2>1 DEF Progress, Succeed, BackOff, Retry, NextRoute, Fail
<1>14. ASSUME NEW j \in Jobs, NEW r \in Requests, NEW cut \in BOOLEAN,
              RequestApproval(j, r, cut)
       PROVE  RecordFollowsRequest'
  BY <1>11, <1>13, <1>14
<1> QED
  BY <1>7, <1>8, <1>9, <1>10, <1>12, <1>14
     DEF DeliveryNext, HandOff, Elsewhere, Reboot, deliveryVars, vars

(* A delivery record never claims what the row of its request denies, although the two    *)
(* are in two databases, written by different handlers with deaths in between.            *)
THEOREM RecordsAgree == DeliverySpec => []RecordFollowsRequest
<1>1. DeliveryInit => RecordFollowsRequest
  BY DEF DeliveryInit, RecordFollowsRequest, Sendable
<1>2. SendInv /\ SendInv' /\ RecordFollowsRequest /\ [DeliveryNext]_vars => RecordFollowsRequest'
  BY FollowsNext
<1> QED
  BY <1>1, <1>2, DeliveryInvariant, PTL DEF DeliverySpec

-------------------------------------------------------------------------------
\* With writes that succeed, the copy the process holds of a settled request is its row.
CopiesAreRows == \A r \in InHistory : mem[r] = disk[r]

\* What explains that a hand-off left its request as it is.
Consumed(r) == disk[r].status = "executed" \/ Beyond(r)

Settled(r) == {q \in Requests \ {r} : disk[q].status \in SettledStatus}

\* A write changes a copy together with its row; only what is settled enters _history.
LEMMA CopiesStay ==
    ASSUME QueueInv, QueueInv', CopiesAreRows, [QueueNext]_queueVars
    PROVE  CopiesAreRows'
<1>1. /\ mem \in [Requests -> Row] /\ disk \in [Requests -> Row]
      /\ InHistory \subseteq Requests /\ InHistory' \subseteq Requests
      /\ pending \subseteq Requests /\ pending \cap InHistory = {}
      /\ history \in Seq(Requests) /\ created \in [Requests -> Nat]
  BY DEF QueueInv, QueueTypeOK, EachInOnePlace, InHistory
\* A step that writes one copy and its row, and puts no other request in _history.
<1>2. ASSUME NEW r \in Requests, NEW row \in Row, mem' = [mem EXCEPT ![r] = row],
             disk' = [disk EXCEPT ![r] = row],
             \A q \in InHistory' : q \in InHistory \/ q = r
      PROVE  CopiesAreRows'
  BY <1>1, <1>2 DEF CopiesAreRows
<1>3. ASSUME NEW r \in Requests, NEW n \in Asked, Propose(r, n, TRUE)
      PROVE  CopiesAreRows'
  <2> DEFINE row == [status |-> "pending", required |-> Required(n), received |-> {}]
  <2>1. row \in Row
    BY QueueAssumption DEF Row, Required, OpenStatus
  <2>2. /\ mem' = [mem EXCEPT ![r] = row] /\ disk' = [disk EXCEPT ![r] = row]
        /\ InHistory' = InHistory
    BY <1>3 DEF Propose, Write, InHistory
  <2> QED
    BY <1>2, <2>1, <2>2
<1>4. ASSUME NEW r \in pending, NEW row \in Row, Settle(r, row, TRUE)
      PROVE  CopiesAreRows'
  <2>1. /\ mem' = [mem EXCEPT ![r] = row] /\ disk' = [disk EXCEPT ![r] = row]
        /\ history' = Archived(<<r>>)
    BY <1>4 DEF Settle, Write
  <2>2. <<r>> \in Seq(Requests) /\ Len(<<r>>) = 1 /\ <<r>>[1] = r /\ r \in Requests
    BY <1>1
  <2>3. /\ \A i, j \in 1..Len(<<r>>) : <<r>>[i] = <<r>>[j] => i = j
        /\ \A i \in 1..Len(<<r>>) : <<r>>[i] \in {r}
        /\ {r} \cap InHistory = {}
    BY <1>1, <2>2
  <2>4. \A q \in InHistory' : q \in InHistory \/ q \in {r}
    BY <2>1, <2>2, <2>3, HistoryAfter
  <2> QED
    BY <1>2, <2>1, <2>2, <2>4
<1>5. \A r \in pending, d \in Deciders :
         /\ [mem[r] EXCEPT !.status = "expired"] \in Row
         /\ [mem[r] EXCEPT !.status = "denied"] \in Row
         /\ [Signed(r, d) EXCEPT !.status = "approved"] \in Row
         /\ [Signed(r, d) EXCEPT !.status = "partially_approved"] \in Row
  <2> SUFFICES ASSUME NEW r \in pending, NEW d \in Deciders
               PROVE  /\ [mem[r] EXCEPT !.status = "expired"] \in Row
                      /\ [mem[r] EXCEPT !.status = "denied"] \in Row
                      /\ [Signed(r, d) EXCEPT !.status = "approved"] \in Row
                      /\ [Signed(r, d) EXCEPT !.status = "partially_approved"] \in Row
    OBVIOUS
  <2>1. mem[r] \in Row
    BY <1>1
  <2>2. Signed(r, d) \in Row
    BY <2>1 DEF Signed, Row
  <2> QED
    BY <2>1, <2>2 DEF Row, OpenStatus, SettledStatus
<1>6. ASSUME NEW r \in Requests,
             ApproveLate(r, TRUE) \/ Deny(r, TRUE) \/ \E d \in Deciders : ApproveFully(r, d, TRUE)
      PROVE  CopiesAreRows'
  <2>1. CASE ApproveLate(r, TRUE) \/ Deny(r, TRUE)
    <3>1. r \in pending /\ mem[r] \in Row
      BY <1>1, <2>1 DEF ApproveLate, Deny
    <3>2. /\ [mem[r] EXCEPT !.status = "expired"] \in Row
          /\ [mem[r] EXCEPT !.status = "denied"] \in Row
      BY <3>1 DEF Row, SettledStatus
    <3> QED
      BY <1>4, <2>1, <3>1, <3>2 DEF ApproveLate, Deny
  <2>2. ASSUME NEW d \in Deciders, ApproveFully(r, d, TRUE) PROVE CopiesAreRows'
    BY <1>4, <1>5, <2>2 DEF ApproveFully
  <2> QED
    BY <1>6, <2>1, <2>2
<1>7. ASSUME NEW r \in Requests, NEW d \in Deciders, ApprovePartly(r, d, TRUE)
      PROVE  CopiesAreRows'
  <2> DEFINE row == [Signed(r, d) EXCEPT !.status = "partially_approved"]
  <2>1. r \in pending /\ row \in Row
    BY <1>5, <1>7 DEF ApprovePartly
  <2>2. /\ mem' = [mem EXCEPT ![r] = row] /\ disk' = [disk EXCEPT ![r] = row]
        /\ InHistory' = InHistory
    BY <1>7 DEF ApprovePartly, Write, InHistory
  <2> HIDE DEF row
  <2> QED
    BY <1>2, <2>1, <2>2
<1>8. ASSUME NEW r \in Requests, MarkExecuted(r, TRUE)
      PROVE  CopiesAreRows'
  <2> DEFINE row == [mem[r] EXCEPT !.status = "executed"]
  <2>1. row \in Row
    BY <1>1 DEF Row, SettledStatus
  <2>2. /\ mem' = [mem EXCEPT ![r] = row] /\ disk' = [disk EXCEPT ![r] = row]
        /\ InHistory' = InHistory
    BY <1>8 DEF MarkExecuted, Write, InHistory
  <2> HIDE DEF row
  <2> QED
    BY <1>2, <2>1, <2>2
<1>9. CASE ExpireStale
  <2>1. /\ mem' = Expired(Due, mem) /\ disk' = Expired(Due, disk)
        /\ \E s \in OldestFirst(Due) : history' = Archived(s)
    <3>1. PICK done \in Begun(Due) :
            LET struck == IF done = Due THEN {} ELSE Oldest(Due \ done)
            IN  /\ done # Due => FALSE \in WriteOutcomes
                /\ mem' = Expired(done \cup struck, mem)
                /\ disk' = Expired(done, disk)
                /\ \E s \in OldestFirst(done) : history' = Archived(s)
      BY <1>9 DEF ExpireStale
    <3>2. done = Due
      BY <3>1, DeliveryAssumption
    <3> QED
      BY <3>1, <3>2
  <2>2. PICK s \in OldestFirst(Due) : history' = Archived(s)
    BY <2>1
  <2>3. Due \in SUBSET Requests /\ Due \cap InHistory = {}
    BY <1>1 DEF Due
  <2>4. /\ s \in Seq(Requests)
        /\ \A i, j \in 1..Len(s) : s[i] = s[j] => i = j
        /\ \A i \in 1..Len(s) : s[i] \in Due
    BY <1>1, <2>3, OldestFirstVisits
  <2>5. \A r \in InHistory' : r \in InHistory \/ r \in Due
    BY <2>2, <2>3, <2>4, HistoryAfter
  <2> QED
    BY <1>1, <2>1, <2>5 DEF CopiesAreRows, Expired
<1>10. CASE Restart
  BY <1>10 DEF Restart, CopiesAreRows
<1>11. CASE UNCHANGED <<history, mem, disk>>
  BY <1>11 DEF CopiesAreRows, InHistory
<1> QED
  BY <1>3, <1>6, <1>7, <1>8, <1>9, <1>10, <1>11, DeliveryAssumption
     DEF QueueNext, Lapse, queueVars

\* What the queue or the database answers of a request is, then, what its row says,
\* or that it is open.
LEMMA LookupIsRow ==
    ASSUME QueueInv, CopiesAreRows, NEW r \in Requests
    PROVE  /\ Lookup(r) = "executed" => disk[r].status = "executed"
           /\ disk[r].status \in Granted => Lookup(r) = disk[r].status
<1>1. r \in pending => mem[r].status \in OpenStatus /\ disk[r].status \in OpenStatus \cup {"absent"}
  <2>1. RowOf(r)
    BY DEF QueueInv
  <2> QED
    BY <2>1 DEF RowOf, QueueInv, EachInOnePlace
<1>2. r \in InHistory => mem[r] = disk[r]
  BY DEF CopiesAreRows
<1> QED
  BY <1>1, <1>2 DEF Lookup, OpenStatus, Granted

\* Being out of mark_executed's reach is being beyond a full bound.
LEMMA OutIsBeyond ==
    ASSUME QueueInv, ApprovalReachable, NEW r \in Requests,
           disk[r].status = "approved", r \notin InHistory
    PROVE  Beyond(r)
<1>1. CASE Cardinality(Later(r)) >= LoadLimit
  BY <1>1 DEF Beyond, Later
<1>2. CASE Len(history) >= MaxHistory
  <2>1. /\ history \in Seq(Requests) /\ Len(history) \in Nat
        /\ \A i, j \in 1..Len(history) : history[i] = history[j] => i = j
    BY DEF QueueInv, QueueTypeOK, EachInOnePlace
  <2>2. ASSUME NEW i \in 1..Len(history) PROVE history[i] \in Settled(r)
    <3>1. history[i] \in InHistory /\ history[i] \in Requests
      BY <2>1 DEF InHistory
    <3>2. mem[history[i]].status \in SettledStatus /\ RowOf(history[i])
      BY <3>1 DEF QueueInv, EachInOnePlace
    <3>3. disk[history[i]].status \in SettledStatus
      BY <3>1, <3>2 DEF RowOf, SettledStatus
    <3> QED
      BY <3>1, <3>3 DEF Settled
  <2>3. IsFiniteSet(Settled(r))
    BY FS_Subset, QueueAssumption DEF Settled
  <2>4. Cardinality(1..Len(history)) = Len(history)
    <3>1. Cardinality(1..Len(history)) = IF 1 > Len(history) THEN 0 ELSE Len(history) - 1 + 1
      BY <2>1, FS_Interval
    <3> QED
      BY <2>1, <3>1
  <2>5. history \in Injection(1..Len(history), Settled(r))
    <3>1. history \in [1..Len(history) -> Requests] /\ DOMAIN history = 1..Len(history)
      BY <2>1
    <3>2. history \in [1..Len(history) -> Settled(r)]
      BY <2>2, <3>1
    <3>3. IsInjective(history)
      BY <2>1, <3>1 DEF IsInjective
    <3> QED
      BY <3>2, <3>3 DEF Injection
  <2>6. Cardinality(1..Len(history)) <= Cardinality(Settled(r))
    BY <2>3, <2>5, FS_Injection
  <2>7. Cardinality(Settled(r)) \in Nat
    BY <2>3, FS_CardinalityType
  <2> QED
    BY <1>2, <2>1, <2>4, <2>6, <2>7, QueueAssumption DEF Beyond, Settled
<1> QED
  BY <1>1, <1>2 DEF ApprovalReachable, Later

\* An execution is final, and so is being beyond a bound.
LEMMA ConsumedStays ==
    ASSUME QueueInv, [QueueNext]_queueVars, NEW r \in Requests,
           disk[r].status \in Granted, Consumed(r)
    PROVE  Consumed(r)'
<1>1. disk \in [Requests -> Row] /\ created[r] # 0
  <2>1. RowOf(r)
    BY DEF QueueInv
  <2> QED
    BY <2>1 DEF QueueInv, QueueTypeOK, RowOf, NoRow, Granted
<1>2. CASE disk[r].status = "executed"
  <2>1. CASE UNCHANGED disk
    BY <1>2, <2>1 DEF Consumed
  <2>2. CASE \E q \in Requests, row \in Row :
               /\ disk' = [disk EXCEPT ![q] = row]
               /\ disk[q].status \in OpenStatus \cup {"absent", "approved"}
    BY <1>1, <1>2, <2>2 DEF Consumed, OpenStatus
  <2>3. ASSUME NEW done \in SUBSET Due, disk' = Expired(done, disk) PROVE Consumed(r)'
    <3>1. r \notin pending
      <4>1. RowOf(r)
        BY DEF QueueInv
      <4> QED
        BY <1>2, <4>1 DEF RowOf, OpenStatus
    <3>2. disk'[r] = disk[r]
      BY <2>3, <3>1 DEF Expired, Due
    <3> QED
      BY <1>2, <3>2 DEF Consumed
  <2> QED
    BY <2>1, <2>2, <2>3, RowsOfAStep DEF queueVars
<1>3. CASE Beyond(r)
  <2>1. Settled(r) \subseteq Settled(r)'
    <3>1. \A q \in Requests : disk[q].status \in SettledStatus => disk'[q].status \in SettledStatus
      BY RowsStay DEF SettledStatus, Granted
    <3> QED
      BY <3>1 DEF Settled
  <2>2. IsFiniteSet(Settled(r)) /\ IsFiniteSet(Settled(r)')
    BY FS_Subset, QueueAssumption DEF Settled
  <2>3. /\ Cardinality(Settled(r)) \in Nat /\ Cardinality(Settled(r)') \in Nat
        /\ Cardinality(Settled(r)) <= Cardinality(Settled(r)')
    BY <2>1, <2>2, FS_Subset, FS_CardinalityType
  <2>4. /\ Cardinality(Later(r)) \in Nat /\ Cardinality(Later(r)') \in Nat
        /\ Cardinality(Later(r)) <= Cardinality(Later(r)')
    BY <1>1, LaterStays
  <2>5. Cardinality(Settled(r)) >= MaxHistory \/ Cardinality(Later(r)) >= LoadLimit
    BY <1>3 DEF Beyond, Settled, Later
  <2>6. Cardinality(Settled(r)') >= MaxHistory \/ Cardinality(Later(r)') >= LoadLimit
    BY <2>3, <2>4, <2>5, QueueAssumption
  <2>7. Beyond(r)'
    BY <2>6 DEF Beyond, Settled, Later
  <2> QED
    BY <2>7 DEF Consumed
<1> QED
  BY <1>2, <1>3 DEF Consumed

-------------------------------------------------------------------------------
\* What HandOffConsumes rests on.
HandOffInv ==
    /\ SendInv
    /\ RecordFollowsRequest
    /\ CopiesAreRows
    /\ ApprovalReachable
    /\ HandOffConsumes

\* A record's claim to have been handed off, of one record.
Backed(rec) == rec.status = "handed_off" => Consumed(rec.approval)

\* A refresh claims a hand-off only where the row says executed.
LEMMA RefreshBacks ==
    ASSUME HandOffInv, NEW rec \in Records, Backed(rec)
    PROVE  Backed(Refreshed(rec))
<1>1. CASE Refreshed(rec) = rec
  BY <1>1
<1>2. CASE Refreshed(rec) # rec
  <2>1. /\ rec.approval \in Requests /\ Lookup(rec.approval) \in DOMAIN LifecycleOf
        /\ Refreshed(rec) = [rec EXCEPT !.status = LifecycleOf[Lookup(rec.approval)]]
    BY <1>2 DEF Refreshed, Records
  <2>2. /\ Refreshed(rec).status = LifecycleOf[Lookup(rec.approval)]
        /\ Refreshed(rec).approval = rec.approval
    BY <2>1 DEF Records
  <2>3. Refreshed(rec).status = "handed_off" => Lookup(rec.approval) = "executed"
    BY <2>1, <2>2 DEF LifecycleOf
  <2>4. Lookup(rec.approval) = "executed" => disk[rec.approval].status = "executed"
    BY <2>1, LookupIsRow DEF HandOffInv, SendInv
  <2> QED
    BY <2>2, <2>3, <2>4 DEF Backed, Consumed
<1> QED
  BY <1>1, <1>2

\* A hand-off that settles leaves its request executed, or out of reach for a full bound.
LEMMA SettlesConsumed ==
    ASSUME HandOffInv, [QueueNext]_queueVars, NEW j \in Jobs, NEW cut \in BOOLEAN,
           SettleHandOff(j, cut)
    PROVE  \E r \in Requests : r = record[j].approval /\ Consumed(r)'
<1> PICK r : r = record[j].approval
  OBVIOUS
<1>0. SendInv /\ QueueInv /\ CopiesAreRows /\ ApprovalReachable
  BY DEF HandOffInv, SendInv
<1>1. record[j] \in Records /\ Agrees(record[j])
  BY <1>0 DEF HandOffInv, SendInv, DeliveryTypeOK, Records, RecordFollowsRequest, Agrees
<1>2. /\ AtHandOff(j) \in Records /\ AtHandOff(j).approval = r /\ Agrees(AtHandOff(j))
  BY <1>0, <1>1, RecordsClosed, RefreshedAgrees DEF AtHandOff
<1>3. r \in Requests /\ disk[r].status \in Granted
  BY <1>1, <1>2 DEF Agrees, SettleHandOff, Records
<1>4. CASE Executable(r)
  <2>1. MarkExecuted(r, TRUE)
    BY <1>2, <1>4 DEF SettleHandOff
  <2>2. disk' = [disk EXCEPT ![r] = [mem[r] EXCEPT !.status = "executed"]]
    BY <2>1 DEF MarkExecuted, Write
  <2>3. disk'[r].status = "executed"
    BY <1>0, <1>3, <2>2 DEF QueueInv, QueueTypeOK, Row
  <2> QED
    BY <1>3, <2>3 DEF Consumed
<1>5. CASE ~Executable(r)
  <2>1. UNCHANGED queueVars
    BY <1>2, <1>5 DEF SettleHandOff
  <2>2. Consumed(r)
    <3>1. CASE disk[r].status = "executed"
      BY <3>1 DEF Consumed
    <3>2. CASE disk[r].status = "approved"
      <4>1. r \notin InHistory
        BY <1>0, <1>5, <3>2 DEF CopiesAreRows, Executable
      <4> QED
        BY <1>0, <1>3, <3>2, <4>1, OutIsBeyond DEF Consumed
    <3> QED
      BY <1>3, <3>1, <3>2 DEF Granted
  <2>3. Consumed(r)'
    BY <1>0, <1>3, <2>2, ConsumedStays
  <2> QED
    BY <1>3, <2>3
<1> QED
  BY <1>4, <1>5

\* The steps that write no other request into a record: what the old records and
\* receipts claimed stays so, and what the step adds must be so.
LEMMA ClaimsStay ==
    ASSUME HandOffInv, SendInv', [QueueNext]_queueVars,
           \A j \in Jobs :
              /\ record'[j].approval = record[j].approval
              /\ \/ \E rec \in Records : Backed(rec) /\ Agrees(rec) /\ record'[j] = rec
                 \/ Backed(record[j])',
           \A p \in confirmed' :
              p \in confirmed \/ record[p[1]].approval # p[2] \/ Consumed(p[2])'
    PROVE  HandOffConsumes'
<1>0. QueueInv /\ DeliveryTypeOK
  BY DEF HandOffInv, SendInv
<1>1. ASSUME NEW j \in Jobs
      PROVE  Backed(record[j])'
  <2>1. ASSUME NEW rec \in Records, Backed(rec), Agrees(rec), record'[j] = rec
        PROVE  Backed(record[j])'
    <3>1. rec.status = "handed_off" =>
            rec.approval \in Requests /\ disk[rec.approval].status \in Granted
      BY <2>1 DEF Agrees, Sendable, Records
    <3>2. rec.status = "handed_off" => Consumed(rec.approval)'
      BY <1>0, <2>1, <3>1, ConsumedStays DEF Backed
    <3> QED
      BY <2>1, <3>2 DEF Backed
  <2> QED
    BY <2>1
<1>2. ASSUME NEW p \in confirmed', record'[p[1]].approval = p[2]
      PROVE  Consumed(p[2])'
  <2>1. p[1] \in Jobs /\ p[2] \in Requests
    BY DEF SendInv, DeliveryTypeOK
  <2>2. CASE p \in confirmed
    <3>1. disk[p[2]].status \in Granted
      BY <1>0, <2>2 DEF HandOffInv, SendInv, DeliveryTypeOK
    <3>2. Consumed(p[2])
      BY <1>2, <2>1, <2>2 DEF HandOffInv, HandOffConsumes, Consumed
    <3> QED
      BY <1>0, <2>1, <3>1, <3>2, ConsumedStays
  <2> QED
    BY <1>2, <2>1, <2>2
<1> QED
  BY <1>1, <1>2 DEF HandOffConsumes, Backed, Consumed

\* A request for a job is new: no receipt names it, and its record claims nothing.
LEMMA RequestClaimsNothing ==
    ASSUME HandOffInv, SendInv', [QueueNext]_queueVars,
           NEW j \in Jobs, NEW r \in Requests, NEW cut \in BOOLEAN,
           RequestApproval(j, r, cut)
    PROVE  HandOffConsumes'
<1>0. QueueInv /\ DeliveryTypeOK
  BY DEF HandOffInv, SendInv
<1>1. disk[r].status = "absent"
  <2>1. RowOf(r)
    BY <1>0 DEF QueueInv
  <2> QED
    BY <2>1 DEF RequestApproval, Propose, RowOf, NoRow
<1>2. /\ record \in [Jobs -> Records] /\ confirmed' = confirmed /\ confirmed \subseteq sent
      /\ sent \subseteq Jobs \X Requests
  BY <1>0 DEF DeliveryTypeOK, Records, RequestApproval
<1>3. PICK rec \in Records : /\ record' = [record EXCEPT ![j] = rec]
                             /\ rec.approval \in {r, record[j].approval}
                             /\ rec.status \in {"awaiting_approval", "prepared"}
  <2>3. Bundled(record[j], "prepared") \in Records
        /\ Bundled(record[j], "prepared").status = "prepared"
        /\ Bundled(record[j], "prepared").approval = record[j].approval
    BY <1>2, RecordsClosed DEF Lifecycle, Bundled, Records
  <2>1. Bundled(record[j], "awaiting_approval") \in Records
        /\ Bundled(record[j], "awaiting_approval").status = "awaiting_approval"
    BY <1>2 DEF Bundled, Records, Lifecycle
  <2>2. /\ [Bundled(record[j], "awaiting_approval") EXCEPT !.approval = r] \in Records
        /\ [Bundled(record[j], "awaiting_approval") EXCEPT !.approval = r].approval = r
        /\ [Bundled(record[j], "awaiting_approval") EXCEPT !.approval = r].status
             = "awaiting_approval"
    BY <2>1 DEF Records
  <2> QED
    BY <2>2, <2>3 DEF RequestApproval
<1>4. ASSUME NEW k \in Jobs
      PROVE  Backed(record[k])'
  <2> SUFFICES ASSUME NEW q, record'[k].status = "handed_off", q = record'[k].approval
               PROVE  Consumed(q)'
    BY DEF Backed
  <2>1. k # j /\ record'[k] = record[k] /\ record[k] \in Records
    BY <1>2, <1>3
  <2>2. q \in Requests /\ disk[q].status \in Granted
    BY <2>1 DEF HandOffInv, RecordFollowsRequest, Sendable, Records
  <2>3. Consumed(q)
    BY <2>1 DEF HandOffInv, HandOffConsumes, Consumed
  <2> QED
    BY <1>0, <2>2, <2>3, ConsumedStays
<1>5. ASSUME NEW p \in confirmed, record'[p[1]].approval = p[2]
      PROVE  Consumed(p[2])'
  <2>1. p[1] \in Jobs /\ p[2] \in Requests /\ disk[p[2]].status \in Granted
    BY <1>2 DEF HandOffInv, SendInv
  <2>2. p[2] # r
    BY <1>1, <2>1 DEF Granted
  <2>3. record[p[1]].approval = p[2]
    BY <1>2, <1>3, <1>5, <2>1, <2>2
  <2>4. Consumed(p[2])
    BY <2>3 DEF HandOffInv, HandOffConsumes, Consumed
  <2> QED
    BY <1>0, <2>1, <2>4, ConsumedStays
<1> QED
  BY <1>2, <1>4, <1>5 DEF HandOffConsumes, Consumed, Backed

\* Every step leaves each claim of a hand-off backed.
LEMMA HandOffsNext ==
    ASSUME HandOffInv, SendInv', [DeliveryNext]_vars
    PROVE  HandOffConsumes'
<1>0. SendInv /\ DeliveryTypeOK /\ QueueInv /\ CopiesAreRows /\ [QueueNext]_queueVars
  BY QueueStep DEF HandOffInv, SendInv
<1>1. \A j \in Jobs : record[j] \in Records /\ Agrees(record[j]) /\ Backed(record[j])
  BY <1>0 DEF HandOffInv, RecordFollowsRequest, Agrees, DeliveryTypeOK, Records,
              HandOffConsumes, Backed, Consumed
<1>2. record \in [Jobs -> Records] /\ confirmed \subseteq sent
  BY <1>0 DEF DeliveryTypeOK, Records
\* A step that gives one record a backed status and confirms nothing unbacked.
<1>3. ASSUME NEW j \in Jobs, NEW rec \in Records, rec.approval = record[j].approval,
             record' = [record EXCEPT ![j] = rec],
             (Backed(rec) /\ Agrees(rec)) \/ Backed(record[j])',
             \A p \in confirmed' :
                p \in confirmed \/ record[p[1]].approval # p[2] \/ Consumed(p[2])'
      PROVE  HandOffConsumes'
  <2>1. ASSUME NEW k \in Jobs
        PROVE  /\ record'[k].approval = record[k].approval
               /\ \/ \E old \in Records : Backed(old) /\ Agrees(old) /\ record'[k] = old
                  \/ Backed(record[k])'
    <3>1. CASE k = j
      BY <1>2, <1>3, <3>1
    <3>2. CASE k # j
      BY <1>1, <1>2, <1>3, <3>2
    <3> QED
      BY <3>1, <3>2
  <2> QED
    BY <1>0, <1>3, <2>1, ClaimsStay
<1>4. ASSUME UNCHANGED <<record, confirmed>>
      PROVE  HandOffConsumes'
  BY <1>0, <1>1, <1>4, ClaimsStay
<1>5. \A j \in Jobs :
        /\ Refreshed(record[j]) \in Records /\ Refreshed(record[j]).approval = record[j].approval
        /\ Agrees(Refreshed(record[j])) /\ Backed(Refreshed(record[j]))
  BY <1>0, <1>1, RecordsClosed, RefreshedAgrees, RefreshBacks
<1>6. ASSUME NEW j \in Jobs
      PROVE  LET new == Bundled(record[j], "prepared")
             IN  new \in Records /\ new.approval = record[j].approval /\ Agrees(new) /\ Backed(new)
  <2> DEFINE new == Bundled(record[j], "prepared")
  <2>1. new \in Records /\ new.approval = record[j].approval
    BY <1>1, RecordsClosed DEF Lifecycle
  <2>2. new.status = "prepared"
    BY <1>1 DEF Bundled, Records
  <2> HIDE DEF new
  <2>3. Agrees(new) /\ Backed(new)
    BY <2>2 DEF Agrees, Sendable, Backed
  <2> QED
    BY <2>1, <2>3 DEF new
<1>7. \A j \in Jobs : /\ Checked(j) \in Records /\ Checked(j).approval = record[j].approval
                      /\ Agrees(Checked(j)) /\ Backed(Checked(j))
  BY <1>0, <1>6, RecordsClosed, RefreshedAgrees, RefreshBacks DEF Checked
<1>8. ASSUME NEW j \in Jobs, GetBundle(j) \/ GetRecord(j) \/ RefuseSend(j)
      PROVE  HandOffConsumes'
  BY <1>3, <1>5, <1>6, <1>7, <1>8 DEF GetBundle, GetRecord, RefuseSend
<1>9. ASSUME NEW j \in Jobs, NEW s \in Senders, StartSend(s, j)
      PROVE  HandOffConsumes'
  BY <1>3, <1>7, <1>9 DEF StartSend
\* Whatever a hand-off does, the record it leaves is backed.
<1>10. ASSUME NEW j \in Jobs, NEW cut \in BOOLEAN, SettleHandOff(j, cut)
       PROVE  \E rec \in Records, r \in Requests :
                 /\ rec.approval = record[j].approval /\ r = record[j].approval
                 /\ record' = [record EXCEPT ![j] = rec]
                 /\ Backed(record[j])' /\ Consumed(r)'
  <2>1. PICK r \in Requests : r = record[j].approval /\ Consumed(r)'
    BY <1>0, <1>10, SettlesConsumed
  <2>2. PICK rec \in Records : rec.approval = record[j].approval
                               /\ record' = [record EXCEPT ![j] = rec]
    BY <1>0, <1>10, HandOffRecord
  <2>3. record'[j].approval = r
    BY <1>2, <2>1, <2>2
  <2>4. Backed(record[j])'
    BY <2>1, <2>3 DEF Backed
  <2> QED
    BY <2>1, <2>2, <2>4
<1>11. ASSUME NEW j \in Jobs, HandOff(j)
       PROVE  HandOffConsumes'
  <2>1. confirmed' = confirmed
    BY <1>11 DEF HandOff
  <2>2. ASSUME NEW cut \in BOOLEAN, SettleHandOff(j, cut) PROVE HandOffConsumes'
    BY <1>3, <1>10, <2>1, <2>2
  <2>3. CASE RefuseHandOff(j)
    BY <1>3, <1>5, <2>1, <2>3 DEF RefuseHandOff, AtHandOff
  <2> QED
    BY <1>11, <2>2, <2>3 DEF HandOff
<1>12. ASSUME NEW s \in Senders, Succeed(s)
       PROVE  HandOffConsumes'
  <2> PICK j : j = sends[s].job
    OBVIOUS
  <2> PICK under : under = sends[s].under
    OBVIOUS
  <2>1. /\ j \in Jobs /\ under \in Requests /\ sends[s] # Idle
        /\ disk[under].status \in Granted
    <3>1. j \in Jobs /\ under \in Requests /\ sends[s] # Idle
      BY <1>0, <1>12, InFlight DEF Succeed
    <3>2. <<j, under>> \in sent
      BY <1>0, <3>1 DEF SendInv
    <3> QED
      BY <1>0, <3>1, <3>2 DEF SendInv
  <2>2. ASSUME NEW cut \in BOOLEAN, SettleHandOff(j, cut),
               confirmed' = confirmed \/ confirmed' = confirmed \cup {<<j, under>>}
        PROVE  HandOffConsumes'
    <3>1. PICK rec \in Records, r \in Requests :
                 /\ rec.approval = record[j].approval /\ r = record[j].approval
                 /\ record' = [record EXCEPT ![j] = rec]
                 /\ Backed(record[j])' /\ Consumed(r)'
      BY <1>10, <2>1, <2>2
    <3>2. \A p \in confirmed' :
             p \in confirmed \/ record[p[1]].approval # p[2] \/ Consumed(p[2])'
      <4>1. record[j].approval # under \/ Consumed(under)'
        BY <3>1
      <4> QED
        BY <2>2, <4>1
    <3> QED
      BY <1>3, <2>1, <3>1, <3>2
  <2>3. ASSUME RefuseHandOff(j), confirmed' = confirmed \cup {<<j, under>>}
        PROVE  HandOffConsumes'
    <3>1. record[j].approval # under
      <4> SUFFICES ASSUME record[j].approval = under PROVE FALSE
        OBVIOUS
      <4>1. Lookup(under) \in Granted
        BY <1>0, <2>1, LookupIsRow
      <4>2. under # None
        BY <2>1, DeliveryAssumption
      <4>3. /\ LifecycleOf["approved"] = "approved" /\ LifecycleOf["executed"] = "handed_off"
            /\ {"approved", "executed"} \subseteq DOMAIN LifecycleOf
        BY DEF LifecycleOf
      <4>4. Refreshed(record[j]).status \in Sendable
        <5>1. CASE record[j].status = "handed_off"
          BY <5>1 DEF Refreshed, Sendable
        <5>2. CASE record[j].status # "handed_off"
          <6>1. Refreshed(record[j]) = [record[j] EXCEPT !.status = LifecycleOf[Lookup(under)]]
            BY <4>1, <4>2, <4>3, <5>2 DEF Refreshed, Granted
          <6>2. Refreshed(record[j]).status = LifecycleOf[Lookup(under)]
            BY <1>1, <2>1, <6>1 DEF Records
          <6> QED
            BY <4>1, <4>3, <6>2 DEF Granted, Sendable
        <5> QED
          BY <5>1, <5>2
      <4> QED
        BY <2>3, <4>4 DEF RefuseHandOff, AtHandOff
    <3>2. \A p \in confirmed' :
             p \in confirmed \/ record[p[1]].approval # p[2] \/ Consumed(p[2])'
      BY <2>3, <3>1
    <3> QED
      BY <1>3, <1>5, <2>1, <2>3, <3>2 DEF RefuseHandOff, AtHandOff
  <2> QED
    BY <1>12, <2>2, <2>3 DEF Succeed
<1>13. ASSUME NEW s \in Senders, Progress(s)
       PROVE  HandOffConsumes'
  BY <1>4, <1>12, <1>13 DEF Progress, BackOff, Retry, NextRoute, Fail
<1>14. ASSUME NEW j \in Jobs, NEW r \in Requests, NEW cut \in BOOLEAN,
              RequestApproval(j, r, cut)
       PROVE  HandOffConsumes'
  BY <1>0, <1>14, RequestClaimsNothing
<1> QED
  BY <1>4, <1>8, <1>9, <1>11, <1>13, <1>14
     DEF DeliveryNext, Elsewhere, Reboot, deliveryVars, vars

(* A hand-off consumes its approval, unless a full bound of the queue put the request      *)
(* out of mark_executed's reach or the job was given another request meanwhile: whatever   *)
(* deaths, retries, previews and second requests came between the approval, the POST and   *)
(* the two commits that record it.                                                         *)
THEOREM HandOffsConsume == DeliverySpec => []HandOffConsumes
<1>1. DeliveryInit => RecordFollowsRequest /\ CopiesAreRows /\ ApprovalReachable /\ HandOffConsumes
  BY DEF DeliveryInit, QueueInit, RecordFollowsRequest, Sendable, CopiesAreRows, InHistory,
         ApprovalReachable, NoRow, HandOffConsumes
<1>2. SendInv /\ SendInv' /\ RecordFollowsRequest /\ CopiesAreRows /\ ApprovalReachable
        /\ HandOffConsumes /\ [DeliveryNext]_vars
        => (RecordFollowsRequest /\ CopiesAreRows /\ ApprovalReachable /\ HandOffConsumes)'
  <2> SUFFICES ASSUME SendInv, SendInv', RecordFollowsRequest, CopiesAreRows,
                      ApprovalReachable, HandOffConsumes, [DeliveryNext]_vars
               PROVE  /\ RecordFollowsRequest' /\ CopiesAreRows' /\ ApprovalReachable'
                      /\ HandOffConsumes'
    OBVIOUS
  <2>1. QueueInv /\ QueueInv' /\ [QueueNext]_queueVars
    BY QueueStep DEF SendInv
  <2>2. RecordFollowsRequest'
    BY FollowsNext
  <2>3. CopiesAreRows' /\ ApprovalReachable'
    BY <2>1, CopiesStay, ReachNext
  <2>4. HandOffConsumes'
    BY HandOffsNext DEF HandOffInv
  <2> QED
    BY <2>2, <2>3, <2>4
<1> QED
  BY <1>1, <1>2, DeliveryInvariant, PTL DEF DeliverySpec
===============================================================================
