--------------------------- MODULE AssistantProofs ---------------------------
(***************************************************************************)
(* Theorems about the parts of the agent that listen, answer and remember:  *)
(* Telegram updates, conversations, tool use, the memory store, what is     *)
(* learnt from failures, and bids; for any chats, calls, memories, errors   *)
(* and projects.                                                            *)
(***************************************************************************)
EXTENDS TelegramUpdates, Conversation, ToolUse, MemoryStore, Learning, Bids, NumberLemmas,
        SequenceTheorems, FiniteSetTheorems, TLAPS

(***************************************************************************)
(* Telegram updates: replies come in the order of what they answer          *)
(***************************************************************************)

\* What InChat goes through: the updates of chat c up to each
IsChatOf(g, from, to, c) ==
    g = [u \in from..to |-> IF u = from THEN <<>>
                            ELSE IF UpdateChats[u] = c THEN Append(g[u - 1], u)
                            ELSE g[u - 1]]

\* It exists, however long the batch: otherwise there were a first update without it.
LEMMA ChatOfExists ==
    ASSUME NEW c, NEW from \in Nat, NEW to \in Nat, from <= to
    PROVE  \E g : IsChatOf(g, from, to, c)
<1> DEFINE Body(g, u) == IF u = from THEN <<>>
                         ELSE IF UpdateChats[u] = c THEN Append(g[u - 1], u)
                         ELSE g[u - 1]
           Reaches(k) == \E g : g = [u \in from..k |-> Body(g, u)]
           Bad == {k \in from..to : ~Reaches(k)}
<1>0. \A g, k : IsChatOf(g, from, k, c) <=> g = [u \in from..k |-> Body(g, u)]
  BY DEF IsChatOf
<1>1. SUFFICES ASSUME Bad # {} PROVE FALSE
  <2>1. Reaches(to) => \E g : IsChatOf(g, from, to, c)
    <3> HIDE DEF Body
    <3> QED
      BY <1>0
  <2>2. Bad = {} => Reaches(to)
    <3> HIDE DEF Reaches
    <3> QED
      OBVIOUS
  <2> QED
    BY <2>1, <2>2
<1>2. PICK k \in Bad : \A j \in Bad : k <= j
  <2>1. Bad \subseteq Nat
    OBVIOUS
  <2> HIDE DEF Bad
  <2> QED
    BY <1>1, <2>1, LeastNumber
<1>3. Reaches(from)
  <2> DEFINE g == [u \in from..from |-> <<>>]
  <2>1. g = [u \in from..from |-> Body(g, u)]
    <3>1. \A u \in from..from : Body(g, u) = <<>>
      OBVIOUS
    <3> HIDE DEF Body
    <3> QED
      BY <3>1
  <2> QED
    BY <2>1
<1>4. k \in from + 1..to /\ k - 1 \in from..to /\ k - 1 \in Nat /\ k \in Nat
  <2>1. k \in from..to /\ ~Reaches(k)
    BY <1>2
  <2> HIDE DEF Reaches
  <2>2. k # from
    BY <1>3, <2>1
  <2> QED
    BY <2>1, <2>2
<1>5. Reaches(k - 1)
  <2>1. k - 1 \notin Bad
    <3>1. \A j \in Bad : k <= j
      BY <1>2
    <3> HIDE DEF Bad
    <3> QED
      BY <1>4, <3>1
  <2> HIDE DEF Reaches
  <2> QED
    BY <1>4, <2>1
<1>6. PICK g : g = [u \in from..k - 1 |-> Body(g, u)]
  BY <1>5
<1> DEFINE h == [u \in from..k |-> IF u < k THEN g[u]
                                  ELSE IF UpdateChats[k] = c THEN Append(g[k - 1], k)
                                  ELSE g[k - 1]]
<1>7. ASSUME NEW u \in from..k PROVE h[u] = Body(h, u)
  <2>1. CASE u = from
    BY <1>4, <1>6, <2>1
  <2>2. CASE u # from /\ u < k
    <3>1. u \in from..k - 1 /\ u - 1 \in from..k - 1 /\ u - 1 < k /\ u - 1 \in from..k
      BY <1>4, <2>2
    <3>2. h[u] = g[u] /\ h[u - 1] = g[u - 1]
      BY <2>2, <3>1
    <3>3. g[u] = Body(g, u)
      BY <1>6, <3>1
    <3> QED
      BY <2>2, <3>2, <3>3
  <2>3. CASE u = k
    <3>1. k # from /\ k - 1 \in from..k /\ k - 1 < k /\ ~(k < k)
      BY <1>4
    <3>2. /\ h[k] = IF UpdateChats[k] = c THEN Append(g[k - 1], k) ELSE g[k - 1]
          /\ h[k - 1] = g[k - 1]
      BY <3>1
    <3> QED
      BY <2>3, <3>1, <3>2
  <2> QED
    BY <1>4, <2>1, <2>2, <2>3
<1>8. h = [u \in from..k |-> Body(h, u)]
  <2>1. DOMAIN h = from..k /\ h = [u \in from..k |-> h[u]]
    OBVIOUS
  <2> HIDE DEF h, Body
  <2> QED
    BY <1>7, <2>1
<1>9. Reaches(k)
  <2> HIDE DEF h
  <2> QED
    BY <1>8
<1> QED
  BY <1>2, <1>9

Ascending(s) == \A i, j \in DOMAIN s : i < j => s[i] < s[j]
AllIn(s, from, to) == \A i \in DOMAIN s : s[i] \in from..to

\* The updates of a chat in a batch are in order, and of the batch.
LEMMA InChatAscends ==
    ASSUME NEW c, NEW from \in Nat, NEW to \in Nat, from <= to
    PROVE  /\ InChat(from, to, c) \in Seq(Nat)
           /\ Ascending(InChat(from, to, c)) /\ AllIn(InChat(from, to, c), from + 1, to)
<1> DEFINE Good(s, u) == s \in Seq(Nat) /\ Ascending(s) /\ AllIn(s, from + 1, u)
<1>1. PICK g : IsChatOf(g, from, to, c) /\ InChat(from, to, c) = g[to]
  <2>1. \E g : IsChatOf(g, from, to, c)
    BY ChatOfExists
  <2>2. InChat(from, to, c) = (CHOOSE g : IsChatOf(g, from, to, c))[to]
    BY DEF InChat, IsChatOf
  <2> QED
    BY <2>1, <2>2
<1>2. \A u \in from..to : g[u] = IF u = from THEN <<>>
                                 ELSE IF UpdateChats[u] = c THEN Append(g[u - 1], u)
                                 ELSE g[u - 1]
  BY <1>1, Zenon DEF IsChatOf
<1>3. ASSUME NEW u \in from..to PROVE Good(g[u], u)
  <2> DEFINE Bad == {v \in from..to : ~Good(g[v], v)}
  <2>1. SUFFICES ASSUME Bad # {} PROVE FALSE
    OBVIOUS
  <2>2. PICK v \in Bad : \A w \in Bad : v <= w
    <3>1. Bad \subseteq Nat
      OBVIOUS
    <3> HIDE DEF Bad
    <3> QED
      BY <2>1, <3>1, LeastNumber
  <2>3. v # from
    <3>1. from \in from..to /\ g[from] = <<>>
      BY <1>2
    <3>2. Good(<<>>, from)
      BY DEF Ascending, AllIn
    <3> QED
      BY <2>2, <3>1, <3>2
  <2>4. v \in from + 1..to /\ v - 1 \in from..to /\ v \in Nat
    BY <2>2, <2>3
  <2>5. Good(g[v - 1], v - 1)
    <3> HIDE DEF Good
    <3> QED
      BY <2>2, <2>4
  <2>6. g[v] = IF UpdateChats[v] = c THEN Append(g[v - 1], v) ELSE g[v - 1]
    BY <1>2, <2>3, <2>4
  <2>7. Good(g[v - 1], v)
    BY <2>4, <2>5 DEF AllIn
  <2>8. Good(Append(g[v - 1], v), v)
    <3> DEFINE s == g[v - 1]
               t == Append(s, v)
    <3>1. s \in Seq(Nat) /\ Ascending(s) /\ AllIn(s, from + 1, v - 1)
      BY <2>5
    <3> HIDE DEF s
    <3>2. /\ t \in Seq(Nat) /\ Len(t) = Len(s) + 1 /\ DOMAIN t = 1..Len(s) + 1
          /\ DOMAIN s = 1..Len(s) /\ Len(s) \in Nat
          /\ \A i \in 1..Len(s) : t[i] = s[i]
          /\ t[Len(s) + 1] = v
      BY <2>4, <3>1
    <3> HIDE DEF t
    <3>3. /\ \A i \in 1..Len(s) : t[i] \in from + 1..v /\ t[i] < v
          /\ \A i, j \in 1..Len(s) : i < j => t[i] < t[j]
          /\ t[Len(s) + 1] \in from + 1..v
      <4>1. \A i \in 1..Len(s) : s[i] \in from + 1..v - 1
        BY <3>1, <3>2 DEF AllIn
      <4>2. \A i, j \in 1..Len(s) : i < j => s[i] < s[j]
        BY <3>1, <3>2 DEF Ascending
      <4>3. \A i \in 1..Len(s) : t[i] \in from + 1..v /\ t[i] < v
        BY <2>4, <3>2, <4>1
      <4> QED
        BY <2>4, <3>2, <4>2, <4>3
    <3>4. AllIn(t, from + 1, v)
      BY <3>2, <3>3 DEF AllIn
    <3>5. Ascending(t)
      <4> SUFFICES ASSUME NEW i \in 1..Len(s) + 1, NEW j \in 1..Len(s) + 1, i < j
                   PROVE  t[i] < t[j]
        BY <3>2 DEF Ascending
      <4>1. i \in 1..Len(s) /\ (j \in 1..Len(s) \/ j = Len(s) + 1)
        BY <3>2
      <4>2. CASE j \in 1..Len(s)
        BY <3>3, <4>1, <4>2
      <4>3. CASE j = Len(s) + 1
        <5>1. t[i] < v
          BY <3>3, <4>1
        <5>2. t[j] = v
          BY <3>2, <4>3
        <5> QED
          BY <5>1, <5>2
      <4> QED
        BY <4>1, <4>2, <4>3
    <3> QED
      BY <3>2, <3>4, <3>5 DEF s, t
  <2>9. Good(g[v], v)
    <3> HIDE DEF Good
    <3> QED
      BY <2>6, <2>7, <2>8
  <2> QED
    BY <2>2, <2>9
<1> QED
  <2>1. to \in from..to
    OBVIOUS
  <2> QED
    BY <1>1, <1>3, <2>1

\* One chat: what was sent comes before what is answered or on its way, that before what
\* waits, each in order, and nothing is beyond the offset.  There is one reply on its way
\* at most, and none while the callback runs.
ChatInOrder(sent, now, line, flying, last) ==
    /\ Ascending(sent) /\ Ascending(line)
    /\ \A i \in DOMAIN sent : sent[i] <= last /\ (now # 0 => sent[i] < now)
    /\ \A i \in DOMAIN sent, j \in DOMAIN line : sent[i] < line[j]
    /\ \A j \in DOMAIN line : line[j] <= last /\ (now # 0 => now < line[j])
    /\ now <= last /\ (now # 0 => flying = {})
    /\ \A u \in flying : u <= last /\ flying = {u}
    /\ \A u \in flying, i \in DOMAIN sent : sent[i] < u
    /\ \A u \in flying, j \in DOMAIN line : u < line[j]

TelegramInv ==
    /\ TelegramTypeOK
    /\ saved <= offset /\ offset <= arrived /\ confirmed <= arrived
    /\ ReadAgain \subseteq unsaved
    /\ \A c \in TgChats :
          ChatInOrder(delivered[c], answering[c], waiting[c], sending[c], offset)

\* A batch that comes after everything lines up behind it.
LEMMA BatchLinesUp ==
    ASSUME NEW sent \in Seq(Nat), NEW now \in Nat, NEW line \in Seq(Nat),
           NEW flying \in SUBSET Nat, NEW last \in Nat, NEW later \in Nat, last < later,
           ChatInOrder(sent, now, line, flying, last),
           NEW batch \in Seq(Nat), Ascending(batch), AllIn(batch, last + 1, later)
    PROVE  ChatInOrder(sent, now, line \o batch, flying, later)
<1> DEFINE all == line \o batch
<1>1. /\ all \in Seq(Nat) /\ Len(line) \in Nat /\ Len(batch) \in Nat
      /\ DOMAIN all = 1..Len(line) + Len(batch)
      /\ DOMAIN line = 1..Len(line) /\ DOMAIN batch = 1..Len(batch)
      /\ \A i \in 1..Len(line) : all[i] = line[i]
      /\ \A i \in Len(line) + 1..Len(line) + Len(batch) : all[i] = batch[i - Len(line)]
  OBVIOUS
<1> HIDE DEF all
<1>2. \A i \in DOMAIN all : \/ i \in DOMAIN line /\ all[i] = line[i]
                            \/ /\ i - Len(line) \in DOMAIN batch
                               /\ all[i] = batch[i - Len(line)] /\ i > Len(line)
                               /\ all[i] \in last + 1..later
  <2> SUFFICES ASSUME NEW i \in DOMAIN all
               PROVE  \/ i \in DOMAIN line /\ all[i] = line[i]
                      \/ /\ i - Len(line) \in DOMAIN batch
                         /\ all[i] = batch[i - Len(line)] /\ i > Len(line)
                         /\ all[i] \in last + 1..later
    OBVIOUS
  <2>1. CASE i \in 1..Len(line)
    BY <1>1, <2>1
  <2>2. CASE i \in Len(line) + 1..Len(line) + Len(batch)
    <3>1. i - Len(line) \in DOMAIN batch /\ all[i] = batch[i - Len(line)] /\ i > Len(line)
      BY <1>1, <2>2
    <3> QED
      BY <3>1 DEF AllIn
  <2> QED
    BY <1>1, <2>1, <2>2
<1>3. Ascending(all)
  <2> SUFFICES ASSUME NEW i \in DOMAIN all, NEW j \in DOMAIN all, i < j PROVE all[i] < all[j]
    BY DEF Ascending
  <2>1. CASE j \in DOMAIN line /\ all[j] = line[j]
    <3>1. i \in DOMAIN line /\ all[i] = line[i]
      <4>1. i \in 1..Len(line) + Len(batch) /\ j \in 1..Len(line)
        BY <1>1, <2>1
      <4>2. i \in 1..Len(line)
        BY <1>1, <4>1
      <4> QED
        BY <1>1, <4>2
    <3>2. line[i] < line[j]
      BY <2>1, <3>1 DEF ChatInOrder, Ascending
    <3> QED
      BY <2>1, <3>1, <3>2
  <2>2. CASE /\ j - Len(line) \in DOMAIN batch
             /\ all[j] = batch[j - Len(line)] /\ j > Len(line) /\ all[j] \in last + 1..later
    <3>1. CASE i \in DOMAIN line /\ all[i] = line[i]
      <4>1. line[i] <= last /\ line[i] \in Nat
        BY <1>1, <3>1 DEF ChatInOrder
      <4> QED
        BY <2>2, <3>1, <4>1
    <3>2. CASE /\ i - Len(line) \in DOMAIN batch /\ all[i] = batch[i - Len(line)]
      <4>1. i - Len(line) < j - Len(line)
        BY <1>1
      <4> QED
        BY <2>2, <3>2, <4>1 DEF Ascending
    <3> QED
      BY <1>2, <3>1, <3>2
  <2> QED
    BY <1>2, <2>1, <2>2
<1>4. \A j \in DOMAIN all : all[j] <= later /\ (now # 0 => now < all[j])
  <2> SUFFICES ASSUME NEW j \in DOMAIN all PROVE all[j] <= later /\ (now # 0 => now < all[j])
    OBVIOUS
  <2>1. CASE j \in DOMAIN line /\ all[j] = line[j]
    <3>1. line[j] \in Nat /\ line[j] <= last /\ (now # 0 => now < line[j])
      BY <1>1, <2>1 DEF ChatInOrder
    <3> QED
      BY <2>1, <3>1
  <2>2. CASE all[j] \in last + 1..later
    <3>1. now <= last
      BY DEF ChatInOrder
    <3> QED
      BY <2>2, <3>1
  <2> QED
    BY <1>2, <2>1, <2>2
<1>5. ASSUME NEW n \in Nat, n <= last, \A j \in DOMAIN line : n < line[j]
      PROVE  \A j \in DOMAIN all : n < all[j]
  <2> SUFFICES ASSUME NEW j \in DOMAIN all PROVE n < all[j]
    OBVIOUS
  <2>1. CASE j \in DOMAIN line /\ all[j] = line[j]
    BY <1>5, <2>1
  <2>2. CASE all[j] \in last + 1..later
    BY <1>5, <2>2
  <2> QED
    BY <1>2, <2>1, <2>2
<1>6. \A i \in DOMAIN sent : sent[i] \in Nat /\ sent[i] <= last /\ sent[i] <= later
  BY DEF ChatInOrder
<1>7. \A i \in DOMAIN sent, j \in DOMAIN all : sent[i] < all[j]
  BY <1>5, <1>6 DEF ChatInOrder
<1>8. \A u \in flying : u \in Nat /\ u <= last /\ u <= later
  BY DEF ChatInOrder
<1>9. \A u \in flying, j \in DOMAIN all : u < all[j]
  BY <1>5, <1>8 DEF ChatInOrder
<1>10. now <= later
  BY DEF ChatInOrder
<1>11. ChatInOrder(sent, now, all, flying, later)
  BY <1>3, <1>4, <1>6, <1>7, <1>8, <1>9, <1>10 DEF ChatInOrder
<1> QED
  BY <1>11 DEF all

\* The first in line is answered when nothing is.
LEMMA FirstIsTaken ==
    ASSUME NEW sent \in Seq(Nat), NEW line \in Seq(Nat \ {0}), line # <<>>, NEW last \in Nat,
           ChatInOrder(sent, 0, line, {}, last)
    PROVE  ChatInOrder(sent, Head(line), Tail(line), {}, last)
<1> DEFINE rest == Tail(line)
<1>1. /\ Head(line) = line[1] /\ 1 \in DOMAIN line /\ line[1] \in Nat /\ Len(line) \in Nat \ {0}
      /\ DOMAIN line = 1..Len(line) /\ DOMAIN rest = 1..Len(line) - 1
      /\ \A i \in DOMAIN rest : rest[i] = line[i + 1] /\ i + 1 \in DOMAIN line /\ 1 < i + 1
  <2>1. Len(line) \in Nat \ {0} /\ DOMAIN line = 1..Len(line)
    BY EmptySeq, LenProperties
  <2>2. /\ rest \in Seq(Nat \ {0}) /\ Len(rest) = Len(line) - 1
        /\ \A i \in 1..Len(rest) : rest[i] = line[i + 1]
    BY HeadTailProperties
  <2>3. DOMAIN rest = 1..Len(line) - 1
    BY <2>2, LenProperties
  <2>4. Head(line) = line[1] /\ 1 \in DOMAIN line /\ line[1] \in Nat
    BY <2>1
  <2> HIDE DEF rest
  <2>5. \A i \in DOMAIN rest : rest[i] = line[i + 1]
    BY <2>2, <2>3
  <2>6. \A i \in DOMAIN rest : i + 1 \in DOMAIN line /\ 1 < i + 1
    BY <2>1, <2>3
  <2> QED
    BY <2>1, <2>3, <2>4, <2>5, <2>6
<1> HIDE DEF rest
<1>2. Ascending(rest) /\ \A i \in DOMAIN rest : Head(line) < rest[i]
  <2>1. \A i, j \in DOMAIN line : i < j => line[i] < line[j]
    BY DEF ChatInOrder, Ascending
  <2>2. ASSUME NEW i \in DOMAIN rest, NEW j \in DOMAIN rest, i < j PROVE rest[i] < rest[j]
    <3>1. i + 1 < j + 1
      BY <1>1, <2>2
    <3> QED
      BY <1>1, <2>1, <3>1
  <2>3. ASSUME NEW i \in DOMAIN rest PROVE Head(line) < rest[i]
    BY <1>1, <2>1
  <2> QED
    BY <2>2, <2>3 DEF Ascending
<1>3. ChatInOrder(sent, Head(line), rest, {}, last)
  BY <1>1, <1>2 DEF ChatInOrder
<1> QED
  BY <1>3 DEF rest

\* A reply on its way arrives after everything the chat was sent, or is dropped.
LEMMA ReplyArrives ==
    ASSUME NEW sent \in Seq(Nat), NEW line \in Seq(Nat), NEW last \in Nat,
           NEW flying \in SUBSET (Nat \ {0}), NEW u \in flying, NEW now \in Nat,
           ChatInOrder(sent, now, line, flying, last)
    PROVE  /\ ChatInOrder(Append(sent, u), now, line, flying \ {u}, last)
           /\ ChatInOrder(sent, now, line, flying \ {u}, last)
<1> DEFINE all == Append(sent, u)
<1>1. /\ now = 0 /\ flying \ {u} = {} /\ u \in Nat /\ u <= last
      /\ \A i \in DOMAIN sent : sent[i] < u
      /\ \A j \in DOMAIN line : u < line[j]
  BY DEF ChatInOrder
<1>2. /\ Len(sent) \in Nat /\ DOMAIN sent = 1..Len(sent) /\ DOMAIN all = 1..Len(sent) + 1
      /\ \A i \in 1..Len(sent) : all[i] = sent[i]
      /\ all[Len(sent) + 1] = u
  BY <1>1
<1> HIDE DEF all
<1>3. \A i \in DOMAIN all : \/ i \in DOMAIN sent /\ all[i] = sent[i]
                            \/ i = Len(sent) + 1 /\ all[i] = u
  BY <1>2
<1>4. Ascending(all)
  <2> SUFFICES ASSUME NEW i \in DOMAIN all, NEW j \in DOMAIN all, i < j PROVE all[i] < all[j]
    BY DEF Ascending
  <2>1. i \in DOMAIN sent /\ all[i] = sent[i]
    BY <1>2
  <2>2. CASE j \in DOMAIN sent /\ all[j] = sent[j]
    BY <2>1, <2>2 DEF ChatInOrder, Ascending
  <2>3. CASE all[j] = u
    BY <1>1, <2>1, <2>3
  <2> QED
    BY <1>3, <2>2, <2>3
<1>5. \A i \in DOMAIN all : all[i] <= last /\ \A j \in DOMAIN line : all[i] < line[j]
  BY <1>1, <1>3 DEF ChatInOrder
<1>6. ChatInOrder(all, now, line, flying \ {u}, last)
  BY <1>1, <1>4, <1>5 DEF ChatInOrder
<1>7. ChatInOrder(sent, now, line, flying \ {u}, last)
  BY <1>1 DEF ChatInOrder
<1> QED
  BY <1>6, <1>7 DEF all

Joined(s, t, all) ==
    /\ all \in Seq(Nat) /\ Ascending(all) /\ Len(all) = Len(s) + Len(t)
    /\ \A i \in DOMAIN all :
          \/ i \in DOMAIN s /\ i <= Len(s) /\ all[i] = s[i]
          \/ i > Len(s) /\ i - Len(s) \in DOMAIN t /\ all[i] = t[i - Len(s)]

\* Two lines, every number of the first before every number of the second, are one.
LEMMA LinesJoin ==
    ASSUME NEW s \in Seq(Nat), NEW t \in Seq(Nat), Ascending(s), Ascending(t),
           \A i \in DOMAIN s, j \in DOMAIN t : s[i] < t[j]
    PROVE  Joined(s, t, s \o t)
<1> DEFINE all == s \o t
<1>1. /\ all \in Seq(Nat) /\ Len(s) \in Nat /\ Len(t) \in Nat /\ Len(all) = Len(s) + Len(t)
      /\ DOMAIN all = 1..Len(s) + Len(t) /\ DOMAIN s = 1..Len(s) /\ DOMAIN t = 1..Len(t)
      /\ \A i \in 1..Len(s) : all[i] = s[i]
      /\ \A i \in Len(s) + 1..Len(s) + Len(t) : all[i] = t[i - Len(s)]
  OBVIOUS
<1> HIDE DEF all
<1>2. ASSUME NEW i \in DOMAIN all
      PROVE  \/ i \in DOMAIN s /\ i <= Len(s) /\ all[i] = s[i]
             \/ i > Len(s) /\ i - Len(s) \in DOMAIN t /\ all[i] = t[i - Len(s)]
  <2>1. CASE i \in 1..Len(s)
    BY <1>1, <2>1
  <2>2. CASE i \in Len(s) + 1..Len(s) + Len(t)
    BY <1>1, <2>2
  <2> QED
    BY <1>1, <2>1, <2>2
<1>3. Ascending(all)
  <2> SUFFICES ASSUME NEW i \in DOMAIN all, NEW j \in DOMAIN all, i < j PROVE all[i] < all[j]
    BY DEF Ascending
  <2>0. i \in Nat /\ j \in Nat
    BY <1>1
  <2>1. CASE i \in DOMAIN s /\ all[i] = s[i]
    <3>1. CASE j \in DOMAIN s /\ all[j] = s[j]
      BY <2>1, <3>1 DEF Ascending
    <3>2. CASE j - Len(s) \in DOMAIN t /\ all[j] = t[j - Len(s)]
      BY <2>1, <3>2
    <3> QED
      BY <1>2, <3>1, <3>2
  <2>2. CASE i > Len(s) /\ i - Len(s) \in DOMAIN t /\ all[i] = t[i - Len(s)]
    <3>1. ~(j <= Len(s))
      BY <1>1, <2>0, <2>2
    <3>2. j - Len(s) \in DOMAIN t /\ all[j] = t[j - Len(s)]
      BY <1>2, <3>1
    <3>3. i - Len(s) < j - Len(s)
      BY <1>1, <2>0
    <3> QED
      BY <2>2, <3>2, <3>3 DEF Ascending
  <2> QED
    BY <1>2, <2>1, <2>2
<1> QED
  BY <1>1, <1>2, <1>3 DEF all, Joined

\* Replies reach a chat in the order of its messages, each once (telegram_bot.py,
\* _get_chat_lock and _poll_updates): whatever the batches, the callbacks that give no reply,
\* the messages Telegram refuses, the restarts and the writes of the offset that fail.
THEOREM RepliesComeInOrder == TelegramSpec => [](TelegramTypeOK /\ RepliesInOrder)
<1> DEFINE N == Len(UpdateChats)
<1>0. N \in Nat /\ Updates = 1..N
  BY TelegramAssumption DEF Updates
<1> HIDE DEF N
<1>01. \A s \in Seq(Updates) : s \in Seq(Nat) /\ s \in Seq(Nat \ {0})
  BY <1>0
<1>1. TelegramInit => TelegramInv
  <2> SUFFICES ASSUME TelegramInit PROVE TelegramInv
    OBVIOUS
  <2>1. TelegramTypeOK
    BY DEF TelegramInit, TelegramTypeOK
  <2>2. ChatInOrder(<<>>, 0, <<>>, {}, 0)
    BY DEF ChatInOrder, Ascending
  <2> QED
    BY <2>1, <2>2 DEF TelegramInit, TelegramInv, ReadAgain, Updates
<1>2. TelegramInv /\ [TelegramNext]_telegramVars => TelegramInv'
  <2> SUFFICES ASSUME TelegramInv, [TelegramNext]_telegramVars PROVE TelegramInv'
    OBVIOUS
  <2>0. /\ arrived \in 0..N /\ offset \in 0..N /\ saved \in 0..N /\ confirmed \in 0..N
        /\ waiting \in [TgChats -> Seq(Updates)] /\ delivered \in [TgChats -> Seq(Updates)]
        /\ answering \in [TgChats -> Updates \cup {0}]
        /\ sending \in [TgChats -> SUBSET Updates]
        /\ unsaved \subseteq Updates
        /\ saved <= offset /\ offset <= arrived /\ confirmed <= arrived
        /\ ReadAgain \subseteq unsaved
        /\ \A c \in TgChats :
              ChatInOrder(delivered[c], answering[c], waiting[c], sending[c], offset)
    BY <1>0 DEF TelegramInv, TelegramTypeOK
  <2>01. /\ arrived \in Nat /\ offset \in Nat /\ saved \in Nat /\ confirmed \in Nat /\ N \in Nat
         /\ saved <= offset /\ offset <= arrived /\ arrived <= N /\ confirmed <= arrived
    BY <1>0, <2>0
  <2>1. ASSUME /\ arrived' \in 0..N /\ offset' \in 0..N /\ saved' \in 0..N /\ confirmed' \in 0..N
               /\ waiting' \in [TgChats -> Seq(Updates)] /\ delivered' \in [TgChats -> Seq(Updates)]
               /\ answering' \in [TgChats -> Updates \cup {0}]
               /\ sending' \in [TgChats -> SUBSET Updates]
               /\ unsaved' \subseteq Updates
               /\ saved' <= offset' /\ offset' <= arrived' /\ confirmed' <= arrived'
               /\ ReadAgain' \subseteq unsaved'
               /\ \A c \in TgChats : ChatInOrder(delivered'[c], answering'[c], waiting'[c],
                                               sending'[c], offset')
        PROVE  TelegramInv'
    <3>1. {arrived', offset', saved', confirmed'} \subseteq Updates \cup {0}
      BY <1>0, <2>1
    <3>2. TelegramTypeOK'
      BY <2>1, <3>1 DEF TelegramTypeOK
    <3> QED
      BY <2>1, <3>2 DEF TelegramInv
  <2>2. CASE Arrive
    <3>1. /\ arrived' = arrived + 1 /\ arrived < N
          /\ UNCHANGED <<offset, saved, waiting, answering, sending, delivered, confirmed, unsaved>>
      BY <2>2 DEF Arrive, N
    <3>2. arrived' \in 0..N /\ offset <= arrived' /\ confirmed <= arrived'
      BY <2>01, <3>1
    <3>3. ReadAgain' = ReadAgain
      BY <3>1 DEF ReadAgain
    <3> QED
      BY <2>0, <2>1, <3>1, <3>2, <3>3
  <2>02. CASE AskServer
    <3>1. /\ confirmed' = offset
          /\ UNCHANGED <<arrived, offset, saved, waiting, answering, sending, delivered, unsaved>>
      BY <2>02 DEF AskServer
    <3>2. ReadAgain' = {}
      BY <1>0, <2>01, <3>1 DEF ReadAgain
    <3> QED
      BY <2>0, <2>1, <3>1, <3>2
  <2>3. CASE Poll
    <3>0. /\ offset <= confirmed /\ confirmed < arrived /\ offset' = arrived
          /\ UNCHANGED <<arrived, answering, sending, delivered, confirmed>>
          /\ waiting' = [c \in TgChats |-> waiting[c] \o InChat(confirmed, arrived, c)]
      BY <2>3 DEF Poll
    <3>1. /\ saved' \in {saved, 0} \cup (confirmed + 1 .. arrived)
          /\ unsaved' = IF saved' = arrived THEN unsaved
                        ELSE unsaved \cup (confirmed + 1 .. arrived)
      BY <2>3 DEF Poll, FileHolds
    <3>2. saved' \in 0..N /\ saved' <= arrived
      BY <2>01, <3>0, <3>1
    <3>8. ReadAgain' \subseteq unsaved'
      <4> SUFFICES ASSUME NEW u \in Updates, saved' < u, confirmed < u, u <= arrived
                   PROVE  u \in unsaved'
        BY <3>0 DEF ReadAgain, Updates
      <4>1. saved' # arrived /\ u \in confirmed + 1 .. arrived
        BY <1>0, <2>01, <3>2
      <4> QED
        BY <3>1, <4>1
    <3>3. unsaved' \subseteq Updates
      BY <1>0, <2>0, <3>1
    <3>4. ASSUME NEW c \in TgChats
          PROVE  /\ waiting'[c] \in Seq(Updates)
                 /\ ChatInOrder(delivered'[c], answering'[c], waiting'[c], sending'[c], offset')
      <4> DEFINE batch == InChat(confirmed, arrived, c)
      <4>1. batch \in Seq(Nat) /\ Ascending(batch) /\ AllIn(batch, confirmed + 1, arrived)
        BY <2>0, <3>0, InChatAscends
      <4>6. AllIn(batch, offset + 1, arrived) /\ offset < arrived
        BY <2>01, <3>0, <4>1 DEF AllIn
      <4>2. batch \in Seq(Updates)
        <5>1. \A i \in 1..Len(batch) : batch[i] \in Updates
          BY <1>0, <2>0, <4>1 DEF AllIn
        <5> HIDE DEF batch
        <5> QED
          BY <4>1, <5>1
      <4>3. waiting'[c] = waiting[c] \o batch
        BY <3>0
      <4> HIDE DEF batch
      <4>4. /\ delivered[c] \in Seq(Nat) /\ waiting[c] \in Seq(Nat) /\ answering[c] \in Nat
            /\ sending[c] \in SUBSET Nat /\ waiting[c] \in Seq(Updates)
        BY <1>0, <1>01, <2>0
      <4>5. ChatInOrder(delivered[c], answering[c], waiting[c] \o batch, sending[c], arrived)
        BY <2>0, <3>0, <4>1, <4>4, <4>6, BatchLinesUp
      <4> QED
        <5>1. waiting[c] \o batch \in Seq(Updates)
          BY <4>2, <4>4
        <5> QED
          BY <3>0, <4>3, <4>5, <5>1
    <3>5. waiting' \in [TgChats -> Seq(Updates)]
      BY <3>0, <3>4
    <3>6. /\ arrived' \in 0..N /\ offset' \in 0..N /\ saved' \in 0..N /\ confirmed' \in 0..N
          /\ delivered' \in [TgChats -> Seq(Updates)] /\ answering' \in [TgChats -> Updates \cup {0}]
          /\ sending' \in [TgChats -> SUBSET Updates]
          /\ saved' <= offset' /\ offset' <= arrived' /\ confirmed' <= arrived'
      <4>1. /\ delivered' \in [TgChats -> Seq(Updates)]
            /\ answering' \in [TgChats -> Updates \cup {0}] /\ sending' \in [TgChats -> SUBSET Updates]
        BY <2>0, <3>0
      <4>2. /\ arrived' \in 0..N /\ offset' \in 0..N /\ offset' <= arrived'
            /\ confirmed' \in 0..N /\ confirmed' <= arrived'
        BY <2>01, <3>0
      <4> QED
        BY <3>0, <3>2, <4>1, <4>2
    <3>7. \A c \in TgChats : ChatInOrder(delivered'[c], answering'[c], waiting'[c],
                                       sending'[c], offset')
      BY <3>4
    <3> QED
      BY <2>1, <3>3, <3>5, <3>6, <3>7, <3>8
  <2>4. ASSUME NEW c \in TgChats, UNCHANGED <<arrived, offset, saved, confirmed, unsaved>>,
               NEW d \in Seq(Updates), NEW a \in Updates \cup {0}, NEW w \in Seq(Updates),
               NEW s \in SUBSET Updates,
               delivered' = [delivered EXCEPT ![c] = d], answering' = [answering EXCEPT ![c] = a],
               waiting' = [waiting EXCEPT ![c] = w], sending' = [sending EXCEPT ![c] = s],
               ChatInOrder(d, a, w, s, offset)
        PROVE  TelegramInv'
    <3>1. ASSUME NEW x \in TgChats
          PROVE  ChatInOrder(delivered'[x], answering'[x], waiting'[x], sending'[x], offset)
      <4>1. CASE x = c
        BY <2>0, <2>4, <4>1
      <4>2. CASE x # c
        BY <2>0, <2>4, <4>2
      <4> QED
        BY <4>1, <4>2
    <3>2. /\ waiting' \in [TgChats -> Seq(Updates)] /\ delivered' \in [TgChats -> Seq(Updates)]
          /\ answering' \in [TgChats -> Updates \cup {0}]
          /\ sending' \in [TgChats -> SUBSET Updates]
      BY <2>0, <2>4
    <3>3. ReadAgain' = ReadAgain
      BY <2>4 DEF ReadAgain
    <3> QED
      BY <2>0, <2>1, <2>4, <3>1, <3>2, <3>3
  <2>5. ASSUME NEW c \in TgChats
        PROVE  /\ delivered = [delivered EXCEPT ![c] = delivered[c]]
               /\ answering = [answering EXCEPT ![c] = answering[c]]
               /\ waiting = [waiting EXCEPT ![c] = waiting[c]]
               /\ sending = [sending EXCEPT ![c] = sending[c]]
               /\ delivered[c] \in Seq(Updates) /\ answering[c] \in Updates \cup {0}
               /\ waiting[c] \in Seq(Updates) /\ sending[c] \in SUBSET Updates
               /\ delivered[c] \in Seq(Nat) /\ waiting[c] \in Seq(Nat \ {0}) /\ waiting[c] \in Seq(Nat)
               /\ sending[c] \in SUBSET (Nat \ {0}) /\ offset \in Nat /\ answering[c] \in Nat
               /\ ChatInOrder(delivered[c], answering[c], waiting[c], sending[c], offset)
    <3>1. /\ delivered = [delivered EXCEPT ![c] = delivered[c]]
          /\ answering = [answering EXCEPT ![c] = answering[c]]
          /\ waiting = [waiting EXCEPT ![c] = waiting[c]]
          /\ sending = [sending EXCEPT ![c] = sending[c]]
      BY <2>0
    <3>2. /\ delivered[c] \in Seq(Updates) /\ answering[c] \in Updates \cup {0}
          /\ waiting[c] \in Seq(Updates) /\ sending[c] \in SUBSET Updates
      BY <2>0
    <3>3. /\ sending[c] \in SUBSET (Nat \ {0}) /\ offset \in Nat /\ answering[c] \in Nat
      BY <1>0, <2>0, <3>2
    <3> QED
      BY <1>01, <2>0, <3>1, <3>2, <3>3
  <2>6. ASSUME NEW c \in TgChats, Take(c) PROVE TelegramInv'
    <3>1. /\ answering[c] = 0 /\ sending[c] = {} /\ waiting[c] # <<>>
          /\ answering' = [answering EXCEPT ![c] = Head(waiting[c])]
          /\ waiting' = [waiting EXCEPT ![c] = Tail(waiting[c])]
          /\ UNCHANGED <<arrived, offset, saved, sending, delivered, confirmed, unsaved>>
      BY <2>0, <2>6 DEF Take, Unlocked
    <3>2. Head(waiting[c]) \in Updates /\ Tail(waiting[c]) \in Seq(Updates)
      BY <2>5, <3>1, HeadTailProperties
    <3>3. ChatInOrder(delivered[c], Head(waiting[c]), Tail(waiting[c]), {}, offset)
      BY <2>5, <3>1, FirstIsTaken
    <3> QED
      BY <2>4, <2>5, <3>1, <3>2, <3>3
  <2>7. ASSUME NEW c \in TgChats, Reply(c) PROVE TelegramInv'
    <3>1. /\ answering[c] # 0 /\ answering' = [answering EXCEPT ![c] = 0]
          /\ UNCHANGED <<arrived, offset, saved, waiting, delivered, confirmed, unsaved>>
          /\ \/ sending' = [sending EXCEPT ![c] = sending[c] \cup {answering[c]}]
             \/ sending' = sending
      BY <2>0, <2>7 DEF Reply
    <3>2. sending[c] = {} /\ answering[c] \in Updates
      BY <2>5, <3>1 DEF ChatInOrder
    <3>3. /\ ChatInOrder(delivered[c], 0, waiting[c], {answering[c]}, offset)
          /\ ChatInOrder(delivered[c], 0, waiting[c], {}, offset)
      BY <2>5, <3>1 DEF ChatInOrder
    <3>4. CASE sending' = [sending EXCEPT ![c] = sending[c] \cup {answering[c]}]
      <4>1. sending' = [sending EXCEPT ![c] = {answering[c]}] /\ {answering[c]} \in SUBSET Updates
        BY <3>2, <3>4
      <4> DEFINE s == {answering[c]}
      <4>2. /\ sending' = [sending EXCEPT ![c] = s] /\ s \in SUBSET Updates
            /\ ChatInOrder(delivered[c], 0, waiting[c], s, offset)
        BY <3>3, <4>1
      <4> HIDE DEF s
      <4>3. /\ delivered' = [delivered EXCEPT ![c] = delivered[c]]
            /\ waiting' = [waiting EXCEPT ![c] = waiting[c]]
            /\ delivered[c] \in Seq(Updates) /\ waiting[c] \in Seq(Updates)
            /\ 0 \in Updates \cup {0} /\ answering' = [answering EXCEPT ![c] = 0]
            /\ UNCHANGED <<arrived, offset, saved, confirmed, unsaved>>
        BY <2>5, <3>1
      <4> QED
        BY <2>4, <4>2, <4>3
    <3>5. CASE sending' = sending
      <4>1. /\ sending' = [sending EXCEPT ![c] = {}] /\ {} \in SUBSET Updates
            /\ ChatInOrder(delivered[c], 0, waiting[c], {}, offset)
        BY <2>5, <3>2, <3>3, <3>5
      <4>2. /\ delivered' = [delivered EXCEPT ![c] = delivered[c]]
            /\ waiting' = [waiting EXCEPT ![c] = waiting[c]]
            /\ delivered[c] \in Seq(Updates) /\ waiting[c] \in Seq(Updates)
            /\ 0 \in Updates \cup {0} /\ answering' = [answering EXCEPT ![c] = 0]
            /\ UNCHANGED <<arrived, offset, saved, confirmed, unsaved>>
        BY <2>5, <3>1
      <4> QED
        BY <2>4, <4>1, <4>2
    <3> QED
      BY <3>1, <3>4, <3>5
  <2>8. ASSUME NEW c \in TgChats, Send(c) PROVE TelegramInv'
    <3>1. PICK u \in sending[c] :
             /\ sending' = [sending EXCEPT ![c] = sending[c] \ {u}]
             /\ \/ delivered' = [delivered EXCEPT ![c] = Append(delivered[c], u)]
                \/ delivered' = delivered
             /\ UNCHANGED <<arrived, offset, saved, waiting, answering, confirmed, unsaved>>
      BY <2>0, <2>8 DEF Send
    <3>2. /\ ChatInOrder(Append(delivered[c], u), answering[c], waiting[c], sending[c] \ {u}, offset)
          /\ ChatInOrder(delivered[c], answering[c], waiting[c], sending[c] \ {u}, offset)
      BY <2>5, ReplyArrives
    <3>3. Append(delivered[c], u) \in Seq(Updates) /\ sending[c] \ {u} \in SUBSET Updates
      BY <2>5
    <3>4. CASE delivered' = [delivered EXCEPT ![c] = Append(delivered[c], u)]
      <4> DEFINE d == Append(delivered[c], u)
                 s == sending[c] \ {u}
      <4>1. /\ delivered' = [delivered EXCEPT ![c] = d] /\ sending' = [sending EXCEPT ![c] = s]
            /\ d \in Seq(Updates) /\ s \in SUBSET Updates
            /\ ChatInOrder(d, answering[c], waiting[c], s, offset)
        BY <3>1, <3>2, <3>3, <3>4
      <4> HIDE DEF d, s
      <4>2. /\ answering' = [answering EXCEPT ![c] = answering[c]]
            /\ waiting' = [waiting EXCEPT ![c] = waiting[c]]
            /\ answering[c] \in Updates \cup {0} /\ waiting[c] \in Seq(Updates)
            /\ UNCHANGED <<arrived, offset, saved, confirmed, unsaved>>
        BY <2>5, <3>1
      <4> QED
        BY <2>4, <4>1, <4>2
    <3>5. CASE delivered' = delivered
      <4> DEFINE s == sending[c] \ {u}
      <4>1. /\ delivered' = [delivered EXCEPT ![c] = delivered[c]]
            /\ sending' = [sending EXCEPT ![c] = s]
            /\ delivered[c] \in Seq(Updates) /\ s \in SUBSET Updates
            /\ ChatInOrder(delivered[c], answering[c], waiting[c], s, offset)
        BY <2>5, <3>1, <3>2, <3>3, <3>5
      <4> HIDE DEF s
      <4>2. /\ answering' = [answering EXCEPT ![c] = answering[c]]
            /\ waiting' = [waiting EXCEPT ![c] = waiting[c]]
            /\ answering[c] \in Updates \cup {0} /\ waiting[c] \in Seq(Updates)
            /\ UNCHANGED <<arrived, offset, saved, confirmed, unsaved>>
        BY <2>5, <3>1
      <4> QED
        BY <2>4, <4>1, <4>2
    <3> QED
      BY <3>1, <3>4, <3>5
  <2>9. CASE TelegramRestart
    <3>1. /\ offset' = saved /\ UNCHANGED <<arrived, saved, confirmed, unsaved>>
          /\ waiting' = [c \in TgChats |-> <<>>] /\ delivered' = [c \in TgChats |-> <<>>]
          /\ answering' = [c \in TgChats |-> 0] /\ sending' = [c \in TgChats |-> {}]
      BY <2>9 DEF TelegramRestart
    <3>2. ChatInOrder(<<>>, 0, <<>>, {}, saved)
      BY <2>0 DEF ChatInOrder, Ascending
    <3>3. ReadAgain' = {} /\ saved <= saved /\ saved <= arrived
      BY <1>0, <2>01, <3>1 DEF ReadAgain
    <3> QED
      BY <2>0, <2>1, <3>1, <3>2, <3>3
  <2>10. CASE UNCHANGED telegramVars
    BY <2>0, <2>1, <2>10 DEF telegramVars, ReadAgain
  <2> QED
    BY <2>02, <2>2, <2>3, <2>6, <2>7, <2>8, <2>9, <2>10 DEF TelegramNext
<1>3. TelegramInv => TelegramTypeOK /\ RepliesInOrder
  <2> SUFFICES ASSUME TelegramInv, NEW c \in TgChats
               PROVE  /\ \A i, j \in DOMAIN Queued(c) : i < j => Queued(c)[i] < Queued(c)[j]
                      /\ \A u \in sending[c] : \A i \in DOMAIN Queued(c) :
                            IF i <= Len(delivered[c]) THEN Queued(c)[i] < u ELSE u < Queued(c)[i]
    BY DEF TelegramInv, RepliesInOrder
  <2> DEFINE d == delivered[c]
             m == IF answering[c] = 0 THEN <<>> ELSE <<answering[c]>>
             w == waiting[c]
  <2>1. /\ d \in Seq(Nat) /\ w \in Seq(Nat) /\ answering[c] \in Nat /\ sending[c] \subseteq Nat
        /\ ChatInOrder(d, answering[c], w, sending[c], offset)
    BY <1>0 DEF TelegramInv, TelegramTypeOK
  <2>2. /\ m \in Seq(Nat) /\ Ascending(m)
        /\ \A i \in DOMAIN m : m[i] = answering[c] /\ answering[c] # 0
    BY <2>1 DEF Ascending
  <2>3. Queued(c) = (d \o m) \o w
    BY DEF Queued
  <2> HIDE DEF d, m, w
  <2>4. /\ Ascending(d) /\ Ascending(w)
        /\ \A i \in DOMAIN d, j \in DOMAIN m : d[i] < m[j]
        /\ \A i \in DOMAIN m, j \in DOMAIN w : m[i] < w[j]
        /\ \A i \in DOMAIN d, j \in DOMAIN w : d[i] < w[j]
    BY <2>1, <2>2 DEF ChatInOrder
  <2> DEFINE p == d \o m
             q == p \o w
  <2>31. p = d \o m /\ q = p \o w
    OBVIOUS
  <2> HIDE DEF p, q
  <2>5. Joined(d, m, p)
    BY <2>1, <2>2, <2>4, <2>31, LinesJoin
  <2>6. /\ Len(d) \in Nat /\ Len(m) \in Nat /\ DOMAIN p = 1..Len(p)
    BY <2>1, <2>2, <2>5 DEF Joined
  <2>7. \A i \in DOMAIN p, j \in DOMAIN w : p[i] < w[j]
    BY <2>4, <2>5 DEF Joined
  <2>8. Joined(p, w, q)
    BY <2>1, <2>4, <2>5, <2>7, <2>31, LinesJoin DEF Joined
  <2>9. Queued(c) = q
    BY <2>3, <2>31
  <2>10. ASSUME NEW u \in sending[c], NEW i \in DOMAIN q
         PROVE  IF i <= Len(d) THEN q[i] < u ELSE u < q[i]
    <3>1. answering[c] = 0 /\ DOMAIN m = {}
      BY <2>1, <2>2 DEF ChatInOrder
    <3>2. Len(m) = 0 /\ Len(p) = Len(d)
      BY <2>2, <2>5, <2>6, <3>1 DEF Joined
    <3>3. CASE i \in DOMAIN p /\ i <= Len(p) /\ q[i] = p[i]
      <4>1. i \in DOMAIN d /\ i <= Len(d) /\ q[i] = d[i]
        BY <2>5, <3>1, <3>2, <3>3 DEF Joined
      <4> QED
        BY <2>1, <4>1 DEF ChatInOrder
    <3>4. CASE i > Len(p) /\ i - Len(p) \in DOMAIN w /\ q[i] = w[i - Len(p)]
      <4>1. i \in 1..Len(q) /\ Len(q) \in Nat
        BY <2>8 DEF Joined
      <4>2. ~(i <= Len(d))
        BY <2>6, <3>2, <3>4, <4>1
      <4> QED
        BY <2>1, <3>2, <3>4, <4>2 DEF ChatInOrder
    <3> QED
      BY <2>8, <3>3, <3>4 DEF Joined
  <2> QED
    BY <2>8, <2>9, <2>10 DEF Ascending, Joined, d
<1> QED
  BY <1>1, <1>2, <1>3, PTL DEF TelegramSpec

-------------------------------------------------------------------------------
(***************************************************************************)
(* Conversations                                                            *)
(***************************************************************************)

\* A dialogue: every answer but a first entry stands right after a text.
Dialogue(seq) == \A i \in 2..Len(seq) : seq[i][1] = "assistant" => seq[i - 1][1] = "user"

SlotStates ==
    {NoMessage} \cup {Asked(at, t) : at \in {"hydrating", "asked", "llm"}, t \in Texts}
    \cup {Replied(t, r) : t \in Texts, r \in Answers}

\* The rows are a dialogue whatever happened.  Without overlap one message is answered at a
\* time, and the one that reads the rows finds nothing in the tail yet.
ConversationInv ==
    /\ tail \in Seq(Entries) /\ Len(tail) <= MaxTail /\ rows \in Seq(Entries)
    /\ hydrated \in BOOLEAN /\ overlapped \in BOOLEAN /\ slot \in [Slots -> SlotStates]
    /\ Dialogue(rows)
    /\ ~overlapped => /\ Dialogue(tail)
                      /\ \A m, n \in Slots : slot[m] # NoMessage /\ slot[n] # NoMessage => m = n
                      /\ \A m \in Slots : slot[m].step = "hydrating" => tail = <<>>

\* What is kept of a dialogue is one.
LEMMA LatestOfDialogue ==
    ASSUME NEW seq \in Seq(Entries), NEW n \in Nat
    PROVE  /\ Latest(seq, n) \in Seq(Entries) /\ Len(Latest(seq, n)) <= n
           /\ Dialogue(seq) => Dialogue(Latest(seq, n))
<1>1. CASE Len(seq) <= n
  BY <1>1 DEF Latest
<1>2. CASE Len(seq) > n
  <2> DEFINE kept == SubSeq(seq, Len(seq) - n + 1, Len(seq))
  <2>1. Latest(seq, n) = kept
    BY <1>2 DEF Latest
  <2>2. /\ Len(seq) - n + 1 \in 1..Len(seq) + 1 /\ Len(seq) \in Nat
        /\ Len(seq) - n + 1 <= Len(seq) => Len(seq) - (Len(seq) - n + 1) + 1 = n
        /\ ~(Len(seq) - n + 1 <= Len(seq)) => n = 0
    BY <1>2
  <2>3. /\ kept \in Seq(Entries) /\ Len(kept) = n
        /\ \A i \in 1..n : kept[i] = seq[Len(seq) - n + i]
    <3>1. /\ kept \in Seq(Entries)
          /\ Len(kept) = IF Len(seq) - n + 1 <= Len(seq) THEN Len(seq) - (Len(seq) - n + 1) + 1 ELSE 0
          /\ \A i \in 1..Len(kept) : kept[i] = seq[(Len(seq) - n + 1) + i - 1]
      BY <2>2, SubSeqProperties
    <3>2. Len(kept) = n
      BY <2>2, <3>1
    <3>3. \A i \in 1..n : (Len(seq) - n + 1) + i - 1 = Len(seq) - n + i
      BY <2>2
    <3> HIDE DEF kept
    <3> QED
      BY <3>1, <3>2, <3>3
  <2> HIDE DEF kept
  <2>4. ASSUME Dialogue(seq) PROVE Dialogue(kept)
    <3> SUFFICES ASSUME NEW i \in 2..n, kept[i][1] = "assistant" PROVE kept[i - 1][1] = "user"
      BY <2>3 DEF Dialogue
    <3>1. kept[i] = seq[Len(seq) - n + i] /\ kept[i - 1] = seq[(Len(seq) - n + i) - 1]
      <4>1. i \in 1..n /\ i - 1 \in 1..n /\ Len(seq) - n + (i - 1) = (Len(seq) - n + i) - 1
        BY <2>2
      <4> QED
        BY <2>3, <4>1
    <3>2. Len(seq) - n + i \in 2..Len(seq)
      BY <1>2, <2>2
    <3> QED
      BY <2>4, <3>1, <3>2 DEF Dialogue
  <2> QED
    BY <2>1, <2>3, <2>4
<1> QED
  BY <1>1, <1>2

\* Two dialogues make one, where an answer the second begins with has its text at the end of
\* the first.
LEMMA DialoguesJoin ==
    ASSUME NEW s \in Seq(Entries), NEW u \in Seq(Entries), Dialogue(s), Dialogue(u),
           u # <<>> /\ u[1][1] = "assistant" => s = <<>> \/ s[Len(s)][1] = "user"
    PROVE  s \o u \in Seq(Entries) /\ Dialogue(s \o u)
<1>1. /\ s \o u \in Seq(Entries) /\ Len(s \o u) = Len(s) + Len(u)
      /\ \A i \in 1..Len(s) + Len(u) : (s \o u)[i] = IF i <= Len(s) THEN s[i] ELSE u[i - Len(s)]
  BY ConcatProperties
<1> DEFINE both == s \o u
<1> HIDE DEF both
<1>2. ASSUME NEW i \in 2..Len(both), both[i][1] = "assistant" PROVE both[i - 1][1] = "user"
  <2>0. /\ i \in 1..Len(s) + Len(u) /\ i - 1 \in 1..Len(s) + Len(u) /\ Len(s) \in Nat /\ Len(u) \in Nat
    BY <1>1 DEF both
  <2>1. CASE i <= Len(s)
    <3>1. both[i] = s[i] /\ both[i - 1] = s[i - 1] /\ i \in 2..Len(s)
      BY <1>1, <2>0, <2>1 DEF both
    <3> QED
      BY <1>2, <3>1 DEF Dialogue
  <2>2. CASE i = Len(s) + 1
    <3>1. both[i] = u[1] /\ both[i - 1] = s[Len(s)] /\ u # <<>> /\ s # <<>>
      BY <1>1, <2>0, <2>2 DEF both
    <3> QED
      BY <1>2, <3>1
  <2>3. CASE i > Len(s) + 1
    <3>1. both[i] = u[i - Len(s)] /\ both[i - 1] = u[(i - Len(s)) - 1] /\ i - Len(s) \in 2..Len(u)
      <4>1. (i - 1) - Len(s) = (i - Len(s)) - 1 /\ ~(i <= Len(s)) /\ ~(i - 1 <= Len(s))
        BY <2>0, <2>3
      <4> QED
        BY <1>1, <2>0, <2>3, <4>1 DEF both
    <3> QED
      BY <1>2, <3>1 DEF Dialogue
  <2> QED
    BY <2>0, <2>1, <2>2, <2>3
<1> QED
  BY <1>1, <1>2 DEF both, Dialogue

\* What the tail is given to remember
LEMMA RememberDialogue ==
    ASSUME ConversationInv, NEW entries \in Seq(Entries), Remember(entries)
    PROVE  /\ tail' \in Seq(Entries) /\ Len(tail') <= MaxTail
           /\ Dialogue(tail \o entries) => Dialogue(tail')
<1>1. tail \o entries \in Seq(Entries)
  BY ConcatProperties DEF ConversationInv
<1> QED
  BY <1>1, LatestOfDialogue, ConversationAssumption DEF Remember

\* A text, and a text with its answer
LEMMA EntriesAreDialogues ==
    ASSUME NEW t \in Texts, NEW r \in Answers
    PROVE  /\ <<>> \in Seq(Entries) /\ Dialogue(<<>>)
           /\ <<User(t)>> \in Seq(Entries) /\ Dialogue(<<User(t)>>) /\ <<User(t)>>[1][1] = "user"
           /\ <<Assistant(r)>> \in Seq(Entries) /\ Dialogue(<<Assistant(r)>>)
           /\ <<User(t), Assistant(r)>> \in Seq(Entries) /\ Dialogue(<<User(t), Assistant(r)>>)
           /\ <<User(t), Assistant(r)>>[1][1] = "user"
<1>1. User(t) \in Entries /\ Assistant(r) \in Entries
  BY DEF Entries
<1>2. User(t)[1] = "user"
  BY DEF User
<1> QED
  BY <1>1, <1>2 DEF Dialogue

\* Before anything is said
LEMMA NothingSaid ==
    /\ <<>> \in Seq(Entries) /\ Len(<<>>) <= MaxTail /\ Dialogue(<<>>)
    /\ NoMessage \in SlotStates
BY ConversationAssumption DEF Dialogue, SlotStates

\* Whatever is asked, hydrated, answered, given up or lost, the rows stay a dialogue, and the
\* tail of a chat whose messages do not overlap.
LEMMA ConversationInvariant == ConversationSpec => []ConversationInv
<1>1. ConversationInit => ConversationInv
  BY NothingSaid DEF ConversationInit, ConversationInv, NoMessage
<1>2. ConversationInv /\ [ConversationNext]_conversationVars => ConversationInv'
  <2> SUFFICES ASSUME ConversationInv, [ConversationNext]_conversationVars PROVE ConversationInv'
    OBVIOUS
  <2>0. /\ tail \in Seq(Entries) /\ Len(tail) <= MaxTail /\ rows \in Seq(Entries)
        /\ hydrated \in BOOLEAN /\ overlapped \in BOOLEAN /\ slot \in [Slots -> SlotStates]
        /\ Dialogue(rows)
        /\ ~overlapped => /\ Dialogue(tail)
                          /\ \A m, n \in Slots : slot[m] # NoMessage /\ slot[n] # NoMessage => m = n
                          /\ \A m \in Slots : slot[m].step = "hydrating" => tail = <<>>
    BY DEF ConversationInv
  \* What the slots' states are
  <2>a. ASSUME NEW m \in Slots, slot[m] # NoMessage
        PROVE  /\ slot[m].text \in Texts /\ slot[m].step \in {"hydrating", "asked", "llm", "saving"}
               /\ slot[m].step \in {"hydrating", "asked", "llm"} => slot[m] = Asked(slot[m].step, slot[m].text)
               /\ slot[m].step = "saving" => /\ slot[m] = Replied(slot[m].text, slot[m].reply)
                                             /\ slot[m].reply \in Answers
    <3>1. slot[m] \in SlotStates
      BY <2>0
    <3> QED
      BY <2>a, <3>1 DEF SlotStates, Asked, Replied
  <2>b. ASSUME NEW m \in Slots, slot[m].step \in {"hydrating", "asked", "llm", "saving"}
        PROVE  slot[m] # NoMessage
    BY <2>b DEF NoMessage
  \* A message that is being answered goes on; the tail stays a dialogue where it was one.
  <2>1. ASSUME NEW m \in Slots, NEW to \in SlotStates, slot' = [slot EXCEPT ![m] = to],
               slot[m] # NoMessage \/ overlapped', to.step # "hydrating", slot[m] # NoMessage,
               tail' \in Seq(Entries), Len(tail') <= MaxTail, ~overlapped => Dialogue(tail'),
               rows' \in Seq(Entries), Dialogue(rows'), UNCHANGED <<hydrated, overlapped>>
        PROVE  ConversationInv'
    <3>1. /\ slot' \in [Slots -> SlotStates] /\ slot'[m] = to
          /\ \A n \in Slots \ {m} : slot'[n] = slot[n]
      BY <2>0, <2>1
    <3>2. ASSUME ~overlapped', NEW n \in Slots, slot'[n] # NoMessage PROVE n = m
      BY <2>0, <2>1, <3>1, <3>2
    <3>3. ASSUME ~overlapped', NEW n \in Slots, slot'[n].step = "hydrating" PROVE FALSE
      <4>1. slot'[n] # NoMessage
        BY <3>3 DEF NoMessage
      <4> QED
        BY <2>1, <3>1, <3>2, <3>3, <4>1
    <3> QED
      BY <2>0, <2>1, <3>1, <3>2, <3>3 DEF ConversationInv
  <2>2. ASSUME NEW m \in Slots, NEW t \in Texts, Ask(m, t) PROVE ConversationInv'
    <3> DEFINE to == Asked(IF hydrated \/ tail # <<>> THEN "asked" ELSE "hydrating", t)
    <3>1. /\ slot[m] = NoMessage /\ slot' = [slot EXCEPT ![m] = to] /\ hydrated' = TRUE
          /\ overlapped' = (overlapped \/ \E n \in Slots : slot[n] # NoMessage)
          /\ tail' = tail /\ rows' = rows
      BY <2>2 DEF Ask
    <3>2. to \in SlotStates /\ (to.step = "hydrating" => tail = <<>>)
      BY DEF SlotStates, Asked
    <3> HIDE DEF to
    <3>3. /\ slot' \in [Slots -> SlotStates] /\ slot'[m] = to
          /\ \A n \in Slots \ {m} : slot'[n] = slot[n]
      BY <2>0, <3>1, <3>2
    <3>4. ASSUME ~overlapped', NEW n \in Slots, slot'[n] # NoMessage PROVE n = m
      BY <3>1, <3>3, <3>4
    <3>5. ASSUME ~overlapped', NEW n \in Slots, slot'[n].step = "hydrating" PROVE tail' = <<>>
      <4>1. slot'[n] # NoMessage
        BY <3>5 DEF NoMessage
      <4>2. n = m
        BY <3>4, <3>5, <4>1
      <4> QED
        BY <3>1, <3>2, <3>3, <3>5, <4>2
    <3>6. overlapped' \in BOOLEAN /\ (~overlapped' => ~overlapped) /\ hydrated' \in BOOLEAN
      BY <2>0, <3>1
    <3> QED
      BY <2>0, <3>1, <3>3, <3>4, <3>5, <3>6 DEF ConversationInv
  <2>3. ASSUME NEW m \in Slots, Hydrate(m) PROVE ConversationInv'
    <3>1. slot[m].step = "hydrating" /\ slot' = [slot EXCEPT ![m].step = "asked"]
          /\ UNCHANGED <<rows, hydrated, overlapped>>
          /\ (Remember(Latest(rows, MaxRaw)) \/ tail' = tail)
      BY <2>3 DEF Hydrate
    <3>2. slot[m] # NoMessage
      BY <2>b, <3>1
    <3>3. slot[m] = Asked("hydrating", slot[m].text) /\ slot[m].text \in Texts
      BY <2>a, <3>1, <3>2
    <3>4. slot' = [slot EXCEPT ![m] = Asked("asked", slot[m].text)]
      <4>1. [slot[m] EXCEPT !.step = "asked"] = Asked("asked", slot[m].text)
        BY <3>3 DEF Asked
      <4> QED
        BY <3>1, <4>1
    <3>5. Asked("asked", slot[m].text) \in SlotStates /\ Asked("asked", slot[m].text).step # "hydrating"
      BY <3>3 DEF SlotStates, Asked
    <3>6. tail' \in Seq(Entries) /\ Len(tail') <= MaxTail /\ (~overlapped => Dialogue(tail'))
      <4>1. CASE tail' = tail
        BY <2>0, <4>1
      <4>2. CASE Remember(Latest(rows, MaxRaw))
        <5>1. Latest(rows, MaxRaw) \in Seq(Entries) /\ Dialogue(Latest(rows, MaxRaw))
          BY <2>0, LatestOfDialogue, ConversationAssumption
        <5>2. ~overlapped => Dialogue(tail \o Latest(rows, MaxRaw))
          BY <2>0, <3>1, <5>1, DialoguesJoin
        <5> QED
          BY <4>2, <5>1, <5>2, RememberDialogue
      <4> QED
        BY <3>1, <4>1, <4>2
    <3> QED
      BY <2>0, <2>1, <3>1, <3>2, <3>4, <3>5, <3>6
  <2>4. ASSUME NEW m \in Slots, CallModel(m) PROVE ConversationInv'
    <3>1. slot[m].step = "asked" /\ slot' = [slot EXCEPT ![m].step = "llm"]
          /\ UNCHANGED <<rows, hydrated, overlapped>> /\ Remember(<<User(slot[m].text)>>)
      BY <2>4 DEF CallModel
    <3>2. slot[m] # NoMessage
      BY <2>b, <3>1
    <3>3. slot[m] = Asked("asked", slot[m].text) /\ slot[m].text \in Texts
      BY <2>a, <3>1, <3>2
    <3>4. slot' = [slot EXCEPT ![m] = Asked("llm", slot[m].text)]
      <4>1. [slot[m] EXCEPT !.step = "llm"] = Asked("llm", slot[m].text)
        BY <3>3 DEF Asked
      <4> QED
        BY <3>1, <4>1
    <3>5. Asked("llm", slot[m].text) \in SlotStates /\ Asked("llm", slot[m].text).step # "hydrating"
      BY <3>3 DEF SlotStates, Asked
    <3>6. tail' \in Seq(Entries) /\ Len(tail') <= MaxTail /\ (~overlapped => Dialogue(tail'))
      <4>1. <<User(slot[m].text)>> \in Seq(Entries) /\ Dialogue(<<User(slot[m].text)>>)
            /\ <<User(slot[m].text)>>[1][1] = "user"
        BY <3>3 DEF Entries, User, Dialogue
      <4> QED
        BY <2>0, <3>1, <4>1, RememberDialogue, DialoguesJoin
    <3> QED
      BY <2>0, <2>1, <3>1, <3>2, <3>4, <3>5, <3>6
  <2>5. ASSUME NEW m \in Slots, NEW r \in Answers, Finalize(m, r) PROVE ConversationInv'
    <3> DEFINE t == slot[m].text
    <3>1. slot[m].step \in {"asked", "llm"} /\ slot' = [slot EXCEPT ![m] = Replied(t, r)]
          /\ UNCHANGED <<rows, hydrated, overlapped>> /\ Remember(Exchange(t, r))
      BY <2>5 DEF Finalize
    <3>2. slot[m] # NoMessage
      BY <2>b, <3>1
    <3>3. t \in Texts
      BY <2>a, <3>2
    <3>5. Replied(t, r) \in SlotStates /\ Replied(t, r).step # "hydrating"
      BY <3>3 DEF SlotStates, Replied
    <3>6. tail' \in Seq(Entries) /\ Len(tail') <= MaxTail /\ (~overlapped => Dialogue(tail'))
      <4>1. /\ Exchange(t, r) \in Seq(Entries) /\ Dialogue(Exchange(t, r))
            /\ Exchange(t, r) # <<>> /\ Exchange(t, r)[1][1] = "assistant" => tail[Len(tail)][1] = "user"
        <5>1. CASE AlreadyRecorded(r)
          BY <3>3, <5>1, EntriesAreDialogues DEF Exchange
        <5>2. CASE ~AlreadyRecorded(r) /\ UserThere(t)
          <6>1. tail[Len(tail)][1] = "user"
            BY <5>2 DEF UserThere, User
          <6> QED
            BY <3>3, <5>2, <6>1, EntriesAreDialogues DEF Exchange
        <5>3. CASE ~AlreadyRecorded(r) /\ ~UserThere(t)
          BY <3>3, <5>3, EntriesAreDialogues DEF Exchange
        <5> QED
          BY <5>1, <5>2, <5>3
      <4> QED
        BY <2>0, <3>1, <4>1, RememberDialogue, DialoguesJoin
    <3> HIDE DEF t
    <3> QED
      BY <2>0, <2>1, <3>1, <3>2, <3>5, <3>6
  <2>6. NoMessage \in SlotStates /\ NoMessage.step # "hydrating"
    BY DEF SlotStates, NoMessage
  <2>7. ASSUME NEW m \in Slots, SaveExchange(m) PROVE ConversationInv'
    <3>1. /\ slot[m].step = "saving" /\ slot' = [slot EXCEPT ![m] = NoMessage]
          /\ UNCHANGED <<tail, hydrated, overlapped>>
          /\ \/ rows' = rows \o <<User(slot[m].text), Assistant(slot[m].reply)>>
             \/ rows' = rows
      BY <2>7 DEF SaveExchange
    <3>2. slot[m] # NoMessage
      BY <2>b, <3>1
    <3>3. slot[m].text \in Texts /\ slot[m].reply \in Answers
      BY <2>a, <3>1, <3>2
    <3>4. rows' \in Seq(Entries) /\ Dialogue(rows')
      BY <2>0, <3>1, <3>3, EntriesAreDialogues, DialoguesJoin
    <3> QED
      BY <2>0, <2>1, <2>6, <3>1, <3>2, <3>4
  <2>8. ASSUME NEW m \in Slots, GiveUpOn(m) PROVE ConversationInv'
    BY <2>0, <2>1, <2>6, <2>8 DEF GiveUpOn
  <2>9. CASE ConversationRestart
    <3>1. /\ tail' = <<>> /\ hydrated' = FALSE /\ slot' = [m \in Slots |-> NoMessage]
          /\ overlapped' = FALSE /\ rows' = rows
      BY <2>9 DEF ConversationRestart
    <3>2. slot' \in [Slots -> SlotStates] /\ \A m \in Slots : slot'[m] = NoMessage
      BY <3>1, NothingSaid
    <3> QED
      BY <2>0, <3>1, <3>2, NothingSaid DEF ConversationInv
  <2>10. CASE UNCHANGED conversationVars
    BY <2>10 DEF conversationVars, ConversationInv
  <2> QED
    BY <2>2, <2>3, <2>4, <2>5, <2>7, <2>8, <2>9, <2>10 DEF ConversationNext
<1> QED
  BY <1>1, <1>2, PTL DEF ConversationSpec

\* A chat answered one message at a time remembers a dialogue, through failures, cancellations
\* and restarts: AgentBrain's conversation tail.
THEOREM ChatIsADialogue == ConversationSpec => []EachAnswerHasItsText
<1>1. ConversationInv => EachAnswerHasItsText
  BY DEF ConversationInv, EachAnswerHasItsText, Dialogue
<1> QED
  BY <1>1, ConversationInvariant, PTL

\* What is remembered of a chat and where its messages are is well formed (AgentBrain.process),
\* and the tail no longer than it may be.
THEOREM ConversationTyped == ConversationSpec => []ConversationTypeOK
<1>1. ConversationInv => ConversationTypeOK
  <2> SUFFICES ASSUME ConversationInv, NEW m \in Slots
               PROVE  \/ slot[m] = NoMessage
                      \/ \E t \in Texts :
                            slot[m] \in {Asked("hydrating", t), Asked("asked", t), Asked("llm", t)}
                      \/ \E t \in Texts, r \in Answers : slot[m] = Replied(t, r)
    BY DEF ConversationInv, ConversationTypeOK
  <2>1. slot[m] \in SlotStates
    BY DEF ConversationInv
  <2> QED
    BY <2>1 DEF SlotStates
<1> QED
  BY <1>1, ConversationInvariant, PTL

-------------------------------------------------------------------------------
(***************************************************************************)
(* Tool use: the loop of calls an answer takes                              *)
(***************************************************************************)

\* How many of a turn's calls are stopped before one starts: at most all of them.
LEMMA BlockedFirstBound ==
    ASSUME NEW m \in Messages, NEW calls \in Seq(Tools)
    PROVE  BlockedFirst(m, calls) \in 0..Len(calls)
<1> DEFINE P(k) == /\ \A i \in 1..k : Stops(m, calls[i])
                   /\ k < Len(calls) => ~Stops(m, calls[k + 1])
           Starts == {k \in 0..Len(calls) : k < Len(calls) /\ ~Stops(m, calls[k + 1])}
<1>1. \E k \in 0..Len(calls) : P(k)
  <2>1. CASE Starts = {}
    <3>1. ASSUME NEW i \in 1..Len(calls) PROVE Stops(m, calls[i])
      <4>1. i - 1 \in 0..Len(calls) /\ i - 1 < Len(calls) /\ (i - 1) + 1 = i
        OBVIOUS
      <4> QED
        BY <2>1, <4>1
    <3>2. P(Len(calls))
      BY <3>1
    <3> QED
      BY <3>2
  <2>2. CASE Starts # {}
    <3>1. PICK k \in Starts : \A j \in Starts : k <= j
      <4>1. Starts \subseteq Nat
        OBVIOUS
      <4> HIDE DEF Starts
      <4> QED
        BY <2>2, <4>1, LeastNumber
    <3>2. k \in 0..Len(calls) /\ k < Len(calls) /\ ~Stops(m, calls[k + 1])
      OBVIOUS
    <3>3. ASSUME NEW i \in 1..k, ~Stops(m, calls[i]) PROVE FALSE
      <4>1. i - 1 \in Starts
        <5>1. i - 1 \in 0..Len(calls) /\ i - 1 < Len(calls) /\ (i - 1) + 1 = i
          BY <3>2
        <5> QED
          BY <3>3, <5>1
      <4> QED
        BY <3>1, <3>2, <4>1
    <3>4. P(k)
      BY <3>2, <3>3
    <3> QED
      BY <3>2, <3>4
  <2> QED
    BY <2>1, <2>2
<1> QED
  BY <1>1 DEF BlockedFirst

\* A turn's calls, or what is left of them
CallLists == UNION {[1..n -> Tools] : n \in 0..MaxCalls}

\* Such a list is a sequence of tools, no longer than the model may ask for.
LEMMA CallListsAreSequences ==
    \A calls \in CallLists : calls \in Seq(Tools) /\ Len(calls) \in 0..MaxCalls
BY ToolUseAssumption DEF CallLists

\* k calls were blocked on the way, and one started if the message stopped at a tool.
CountedSo(m, logged, counted) ==
    \E k \in Nat :
        /\ actions' = [logged EXCEPT !["blocked"] = @ + k]
        /\ stats' = [counted EXCEPT !["blocked"] = @ + k,
                                    !["calls"] = @ + IF run'[m].at = "tool" THEN 1 ELSE 0]

\* Working through a turn's calls keeps the types, moves the one run, stops at a tool only
\* with that tool's call in hand, and counts as it logs.
LEMMA WorkTyped ==
    ASSUME ToolUseTypeOK, NEW m \in Messages, NEW calls \in CallLists,
           NEW logged \in [ActionPhases -> Nat], NEW counted \in [{"calls", "errors", "blocked"} -> Nat],
           run[m].turn \in 1..MaxTurns,
           WorkThrough(m, calls, logged, counted)
    PROVE  /\ ToolUseTypeOK' /\ run'[m].at \in {"tool", "model", "replying"}
           /\ (run'[m].at = "tool" => run'[m].calls # <<>>) /\ run'[m].turn \in 1..MaxTurns
           /\ \A n \in Messages \ {m} : run'[n] = run[n]
           /\ agentStatus' = agentStatus \/ (FindsStatus /\ agentStatus' = "blocked")
           /\ CountedSo(m, logged, counted)
<1> DEFINE k == BlockedFirst(m, calls)
           left == SubSeq(calls, k + 1, Len(calls))
<1>0. calls \in Seq(Tools) /\ Len(calls) \in 0..MaxCalls
  BY CallListsAreSequences
<1>1. k \in 0..Len(calls)
  BY <1>0, BlockedFirstBound
<1>2. left \in CallLists
  <2> HIDE DEF k
  <2>1. left \in [1..(Len(calls) - k) -> Tools]
    <3>1. /\ left \in Seq(Tools)
          /\ Len(left) = IF k + 1 <= Len(calls) THEN Len(calls) - (k + 1) + 1 ELSE 0
      BY <1>0, <1>1, SubSeqProperties
    <3>2. Len(left) = Len(calls) - k
      BY <1>0, <1>1, <3>1
    <3> HIDE DEF left
    <3> QED
      BY <3>1, <3>2
  <2>2. Len(calls) - k \in 0..MaxCalls
    BY <1>0, <1>1, ToolUseAssumption
  <2> QED
    BY <2>1, <2>2 DEF CallLists
<1> HIDE DEF left, k
<1>3. /\ actions' = [logged EXCEPT !["blocked"] = @ + k]
      /\ stats' = [counted EXCEPT !["blocked"] = @ + k, !["calls"] = @ + IF left = <<>> THEN 0 ELSE 1]
      /\ run' = [run EXCEPT ![m] =
                   [at |-> IF left # <<>> THEN "tool"
                           ELSE IF run[m].turn < MaxTurns THEN "model" ELSE "replying",
                    turn |-> IF left = <<>> /\ run[m].turn < MaxTurns THEN run[m].turn + 1
                             ELSE run[m].turn,
                    calls |-> left]]
      /\ agentStatus' = Denied(calls, k) /\ UNCHANGED disabled
  BY DEF WorkThrough, Started, left, k
<1>4. k \in Nat
  BY <1>0, <1>1
<1>5. actions' \in [ActionPhases -> Nat] /\ stats' \in [{"calls", "errors", "blocked"} -> Nat]
  BY <1>3, <1>4 DEF ActionPhases
<1>10. agentStatus' = agentStatus \/ (FindsStatus /\ agentStatus' = "blocked")
  BY <1>3 DEF Denied
<1>6. run[m] \in MessageRun /\ run \in [Messages -> MessageRun]
  BY DEF ToolUseTypeOK
<1> DEFINE after == [at |-> IF left # <<>> THEN "tool"
                               ELSE IF run[m].turn < MaxTurns THEN "model" ELSE "replying",
                      turn |-> IF left = <<>> /\ run[m].turn < MaxTurns THEN run[m].turn + 1
                               ELSE run[m].turn,
                      calls |-> left]
<1>7. run' = [run EXCEPT ![m] = after]
  BY <1>3
<1>8. after \in MessageRun /\ after.at \in {"tool", "model", "replying"}
      /\ (after.at = "tool" => after.calls # <<>>) /\ after.turn \in 1..MaxTurns
  <2>1. run[m].turn \in 1..MaxTurns /\ MaxTurns \in Nat
    BY ToolUseAssumption
  <2>2. after.turn \in 1..MaxTurns /\ after.turn \in 0..MaxTurns
    BY <2>1
  <2>3. after.at \in {"tool", "model", "replying"} /\ (after.at = "tool" => after.calls # <<>>)
    OBVIOUS
  <2> QED
    BY <1>2, <2>2, <2>3 DEF MessageRun, CallLists
<1>11. (run'[m].at = "tool") <=> (left # <<>>)
  BY <1>6, <1>7
<1> HIDE DEF after
<1>12. stats' = [counted EXCEPT !["blocked"] = @ + k,
                                !["calls"] = @ + IF run'[m].at = "tool" THEN 1 ELSE 0]
  BY <1>3, <1>11
<1>9. run' \in [Messages -> MessageRun]
  BY <1>6, <1>7, <1>8
<1> QED
  <2>1. CountedSo(m, logged, counted)
    BY <1>3, <1>4, <1>12 DEF CountedSo
  <2>2. ToolUseTypeOK'
    BY <1>3, <1>5, <1>9, <1>10 DEF ToolUseTypeOK
  <2> QED
    BY <1>6, <1>7, <1>8, <1>10, <2>1, <2>2

\* A message that waits somewhere has a turn; one in a handler has the call it is in.
ToolInv ==
    /\ ToolUseTypeOK
    /\ \A m \in Messages : /\ run[m].at \in {"model", "tool"} => run[m].turn \in 1..MaxTurns
                           /\ run[m].at = "tool" => run[m].calls # <<>>
    /\ agentStatus = "blocked" => FindsStatus
    /\ CallsAreAccounted

\* A step that moves one message: what becomes of the calls that no log holds.
LEMMA UnloggedMoves ==
    ASSUME NEW m \in Messages, \A n \in Messages \ {m} : run'[n] = run[n]
    PROVE  /\ Cardinality(Unlogged) \in Nat /\ Cardinality(Unlogged') \in Nat
           /\ m \notin Unlogged /\ m \notin Unlogged' => Cardinality(Unlogged') = Cardinality(Unlogged)
           /\ m \in Unlogged /\ m \in Unlogged' => Cardinality(Unlogged') = Cardinality(Unlogged)
           /\ m \notin Unlogged /\ m \in Unlogged' => Cardinality(Unlogged') = Cardinality(Unlogged) + 1
           /\ m \in Unlogged /\ m \notin Unlogged' => Cardinality(Unlogged) = Cardinality(Unlogged') + 1
<1>1. IsFiniteSet(Unlogged) /\ IsFiniteSet(Unlogged')
  BY FS_Subset, ToolUseAssumption DEF Unlogged
<1>2. Unlogged \ {m} = Unlogged' \ {m}
  BY DEF Unlogged
<1>3. m \notin Unlogged /\ m \in Unlogged' => Unlogged' = Unlogged \cup {m}
  BY <1>2
<1>4. m \in Unlogged /\ m \notin Unlogged' => Unlogged = Unlogged' \cup {m}
  BY <1>2
<1>5. (m \in Unlogged <=> m \in Unlogged') => Unlogged' = Unlogged
  BY <1>2
<1>6. /\ Cardinality(Unlogged \cup {m}) = IF m \in Unlogged THEN Cardinality(Unlogged)
                                                            ELSE Cardinality(Unlogged) + 1
      /\ Cardinality(Unlogged' \cup {m}) = IF m \in Unlogged' THEN Cardinality(Unlogged')
                                                             ELSE Cardinality(Unlogged') + 1
  BY <1>1, FS_AddElement
<1>7. Cardinality(Unlogged) \in Nat /\ Cardinality(Unlogged') \in Nat
  BY <1>1, FS_CardinalityType
<1> QED
  BY <1>3, <1>4, <1>5, <1>6, <1>7

\* The action log and the counters agree, and with no message in progress the owner sees an
\* idle agent or one that was denied a tool: whichever messages overlapped and wherever each
\* of them was answered, failed or was cancelled (ToolExecutor.execute and the finally of
\* AgentBrain.process).
THEOREM CallsAlwaysAccounted == ToolUseSpec => [](ToolUseTypeOK /\ CallsAreAccounted)
<1>1. ToolUseInit => ToolInv
  <2> SUFFICES ASSUME ToolUseInit PROVE ToolInv
    OBVIOUS
  <2>1. <<>> \in UNION {[1..n -> Tools] : n \in 0..MaxCalls}
    <3>1. <<>> \in [1..0 -> Tools] /\ 0 \in 0..MaxCalls
      BY ToolUseAssumption
    <3> QED
      BY <3>1
  <2>2. [at |-> "new", turn |-> 0, calls |-> <<>>] \in MessageRun
    BY <2>1, ToolUseAssumption DEF MessageRun
  <2>4. ToolUseTypeOK
    BY <2>2 DEF ToolUseInit, ToolUseTypeOK, ActionPhases
  <2> QED
    <3>1. Unlogged = {} /\ InProgress = {}
      BY <2>4 DEF ToolUseInit, Unlogged, InProgress
    <3>2. Cardinality(Unlogged) = 0
      BY <3>1, FS_EmptySet
    <3>3. CallsAreAccounted
      BY <3>2 DEF ToolUseInit, CallsAreAccounted, ActionPhases
    <3> QED
      BY <2>4, <3>3 DEF ToolUseInit, ToolInv
<1>2. ToolInv /\ [ToolUseNext]_toolVars => ToolInv'
  <2> SUFFICES ASSUME ToolInv, [ToolUseNext]_toolVars PROVE ToolInv'
    OBVIOUS
  <2> USE ToolUseAssumption
  <2>0. /\ run \in [Messages -> MessageRun] /\ agentStatus \in {"idle", "thinking", "executing", "blocked"}
        /\ disabled \subseteq Tools
        /\ actions \in [ActionPhases -> Nat]
        /\ stats \in [{"calls", "errors", "blocked"} -> Nat]
    BY DEF ToolInv, ToolUseTypeOK
  \* A step that only moves one message, and the status with it
  <2>1. ASSUME NEW m \in Messages, NEW place \in {"thinking", "replying", "done", "cut"},
               Moves(m, place), UNCHANGED <<disabled, actions, stats>>,
               run[m].at \in {"tool", "cut"} <=> place = "cut",
               \/ agentStatus' = "idle" \/ (agentStatus = "blocked" /\ UNCHANGED agentStatus)
               \/ agentStatus' \in {agentStatus, "thinking"} /\ place \in {"thinking", "replying"}
        PROVE  ToolInv'
    <3>1. /\ run' \in [Messages -> MessageRun] /\ run'[m].at = place
          /\ \A n \in Messages \ {m} : run'[n] = run[n]
      <4>1. run' = [run EXCEPT ![m].at = place]
        BY <2>1 DEF Moves
      <4>2. run[m] \in MessageRun
        BY <2>0
      <4>3. [run[m] EXCEPT !.at = place] \in MessageRun
        BY <4>2 DEF MessageRun
      <4> QED
        BY <2>0, <4>1, <4>2, <4>3 DEF MessageRun
    <3>2. ToolUseTypeOK'
      BY <2>0, <2>1, <3>1 DEF ToolUseTypeOK
    <3>3. agentStatus' = "blocked" => FindsStatus
      BY <2>1 DEF ToolInv
    <3>4. InProgress' = {} => agentStatus' \in {"idle", "blocked"}
      BY <2>1, <3>1 DEF InProgress
    <3>5. m \in Unlogged <=> m \in Unlogged'
      BY <2>1, <3>1 DEF Unlogged
    <3>6. Cardinality(Unlogged') = Cardinality(Unlogged)
      BY <3>1, <3>5, UnloggedMoves
    <3> QED
      BY <2>1, <3>1, <3>2, <3>3, <3>4, <3>6 DEF ToolInv, CallsAreAccounted
  <2>2. ASSUME NEW m \in Messages, CallTheModel(m) PROVE ToolInv'
    <3>1. /\ run' \in [Messages -> MessageRun] /\ run'[m].at = "model" /\ run'[m].turn = 1
          /\ \A n \in Messages \ {m} : run'[n] = run[n]
      <4>1. run' = [run EXCEPT ![m].at = "model", ![m].turn = 1]
        BY <2>2 DEF CallTheModel
      <4>2. run[m] \in MessageRun
        BY <2>0
      <4>3. run'[m] = [run[m] EXCEPT !.at = "model", !.turn = 1]
        BY <2>0, <4>1
      <4>4. run'[m] = [at |-> "model", turn |-> 1, calls |-> run[m].calls]
        BY <4>2, <4>3 DEF MessageRun
      <4>5. run'[m] \in MessageRun /\ run'[m].at = "model" /\ run'[m].turn = 1
        BY <4>2, <4>4 DEF MessageRun
      <4> QED
        BY <2>0, <4>1, <4>5
    <3>2. ToolUseTypeOK'
      BY <2>0, <2>2, <3>1 DEF ToolUseTypeOK, CallTheModel
    <3>3. InProgress' # {} /\ m \notin Unlogged /\ m \notin Unlogged'
      BY <2>2, <3>1 DEF InProgress, Unlogged, CallTheModel
    <3>4. Cardinality(Unlogged') = Cardinality(Unlogged)
      BY <3>1, <3>3, UnloggedMoves
    <3>5. agentStatus' = "executing" /\ UNCHANGED <<actions, stats>>
      BY <2>2 DEF CallTheModel
    <3> QED
      BY <3>1, <3>2, <3>3, <3>4, <3>5 DEF ToolInv, CallsAreAccounted
  <2>3. ASSUME NEW m \in Messages, NEW calls \in CallLists, NEW logged \in [ActionPhases -> Nat],
               NEW counted \in [{"calls", "errors", "blocked"} -> Nat],
               run[m].turn \in 1..MaxTurns, WorkThrough(m, calls, logged, counted),
               /\ counted["calls"] + (IF m \in Unlogged THEN 1 ELSE 0)
                    = logged["completed"] + logged["failed"] + Cardinality(Unlogged)
               /\ counted["errors"] = logged["failed"] /\ counted["blocked"] = logged["blocked"]
        PROVE  ToolInv'
    <3>0. ToolUseTypeOK /\ WorkThrough(m, calls, logged, counted) /\ run[m].turn \in 1..MaxTurns
      BY <2>3 DEF ToolInv
    <3>1. /\ ToolUseTypeOK' /\ run'[m].at \in {"tool", "model", "replying"}
          /\ (run'[m].at = "tool" => run'[m].calls # <<>>) /\ run'[m].turn \in 1..MaxTurns
          /\ \A n \in Messages \ {m} : run'[n] = run[n]
          /\ agentStatus' = agentStatus \/ (FindsStatus /\ agentStatus' = "blocked")
      BY <3>0, WorkTyped
    <3>10. CountedSo(m, logged, counted)
      BY <3>0, WorkTyped
    <3>2. PICK k \in Nat :
             /\ actions' = [logged EXCEPT !["blocked"] = @ + k]
             /\ stats' = [counted EXCEPT !["blocked"] = @ + k,
                            !["calls"] = @ + IF run'[m].at = "tool" THEN 1 ELSE 0]
      BY <3>10 DEF CountedSo
    <3>3. InProgress' # {} /\ (m \in Unlogged' <=> run'[m].at = "tool")
      BY <3>1 DEF InProgress, Unlogged
    <3>4. /\ actions'["completed"] = logged["completed"] /\ actions'["failed"] = logged["failed"]
          /\ actions'["blocked"] = logged["blocked"] + k
          /\ stats'["errors"] = counted["errors"] /\ stats'["blocked"] = counted["blocked"] + k
          /\ stats'["calls"] = counted["calls"] + IF run'[m].at = "tool" THEN 1 ELSE 0
      BY <2>3, <3>2 DEF ActionPhases
    <3>5. /\ logged["completed"] \in Nat /\ logged["failed"] \in Nat /\ counted["calls"] \in Nat
      BY <2>3 DEF ActionPhases
    <3>9. Cardinality(Unlogged) \in Nat /\ Cardinality(Unlogged') \in Nat
      BY <3>1, UnloggedMoves
    <3>6. stats'["calls"] = actions'["completed"] + actions'["failed"] + Cardinality(Unlogged')
      <4>1. CASE m \in Unlogged /\ m \in Unlogged'
        <5>1. Cardinality(Unlogged') = Cardinality(Unlogged)
          BY <3>1, <4>1, UnloggedMoves
        <5>2. counted["calls"] + 1 = logged["completed"] + logged["failed"] + Cardinality(Unlogged)
          BY <2>3, <4>1
        <5> QED
          BY <3>3, <3>4, <3>5, <3>9, <4>1, <5>1, <5>2
      <4>2. CASE m \in Unlogged /\ m \notin Unlogged'
        <5>1. Cardinality(Unlogged) = Cardinality(Unlogged') + 1
          BY <3>1, <4>2, UnloggedMoves
        <5>2. counted["calls"] + 1 = logged["completed"] + logged["failed"] + Cardinality(Unlogged)
          BY <2>3, <4>2
        <5> QED
          BY <3>3, <3>4, <3>5, <3>9, <4>2, <5>1, <5>2
      <4>3. CASE m \notin Unlogged /\ m \in Unlogged'
        <5>1. Cardinality(Unlogged') = Cardinality(Unlogged) + 1
          BY <3>1, <4>3, UnloggedMoves
        <5>2. counted["calls"] + 0 = logged["completed"] + logged["failed"] + Cardinality(Unlogged)
          BY <2>3, <4>3
        <5> QED
          BY <3>3, <3>4, <3>5, <3>9, <4>3, <5>1, <5>2
      <4>4. CASE m \notin Unlogged /\ m \notin Unlogged'
        <5>1. Cardinality(Unlogged') = Cardinality(Unlogged)
          BY <3>1, <4>4, UnloggedMoves
        <5>2. counted["calls"] + 0 = logged["completed"] + logged["failed"] + Cardinality(Unlogged)
          BY <2>3, <4>4
        <5> QED
          BY <3>3, <3>4, <3>5, <3>9, <4>4, <5>1, <5>2
      <4> QED
        BY <4>1, <4>2, <4>3, <4>4
    <3>7. agentStatus' = "blocked" => FindsStatus
      BY <3>1 DEF ToolInv
    <3>8. CallsAreAccounted'
      BY <2>3, <3>3, <3>4, <3>6 DEF CallsAreAccounted
    <3> QED
      BY <3>1, <3>7, <3>8 DEF ToolInv
  <2>4. ASSUME NEW m \in Messages, ModelCalls(m) PROVE ToolInv'
    <3>0. PICK n \in 1..MaxCalls :
                \E calls \in [1..n -> Tools] : WorkThrough(m, calls, actions, stats)
      BY <2>4 DEF ModelCalls
    <3>1. PICK calls \in [1..n -> Tools] : WorkThrough(m, calls, actions, stats)
      BY <3>0
    <3>2. calls \in CallLists
      BY DEF CallLists
    <3>3. run[m].turn \in 1..MaxTurns
      BY <2>4 DEF ToolInv, ModelCalls
    <3>4. /\ stats["calls"] + (IF m \in Unlogged THEN 1 ELSE 0)
               = actions["completed"] + actions["failed"] + Cardinality(Unlogged)
          /\ stats["errors"] = actions["failed"] /\ stats["blocked"] = actions["blocked"]
      <4>1. m \notin Unlogged /\ stats["calls"] \in Nat
        BY <2>0, <2>4 DEF ModelCalls, Unlogged
      <4> QED
        BY <4>1 DEF ToolInv, CallsAreAccounted
    <3> QED
      BY <2>0, <2>3, <3>1, <3>2, <3>3, <3>4
  <2>5. ASSUME NEW m \in Messages, NEW ok \in BOOLEAN, HandlerEnds(m, ok) PROVE ToolInv'
    <3> DEFINE logged == [actions EXCEPT ![IF ok THEN "completed" ELSE "failed"] = @ + 1]
    <3>1. run[m].turn \in 1..MaxTurns /\ run[m].calls # <<>>
      BY <2>5 DEF ToolInv, HandlerEnds
    <3>2. Tail(run[m].calls) \in CallLists
      <4>1. run[m].calls \in CallLists
        BY <2>0 DEF MessageRun, CallLists
      <4>2. run[m].calls \in Seq(Tools) /\ Len(run[m].calls) \in 0..MaxCalls
        BY <4>1, CallListsAreSequences
      <4>3. Tail(run[m].calls) \in Seq(Tools) /\ Len(Tail(run[m].calls)) = Len(run[m].calls) - 1
        BY <3>1, <4>2, HeadTailProperties
      <4> DEFINE rest == Tail(run[m].calls)
      <4>4. rest \in [1..Len(rest) -> Tools]
        <5> HIDE DEF rest
        <5>1. rest \in Seq(Tools)
          BY <4>3 DEF rest
        <5> QED
          BY <5>1
      <4>5. Len(Tail(run[m].calls)) \in 0..MaxCalls
        BY <3>1, <4>2, <4>3, EmptySeq
      <4> QED
        BY <4>4, <4>5 DEF CallLists
    <3>3. logged \in [ActionPhases -> Nat]
      BY <2>0 DEF ActionPhases
    <3>4. ErrorCount(ok) \in [{"calls", "errors", "blocked"} -> Nat]
      BY <2>0 DEF ErrorCount
    <3>5. WorkThrough(m, Tail(run[m].calls), logged, ErrorCount(ok))
      BY <2>5 DEF HandlerEnds
    <3>6. /\ ErrorCount(ok)["calls"] + (IF m \in Unlogged THEN 1 ELSE 0)
               = logged["completed"] + logged["failed"] + Cardinality(Unlogged)
          /\ ErrorCount(ok)["errors"] = logged["failed"]
          /\ ErrorCount(ok)["blocked"] = logged["blocked"]
      <4>1. m \in Unlogged
        BY <2>5 DEF HandlerEnds, Unlogged
      <4>2. /\ stats["calls"] = actions["completed"] + actions["failed"] + Cardinality(Unlogged)
            /\ stats["errors"] = actions["failed"] /\ stats["blocked"] = actions["blocked"]
        BY DEF ToolInv, CallsAreAccounted
      <4>3. /\ stats["calls"] \in Nat /\ actions["completed"] \in Nat /\ actions["failed"] \in Nat
            /\ Cardinality(Unlogged) \in Nat
        <5>1. Cardinality(Unlogged) \in Nat
          BY FS_Subset, FS_CardinalityType DEF Unlogged
        <5> QED
          BY <2>0, <5>1 DEF ActionPhases
      <4>4. CASE ok
        <5>1. /\ logged["completed"] = actions["completed"] + 1
              /\ logged["failed"] = actions["failed"] /\ logged["blocked"] = actions["blocked"]
          BY <2>0, <4>4 DEF ActionPhases
        <5>2. ErrorCount(ok) = stats
          BY <4>4 DEF ErrorCount
        <5> HIDE DEF logged
        <5> QED
          BY <4>1, <4>2, <4>3, <5>1, <5>2
      <4>5. CASE ~ok
        <5>1. /\ logged["completed"] = actions["completed"]
              /\ logged["failed"] = actions["failed"] + 1 /\ logged["blocked"] = actions["blocked"]
          BY <2>0, <4>5 DEF ActionPhases
        <5>2. /\ ErrorCount(ok)["calls"] = stats["calls"]
              /\ ErrorCount(ok)["errors"] = stats["errors"] + 1
              /\ ErrorCount(ok)["blocked"] = stats["blocked"]
          BY <2>0, <4>5 DEF ErrorCount
        <5> HIDE DEF logged
        <5> QED
          BY <4>1, <4>2, <4>3, <5>1, <5>2
      <4> QED
        BY <4>4, <4>5
    <3> HIDE DEF logged
    <3> QED
      BY <2>3, <3>1, <3>2, <3>3, <3>4, <3>5, <3>6
  <2>6. ASSUME NEW off \in SUBSET Tools, Switch(off) PROVE ToolInv'
    BY <2>0, <2>6 DEF Switch, ToolInv, ToolUseTypeOK, CallsAreAccounted, InProgress, Unlogged
  <2>7. CASE UNCHANGED toolVars
    BY <2>7 DEF toolVars, ToolInv, ToolUseTypeOK, CallsAreAccounted, InProgress, Unlogged
  <2>8. ASSUME NEW m \in Messages,
               \/ BeginMessage(m) \/ ReplyEarly(m) \/ ModelAnswers(m) \/ SendReply(m) \/ CancelMessage(m)
        PROVE  ToolInv'
    BY <2>0, <2>1, <2>8 DEF BeginMessage, ReplyEarly, ModelAnswers, SendReply, CancelMessage, Ends
  <2>9. ASSUME NEW tool \in Tools, DisableTool(tool) \/ EnableTool(tool) PROVE ToolInv'
    BY <2>0, <2>6, <2>9 DEF DisableTool, EnableTool
  <2>10. ASSUME Lockdown \/ Unlock PROVE ToolInv'
    BY <2>0, <2>6, <2>10 DEF Lockdown, Unlock
  <2> QED
    BY <2>2, <2>4, <2>5, <2>7, <2>8, <2>9, <2>10 DEF ToolUseNext
<1>3. ToolInv => ToolUseTypeOK /\ CallsAreAccounted
  BY DEF ToolInv
<1> QED
  BY <1>1, <1>2, <1>3, PTL DEF ToolUseSpec

-------------------------------------------------------------------------------
(***************************************************************************)
(* The memory store: the copy in memory, the rows and the index             *)
(***************************************************************************)

\* The held there will be when the first k statements of a queue are done
AfterFirst(st, held, k) ==
    {m \in Memories :
        \/ /\ m \in held
           /\ \A j \in 1..k : st[j].entry = m => st[j].do = "insert"
        \/ \E i \in 1..k :
              /\ st[i].entry = m /\ st[i].do = "insert"
              /\ \A j \in i + 1..k : st[j].entry = m => st[j].do = "insert"}

\* What a statement leaves of the held
AfterStatement(s, held) == IF s.do = "insert" THEN held \cup {s.entry} ELSE held \ {s.entry}

Makes(s) == s.next # s.entry
EvictionsTo(st, k) == {i \in 1..k : st[i].next # st[i].entry}
AskedBy(st, by) == {i \in DOMAIN st : st[i].by = by}
MemoryBound == MaxMemories + Writers - 1
Size(st, held, k) == Cardinality(AfterFirst(st, held, k)) + Cardinality(EvictionsTo(st, k))

\* Evictions are the store's or the consolidation's; each of those is waiting for one
\* statement at a time, and with the evictions before it no row count exceeds the limit.
QueueOK(st, held) ==
    /\ st \in Seq(Statement)
    /\ \A i \in DOMAIN st : st[i].next # st[i].entry => st[i].do = "delete" /\ st[i].by # "decay"
    /\ Cardinality(AskedBy(st, "store")) <= Writers - 1
    /\ Cardinality(AskedBy(st, "dream")) <= 1
    /\ \A k \in 0..Len(st) : Size(st, held, k) <= MemoryBound

MemoryInv ==
    /\ MemoryTypeOK
    /\ QueueOK(statements, memoryRows \ undone)
    /\ AfterFirst(statements, memoryRows \ undone, Len(statements)) = Indexed
    /\ Cardinality(memoryRows) <= MemoryBound

\* Sets of positions are finite, and no larger one step further down the queue.
LEMMA PositionsShift ==
    ASSUME NEW n \in Nat, NEW S \in SUBSET (1..n), NEW T \in SUBSET (1..n),
           \A i \in S : i + 1 \in T
    PROVE  /\ IsFiniteSet(S) /\ IsFiniteSet(T)
           /\ Cardinality(S) \in Nat /\ Cardinality(T) \in Nat
           /\ Cardinality(S) <= Cardinality(T)
<1>1. IsFiniteSet(1..n)
  BY FS_Interval
<1>2. IsFiniteSet(S) /\ IsFiniteSet(T)
  BY <1>1, FS_Subset
<1> DEFINE f == [i \in S |-> i + 1]
<1>3. f \in Injection(S, T)
  <2>1. f \in [S -> T]
    OBVIOUS
  <2>2. \A i, j \in S : f[i] = f[j] => i = j
    OBVIOUS
  <2> HIDE DEF f
  <2> QED
    BY <2>1, <2>2 DEF Injection, IsInjective
<1> HIDE DEF f
<1>4. Cardinality(S) <= Cardinality(T)
  BY <1>2, <1>3, FS_Injection
<1> QED
  BY <1>2, <1>4, FS_CardinalityType

\* Whatever may be in the held is finite, and so are the positions of a queue.
LEMMA SizesAreNumbers ==
    ASSUME NEW st \in Seq(Statement), NEW held, NEW k \in 0..Len(st), NEW by
    PROVE  /\ IsFiniteSet(AfterFirst(st, held, k)) /\ IsFiniteSet(EvictionsTo(st, k))
           /\ IsFiniteSet(AskedBy(st, by))
           /\ Cardinality(AfterFirst(st, held, k)) \in Nat
           /\ Cardinality(EvictionsTo(st, k)) \in Nat
           /\ Cardinality(AskedBy(st, by)) \in Nat
<1>1. IsFiniteSet(Memories) /\ AfterFirst(st, held, k) \subseteq Memories
  BY MemoryAssumption DEF AfterFirst
<1>2. IsFiniteSet(1..Len(st)) /\ EvictionsTo(st, k) \subseteq 1..Len(st)
      /\ AskedBy(st, by) \subseteq 1..Len(st)
  <2>1. Len(st) \in Nat /\ DOMAIN st = 1..Len(st) /\ 1..k \subseteq 1..Len(st)
    OBVIOUS
  <2>2. IsFiniteSet(1..Len(st))
    BY <2>1, FS_Interval
  <2>3. EvictionsTo(st, k) \subseteq 1..Len(st)
    BY <2>1 DEF EvictionsTo
  <2>4. AskedBy(st, by) \subseteq 1..Len(st)
    BY <2>1 DEF AskedBy
  <2> QED
    BY <2>2, <2>3, <2>4
<1> QED
  BY <1>1, <1>2, FS_Subset, FS_CardinalityType

\* Queues that begin alike leave the same held.
LEMMA SamePrefix ==
    ASSUME NEW s, NEW t, NEW held, NEW k \in Nat, \A i \in 1..k : s[i] = t[i]
    PROVE  AfterFirst(s, held, k) = AfterFirst(t, held, k) /\ EvictionsTo(s, k) = EvictionsTo(t, k)
<1>1. \A m \in Memories :
         (\A j \in 1..k : s[j].entry = m => s[j].do = "insert")
         <=> (\A j \in 1..k : t[j].entry = m => t[j].do = "insert")
  OBVIOUS
<1>2. \A m \in Memories : \A i \in 1..k :
         (\A j \in i + 1..k : s[j].entry = m => s[j].do = "insert")
         <=> (\A j \in i + 1..k : t[j].entry = m => t[j].do = "insert")
  <2>1. \A i \in 1..k : \A j \in i + 1..k : j \in 1..k
    OBVIOUS
  <2> QED
    BY <2>1
<1> QED
  BY <1>1, <1>2 DEF AfterFirst, EvictionsTo

\* Nothing done changes nothing.
LEMMA NothingDone ==
    ASSUME NEW st, NEW held, held \subseteq Memories
    PROVE  AfterFirst(st, held, 0) = held /\ EvictionsTo(st, 0) = {}
  BY DEF AfterFirst, EvictionsTo

\* What one more statement does
LEMMA OneMore ==
    ASSUME NEW st, NEW held, NEW k \in Nat, NEW s, s = st[k + 1], s.entry \in Memories
    PROVE  AfterFirst(st, held, k + 1) = AfterStatement(s, AfterFirst(st, held, k))
<1> DEFINE Quiet(m, i, n) == \A j \in i..n : st[j].entry = m => st[j].do = "insert"
<1>1. \A m, i : i \in 1..k + 1 =>
         (Quiet(m, i, k + 1) <=> Quiet(m, i, k) /\ (s.entry = m => s.do = "insert"))
  <2> SUFFICES ASSUME NEW m, NEW i \in 1..k + 1
               PROVE  Quiet(m, i, k + 1) <=> Quiet(m, i, k) /\ (s.entry = m => s.do = "insert")
    OBVIOUS
  <2>1. \A j : j \in i..k + 1 <=> j \in i..k \/ j = k + 1
    OBVIOUS
  <2> QED
    BY <2>1
<1>2. \A n : AfterFirst(st, held, n) =
         {m \in Memories : \/ m \in held /\ Quiet(m, 1, n)
                           \/ \E i \in 1..n : /\ st[i].entry = m /\ st[i].do = "insert"
                                              /\ Quiet(m, i + 1, n)}
  BY DEF AfterFirst
<1> HIDE DEF Quiet
<1>3. ASSUME NEW m \in Memories
      PROVE  m \in AfterFirst(st, held, k + 1) <=>
                m \in AfterStatement(s, AfterFirst(st, held, k))
  <2>1. CASE s.entry # m
    <3>1. \A i \in 1..k + 1 : Quiet(m, i, k + 1) <=> Quiet(m, i, k)
      BY <1>1, <2>1
    <3>2. \A i \in 1..k : i + 1 \in 1..k + 1 /\ i \in 1..k + 1
      OBVIOUS
    <3>3. \A i \in 1..k + 1 : i \in 1..k \/ st[i].entry # m
      BY <2>1
    <3>4. (\E i \in 1..k + 1 : st[i].entry = m /\ st[i].do = "insert" /\ Quiet(m, i + 1, k + 1))
          <=> (\E i \in 1..k : st[i].entry = m /\ st[i].do = "insert" /\ Quiet(m, i + 1, k))
      BY <3>1, <3>2, <3>3
    <3>5. 1 \in 1..k + 1
      OBVIOUS
    <3> QED
      BY <1>2, <2>1, <3>1, <3>4, <3>5 DEF AfterStatement
  <2>2. CASE s.entry = m /\ s.do = "insert"
    <3>1. Quiet(m, k + 2, k + 1)
      BY DEF Quiet
    <3>2. k + 1 \in 1..k + 1 /\ st[k + 1].entry = m /\ st[k + 1].do = "insert" /\ k + 1 + 1 = k + 2
      BY <2>2
    <3>3. m \in AfterFirst(st, held, k + 1)
      BY <1>2, <3>1, <3>2
    <3> QED
      BY <2>2, <3>3 DEF AfterStatement
  <2>3. CASE s.entry = m /\ s.do # "insert"
    <3>1. \A i \in 1..k + 1 : ~Quiet(m, i, k + 1)
      BY <1>1, <2>3
    <3>2. ASSUME NEW i \in 1..k + 1, st[i].entry = m, st[i].do = "insert", Quiet(m, i + 1, k + 1)
          PROVE  FALSE
      <4>1. i # k + 1
        BY <2>3, <3>2
      <4>2. i + 1 \in 1..k + 1
        BY <4>1
      <4> QED
        BY <3>1, <3>2, <4>2
    <3>3. m \notin AfterFirst(st, held, k + 1)
      <4>1. 1 \in 1..k + 1
        OBVIOUS
      <4> QED
        BY <1>2, <3>1, <3>2, <4>1
    <3> QED
      BY <2>3, <3>3 DEF AfterStatement
  <2> QED
    BY <2>1, <2>2, <2>3
<1>4. AfterFirst(st, held, k) \subseteq Memories /\ AfterFirst(st, held, k + 1) \subseteq Memories
  BY DEF AfterFirst
<1>5. AfterStatement(s, AfterFirst(st, held, k)) \subseteq Memories
  BY <1>4 DEF AfterStatement
<1> QED
  BY <1>3, <1>4, <1>5

\* The rest of a queue, on the held its head leaves, is the queue.
LEMMA RestIsQueue ==
    ASSUME NEW st \in Seq(Statement), NEW held, held \subseteq Memories, st # <<>>
    PROVE  \A k \in 0..Len(st) - 1 :
              AfterFirst(Tail(st), AfterStatement(Head(st), held), k) = AfterFirst(st, held, k + 1)
<1> DEFINE first == AfterStatement(Head(st), held)
           P(k) == k < Len(st) =>
                      AfterFirst(Tail(st), first, k) = AfterFirst(st, held, k + 1)
<1>1. /\ Len(st) \in Nat \ {0} /\ Head(st) = st[1] /\ Head(st) \in Statement
      /\ \A i \in 1..Len(st) - 1 : Tail(st)[i] = st[i + 1]
      /\ \A i \in 1..Len(st) : st[i] \in Statement
  BY HeadTailProperties
<1>2. first \subseteq Memories /\ Head(st).entry \in Memories
  BY <1>1 DEF AfterStatement, Statement
<1> HIDE DEF first
<1>3. P(0)
  <2>1. AfterFirst(Tail(st), first, 0) = first /\ AfterFirst(st, held, 0) = held
    BY <1>2, NothingDone
  <2>2. AfterFirst(st, held, 0 + 1) = AfterStatement(Head(st), AfterFirst(st, held, 0))
    BY <1>1, <1>2, OneMore
  <2> QED
    BY <2>1, <2>2 DEF first
<1>4. ASSUME NEW k \in Nat, P(k)
      PROVE  P(k + 1)
  <2> SUFFICES ASSUME k + 1 < Len(st)
               PROVE  AfterFirst(Tail(st), first, k + 1) = AfterFirst(st, held, k + 1 + 1)
    OBVIOUS
  <2> DEFINE s == st[k + 2]
  <2>1. s = Tail(st)[k + 1] /\ s = st[(k + 1) + 1] /\ s \in Statement /\ s.entry \in Memories
    BY <1>1 DEF Statement
  <2> HIDE DEF s
  <2>2. AfterFirst(Tail(st), first, k + 1) = AfterStatement(s, AfterFirst(Tail(st), first, k))
    BY <2>1, OneMore
  <2>3. AfterFirst(st, held, k + 1 + 1) = AfterStatement(s, AfterFirst(st, held, k + 1))
    BY <2>1, OneMore
  <2> QED
    BY <1>1, <1>4, <2>2, <2>3
<1> HIDE DEF P
<1>5. \A k \in Nat : P(k)
  <2> SUFFICES ASSUME {k \in Nat : ~P(k)} # {}
               PROVE  FALSE
    OBVIOUS
  <2> DEFINE wrong == {k \in Nat : ~P(k)}
  <2>1. PICK n \in wrong : \A k \in wrong : n <= k
    <3> HIDE DEF wrong
    <3>1. wrong \subseteq Nat /\ wrong # {}
      BY DEF wrong
    <3> QED
      BY <3>1, LeastNumber
  <2>2. n # 0 /\ n - 1 \in Nat /\ n - 1 \notin wrong
    BY <1>3, <2>1
  <2>3. P(n - 1)
    BY <2>2
  <2>4. P((n - 1) + 1) /\ (n - 1) + 1 = n
    BY <1>4, <2>2, <2>3
  <2> QED
    BY <2>1, <2>4
<1> QED
  BY <1>1, <1>5 DEF P, first

\* Making one statement the last of a queue
LEMMA OneQueued ==
    ASSUME NEW st \in Seq(Statement), NEW held, QueueOK(st, held), held \subseteq Memories,
           NEW s \in Statement, Makes(s) => s.do = "delete" /\ s.by # "decay",
           s.by = "store" => Cardinality(AskedBy(st, "store")) < Writers - 1,
           s.by = "dream" => Cardinality(AskedBy(st, "dream")) = 0,
           NEW after, after = AfterStatement(s, AfterFirst(st, held, Len(st))),
           Cardinality(after) + Cardinality(EvictionsTo(st, Len(st)))
               + (IF Makes(s) THEN 1 ELSE 0) <= MemoryBound
    PROVE  /\ QueueOK(Append(st, s), held)
           /\ AfterFirst(Append(st, s), held, Len(Append(st, s))) = after
<1> DEFINE n == Len(st)
           t == Append(st, s)
<1>1. /\ n \in Nat /\ t \in Seq(Statement) /\ Len(t) = n + 1 /\ DOMAIN t = 1..n + 1 /\ DOMAIN st = 1..n
      /\ t[n + 1] = s /\ \A i \in 1..n : t[i] = st[i]
  OBVIOUS
<1> HIDE DEF n, t
<1>2. \A k \in 0..n : /\ AfterFirst(t, held, k) = AfterFirst(st, held, k)
                      /\ EvictionsTo(t, k) = EvictionsTo(st, k)
  <2> SUFFICES ASSUME NEW k \in 0..n
               PROVE  /\ AfterFirst(t, held, k) = AfterFirst(st, held, k)
                      /\ EvictionsTo(t, k) = EvictionsTo(st, k)
    OBVIOUS
  <2>1. k \in Nat /\ \A i \in 1..k : t[i] = st[i]
    BY <1>1
  <2> QED
    BY <2>1, SamePrefix
<1>3. AfterFirst(t, held, n + 1) = after
  <2>1. s.entry \in Memories
    BY DEF Statement
  <2>2. AfterFirst(t, held, n + 1) = AfterStatement(s, AfterFirst(t, held, n))
    BY <1>1, <2>1, OneMore
  <2>3. n \in 0..n
    BY <1>1
  <2> QED
    BY <1>2, <2>2, <2>3 DEF n
<1>4. EvictionsTo(t, n + 1) = IF Makes(s) THEN EvictionsTo(st, n) \cup {n + 1} ELSE EvictionsTo(st, n)
  BY <1>1 DEF EvictionsTo, Makes
<1>5. \A by : AskedBy(t, by) = IF s.by = by THEN AskedBy(st, by) \cup {n + 1} ELSE AskedBy(st, by)
  BY <1>1 DEF AskedBy
<1>6. n + 1 \notin EvictionsTo(st, n) /\ \A by : n + 1 \notin AskedBy(st, by)
  BY <1>1 DEF EvictionsTo, AskedBy
<1>7. IsFiniteSet(EvictionsTo(st, n)) /\ Cardinality(EvictionsTo(st, n)) \in Nat
  BY <1>1, SizesAreNumbers DEF n
<1>8. \A by : IsFiniteSet(AskedBy(st, by)) /\ Cardinality(AskedBy(st, by)) \in Nat
  <2>1. 0 \in 0..Len(st)
    BY <1>1 DEF n
  <2> QED
    BY <2>1, SizesAreNumbers
<1>9. Cardinality(EvictionsTo(t, n + 1)) =
         Cardinality(EvictionsTo(st, n)) + (IF Makes(s) THEN 1 ELSE 0)
  <2>1. CASE Makes(s)
    <3>1. EvictionsTo(t, n + 1) = EvictionsTo(st, n) \cup {n + 1}
      BY <1>4, <2>1
    <3> QED
      BY <1>6, <1>7, <2>1, <3>1, FS_AddElement
  <2>2. CASE ~Makes(s)
    BY <1>4, <1>7, <2>2
  <2> QED
    BY <2>1, <2>2
<1>10. \A by : Cardinality(AskedBy(t, by)) =
         Cardinality(AskedBy(st, by)) + (IF s.by = by THEN 1 ELSE 0)
  <2> SUFFICES ASSUME NEW by
               PROVE  Cardinality(AskedBy(t, by)) =
                         Cardinality(AskedBy(st, by)) + (IF s.by = by THEN 1 ELSE 0)
    OBVIOUS
  <2>1. CASE s.by = by
    <3>1. AskedBy(t, by) = AskedBy(st, by) \cup {n + 1}
      BY <1>5, <2>1
    <3>2. Cardinality(AskedBy(t, by)) = Cardinality(AskedBy(st, by)) + 1
      BY <1>6, <1>8, <3>1, FS_AddElement
    <3> QED
      BY <2>1, <3>2
  <2>2. CASE s.by # by
    BY <1>5, <1>8, <2>2
  <2> QED
    BY <2>1, <2>2
<1>11. Writers \in Nat /\ MemoryBound \in Int
  BY MemoryAssumption DEF MemoryBound
<1>12. \A k \in 0..n + 1 : Size(t, held, k) <= MemoryBound
  <2>1. ASSUME NEW k \in 0..n PROVE Size(t, held, k) <= MemoryBound
    BY <1>1, <1>2 DEF QueueOK, Size, n
  <2>2. Size(t, held, n + 1) <= MemoryBound
    <3>1. Cardinality(after) \in Nat
      <4>1. after \subseteq Memories
        BY DEF AfterFirst, AfterStatement, Statement
      <4> QED
        BY <4>1, MemoryAssumption, FS_Subset, FS_CardinalityType
    <3> QED
      BY <1>3, <1>7, <1>9, <1>11, <3>1 DEF Size, n
  <2>3. \A k \in 0..n + 1 : k \in 0..n \/ k = n + 1
    BY <1>1
  <2> QED
    BY <2>1, <2>2, <2>3
<1>13. \A i \in DOMAIN t : t[i].next # t[i].entry => t[i].do = "delete" /\ t[i].by # "decay"
  <2>1. \A i \in 1..n + 1 : i \in 1..n \/ i = n + 1
    BY <1>1
  <2> QED
    BY <1>1, <2>1 DEF QueueOK, Makes
<1>14. Cardinality(AskedBy(t, "store")) <= Writers - 1 /\ Cardinality(AskedBy(t, "dream")) <= 1
  <2>1. s.by = "store" \/ s.by # "store"
    OBVIOUS
  <2>2. Cardinality(AskedBy(st, "store")) <= Writers - 1 /\ Cardinality(AskedBy(st, "dream")) <= 1
    BY DEF QueueOK
  <2>3. Cardinality(AskedBy(t, "store")) = Cardinality(AskedBy(st, "store")) + (IF s.by = "store" THEN 1 ELSE 0)
        /\ Cardinality(AskedBy(t, "dream")) = Cardinality(AskedBy(st, "dream")) + (IF s.by = "dream" THEN 1 ELSE 0)
    BY <1>10
  <2>4. Cardinality(AskedBy(st, "store")) \in Nat /\ Cardinality(AskedBy(st, "dream")) \in Nat
    BY <1>8
  <2>5. Cardinality(AskedBy(t, "store")) <= Writers - 1
    BY <1>11, <2>2, <2>3, <2>4
  <2>6. Cardinality(AskedBy(t, "dream")) <= 1
    BY <2>2, <2>3, <2>4
  <2> QED
    BY <2>5, <2>6
<1> QED
  BY <1>1, <1>3, <1>12, <1>13, <1>14 DEF QueueOK, t

\* Taking the head of a queue
LEMMA Popped ==
    ASSUME NEW st \in Seq(Statement), NEW held, QueueOK(st, held), held \subseteq Memories,
           st # <<>>, NEW first, first = AfterStatement(Head(st), held)
    PROVE  /\ QueueOK(Tail(st), first) /\ Len(Tail(st)) = Len(st) - 1 /\ Len(st) \in Nat \ {0}
           /\ AfterFirst(Tail(st), first, Len(st) - 1) = AfterFirst(st, held, Len(st))
           /\ Cardinality(EvictionsTo(Tail(st), Len(st) - 1)) + (IF Makes(Head(st)) THEN 1 ELSE 0)
                  <= Cardinality(EvictionsTo(st, Len(st)))
           /\ \A by : Cardinality(AskedBy(Tail(st), by)) + (IF Head(st).by = by THEN 1 ELSE 0)
                  <= Cardinality(AskedBy(st, by))
<1> DEFINE n == Len(st)
           t == Tail(st)
<1>1. /\ n \in Nat \ {0} /\ st[1] = Head(st) /\ Head(st) \in Statement
      /\ t \in Seq(Statement) /\ Len(t) = n - 1
      /\ DOMAIN t = 1..n - 1 /\ DOMAIN st = 1..n
      /\ \A i \in 1..n - 1 : t[i] = st[i + 1]
  BY HeadTailProperties
<1>2. \A k \in 0..n - 1 : AfterFirst(t, first, k) = AfterFirst(st, held, k + 1)
  BY RestIsQueue
<1> HIDE DEF n, t
<1>3. ASSUME NEW k \in 0..n - 1
      PROVE  /\ Cardinality(EvictionsTo(t, k)) \in Nat /\ Cardinality(EvictionsTo(st, k + 1)) \in Nat
             /\ Cardinality(EvictionsTo(t, k)) + (IF Makes(Head(st)) THEN 1 ELSE 0)
                  <= Cardinality(EvictionsTo(st, k + 1))
  <2> DEFINE S == EvictionsTo(t, k)
             T == EvictionsTo(st, k + 1) \ {1}
  <2>1. S \subseteq 1..n /\ T \subseteq 1..n /\ \A i \in S : i + 1 \in T
    BY <1>1 DEF EvictionsTo
  <2>2. IsFiniteSet(T) /\ Cardinality(S) \in Nat /\ Cardinality(T) \in Nat /\ Cardinality(S) <= Cardinality(T)
    <3> HIDE DEF S, T
    <3> QED BY <1>1, <2>1, PositionsShift
  <2>3. EvictionsTo(st, k + 1) = IF Makes(Head(st)) THEN T \cup {1} ELSE T
    BY <1>1 DEF EvictionsTo, Makes
  <2>4. Cardinality(EvictionsTo(st, k + 1)) = Cardinality(T) + (IF Makes(Head(st)) THEN 1 ELSE 0)
    <3>1. 1 \notin T
      OBVIOUS
    <3>2. CASE Makes(Head(st))
      <4>1. EvictionsTo(st, k + 1) = T \cup {1}
        BY <2>3, <3>2
      <4> HIDE DEF T
      <4> QED BY <2>2, <3>1, <3>2, <4>1, FS_AddElement
    <3>3. CASE ~(Makes(Head(st)))
      <4> HIDE DEF T
      <4> QED BY <2>2, <2>3, <3>3
    <3> QED
      BY <3>2, <3>3
  <2> HIDE DEF T
  <2> QED
    BY <2>2, <2>4
<1>4. ASSUME NEW by
      PROVE  /\ Cardinality(AskedBy(t, by)) \in Nat /\ Cardinality(AskedBy(st, by)) \in Nat
             /\ Cardinality(AskedBy(t, by)) + (IF Head(st).by = by THEN 1 ELSE 0)
                  <= Cardinality(AskedBy(st, by))
  <2> DEFINE S == AskedBy(t, by)
             T == AskedBy(st, by) \ {1}
  <2>1. S \subseteq 1..n /\ T \subseteq 1..n /\ \A i \in S : i + 1 \in T
    BY <1>1 DEF AskedBy
  <2>2. IsFiniteSet(T) /\ Cardinality(S) \in Nat /\ Cardinality(T) \in Nat /\ Cardinality(S) <= Cardinality(T)
    <3> HIDE DEF S, T
    <3> QED BY <1>1, <2>1, PositionsShift
  <2>3. AskedBy(st, by) = IF Head(st).by = by THEN T \cup {1} ELSE T
    BY <1>1 DEF AskedBy
  <2>4. Cardinality(AskedBy(st, by)) = Cardinality(T) + (IF Head(st).by = by THEN 1 ELSE 0)
    <3>1. 1 \notin T
      OBVIOUS
    <3>2. CASE Head(st).by = by
      <4>1. AskedBy(st, by) = T \cup {1}
        BY <2>3, <3>2
      <4> HIDE DEF T
      <4> QED BY <2>2, <3>1, <3>2, <4>1, FS_AddElement
    <3>3. CASE ~(Head(st).by = by)
      <4> HIDE DEF T
      <4> QED BY <2>2, <2>3, <3>3
    <3> QED
      BY <3>2, <3>3
  <2> HIDE DEF T
  <2> QED
    BY <2>2, <2>4
<1>5. QueueOK(t, first)
  <2>1. \A i \in DOMAIN t : t[i].next # t[i].entry => t[i].do = "delete" /\ t[i].by # "decay"
    <3>1. \A i \in 1..n - 1 : i + 1 \in 1..n
      BY <1>1
    <3> QED
      BY <1>1, <3>1 DEF QueueOK
  <2>2. Cardinality(AskedBy(t, "store")) <= Writers - 1
    <3>1. Cardinality(AskedBy(st, "store")) <= Writers - 1
      BY DEF QueueOK
    <3> QED
      BY <1>4, <3>1, MemoryAssumption
  <2>3. Cardinality(AskedBy(t, "dream")) <= 1
    <3>1. Cardinality(AskedBy(st, "dream")) <= 1
      BY DEF QueueOK
    <3> QED
      BY <1>4, <3>1
  <2>4. ASSUME NEW k \in 0..n - 1 PROVE Size(t, first, k) <= MemoryBound
    <3>1. k + 1 \in 0..Len(st)
      BY <1>1 DEF n
    <3>2. Cardinality(AfterFirst(st, held, k + 1)) \in Nat
      BY <3>1, SizesAreNumbers
    <3>3. Cardinality(AfterFirst(st, held, k + 1)) + Cardinality(EvictionsTo(st, k + 1)) <= MemoryBound
      BY <3>1 DEF QueueOK, Size
    <3>4. MemoryBound \in Int
      BY MemoryAssumption DEF MemoryBound
    <3>5. Size(t, first, k) = Cardinality(AfterFirst(st, held, k + 1)) + Cardinality(EvictionsTo(t, k))
      BY <1>2 DEF Size
    <3> QED
      BY <1>3, <3>2, <3>3, <3>4, <3>5
  <2> QED
    BY <1>1, <2>1, <2>2, <2>3, <2>4 DEF QueueOK
<1>6. n - 1 \in 0..n - 1 /\ n - 1 + 1 = n
  BY <1>1
<1>7. AfterFirst(t, first, n - 1) = AfterFirst(st, held, n)
  BY <1>2, <1>6
<1>8. Cardinality(EvictionsTo(t, n - 1)) + (IF Makes(Head(st)) THEN 1 ELSE 0)
                  <= Cardinality(EvictionsTo(st, n))
  BY <1>3, <1>6
<1> QED
  BY <1>1, <1>4, <1>5, <1>7, <1>8 DEF n, t

-----------------------------------------------------------------------------
\* The entries an invariant needs to know of an index, and its new entry's place
LEMMA IndexShapes ==
    ASSUME MemoryTypeOK, NEW m \in Memories
    PROVE  /\ With(m) \in [Indexed \cup {m} -> 0..FullDecay] /\ DOMAIN With(m) = Indexed \cup {m}
           /\ Without(m) \in [Indexed \ {m} -> 0..FullDecay] /\ DOMAIN Without(m) = Indexed \ {m}
  BY MemoryAssumption DEF MemoryTypeOK, With, Without, Indexed

\* Reading an entry moves its decay within its bounds.
LEMMA ReinforcedShape ==
    ASSUME MemoryTypeOK, NEW entries
    PROVE  /\ Reinforced(entries) \in [Indexed -> 0..FullDecay]
           /\ DOMAIN Reinforced(entries) = Indexed
  BY MemoryAssumption DEF MemoryTypeOK, Reinforced, AtMostFull, Indexed

\* Indexed is finite.
LEMMA IndexIsFinite ==
    ASSUME MemoryTypeOK
    PROVE  /\ IsFiniteSet(Indexed) /\ Cardinality(Indexed) \in Nat
           /\ \A m : /\ Cardinality(Indexed \cup {m}) \in Nat
                     /\ Cardinality(Indexed \cup {m}) <= Cardinality(Indexed) + 1
                     /\ Cardinality(Indexed \ {m}) \in Nat
                     /\ Cardinality(Indexed \ {m}) <= Cardinality(Indexed)
                     /\ m \in Indexed => Cardinality(Indexed \ {m}) = Cardinality(Indexed) - 1
<1>1. IsFiniteSet(Indexed) /\ Cardinality(Indexed) \in Nat
  BY MemoryAssumption, FS_Subset, FS_CardinalityType DEF MemoryTypeOK
<1>2. ASSUME NEW m
      PROVE  /\ Cardinality(Indexed \cup {m}) \in Nat
             /\ Cardinality(Indexed \cup {m}) <= Cardinality(Indexed) + 1
             /\ Cardinality(Indexed \ {m}) \in Nat
             /\ Cardinality(Indexed \ {m}) <= Cardinality(Indexed)
             /\ m \in Indexed => Cardinality(Indexed \ {m}) = Cardinality(Indexed) - 1
  <2>1. IsFiniteSet(Indexed \cup {m})
        /\ Cardinality(Indexed \cup {m}) = IF m \in Indexed THEN Cardinality(Indexed) ELSE Cardinality(Indexed) + 1
    BY <1>1, FS_AddElement
  <2>2. IsFiniteSet(Indexed \ {m})
        /\ Cardinality(Indexed \ {m}) = IF m \in Indexed THEN Cardinality(Indexed) - 1 ELSE Cardinality(Indexed)
    BY <1>1, FS_RemoveElement
  <2>3. Cardinality(Indexed \ {m}) \in Nat
    BY <2>2, FS_CardinalityType
  <2> QED
    BY <1>1, <2>1, <2>2, <2>3
<1> QED
  BY <1>1, <1>2

\* The number of evictions in a queue is no more than the stores and the consolidation's
\* statements in it.
LEMMA EvictionsAreAsked ==
    ASSUME NEW st \in Seq(Statement), NEW held, QueueOK(st, held)
    PROVE  /\ Cardinality(EvictionsTo(st, Len(st)))
                <= Cardinality(AskedBy(st, "store")) + Cardinality(AskedBy(st, "dream"))
           /\ Cardinality(EvictionsTo(st, Len(st))) \in Nat
           /\ Cardinality(AskedBy(st, "store")) \in Nat /\ Cardinality(AskedBy(st, "dream")) \in Nat
<1> DEFINE S == AskedBy(st, "store")
           D == AskedBy(st, "dream")
           E == EvictionsTo(st, Len(st))
<1>1. Len(st) \in Nat /\ DOMAIN st = 1..Len(st) /\ \A i \in 1..Len(st) : st[i] \in Statement
  OBVIOUS
<1>2. E \subseteq S \cup D
  BY <1>1 DEF QueueOK, EvictionsTo, AskedBy, Statement
<1>3. Len(st) \in 0..Len(st)
  BY <1>1
<1>4. /\ IsFiniteSet(S) /\ IsFiniteSet(D) /\ Cardinality(S) \in Nat /\ Cardinality(D) \in Nat
      /\ IsFiniteSet(E) /\ Cardinality(E) \in Nat
  BY <1>3, SizesAreNumbers
<1> HIDE DEF S, D, E
<1>5. /\ IsFiniteSet(S \cup D)
      /\ Cardinality(S \cup D) = Cardinality(S) + Cardinality(D) - Cardinality(S \cap D)
  BY <1>4, FS_Union
<1>6. Cardinality(S \cap D) \in Nat
  BY <1>4, FS_Intersection, FS_CardinalityType
<1>7. Cardinality(E) <= Cardinality(S \cup D)
  BY <1>2, <1>5, FS_Subset
<1>8. Cardinality(S \cup D) \in Nat
  BY <1>5, FS_CardinalityType
<1> QED
  BY <1>4, <1>5, <1>6, <1>7, <1>8 DEF S, D, E

\* What the invariant says of the queue as it stands
LEMMA NowFits ==
    ASSUME MemoryInv
    PROVE  /\ Cardinality(Indexed) + Cardinality(EvictionsTo(statements, Len(statements))) <= MemoryBound
           /\ EvictionsTo(statements, Len(statements)) = Evicting
           /\ Cardinality(EvictionsTo(statements, Len(statements))) \in Nat
           /\ statements \in Seq(Statement) /\ memoryRows \ undone \subseteq Memories
<1>1. statements \in Seq(Statement)
  BY DEF MemoryInv, MemoryTypeOK
<1>2. Len(statements) \in 0..Len(statements) /\ DOMAIN statements = 1..Len(statements)
  BY <1>1
<1>3. Cardinality(EvictionsTo(statements, Len(statements))) \in Nat
  BY <1>1, <1>2, SizesAreNumbers
<1> QED
  BY <1>1, <1>2, <1>3 DEF MemoryInv, QueueOK, Size, MemoryTypeOK, EvictionsTo, Evicting

\* A step that asks for one statement more keeps the invariant when the index changes the
\* way the statement will change the held, and there is room for both.
LEMMA WhatIsAsked ==
    ASSUME MemoryInv, NEW s \in Statement, Makes(s) => s.do = "delete" /\ s.by # "decay",
           s.by = "store" => Cardinality(AskedBy(statements, "store")) < Writers - 1,
           s.by = "dream" => Cardinality(AskedBy(statements, "dream")) = 0,
           statements' = Append(statements, s),
           Indexed' = AfterStatement(s, Indexed), MemoryTypeOK',
           Cardinality(Indexed') + Cardinality(Evicting) + (IF Makes(s) THEN 1 ELSE 0) <= MemoryBound,
           UNCHANGED <<memoryRows, undone>>
    PROVE  MemoryInv'
<1> DEFINE held == memoryRows \ undone
<1>1. /\ statements \in Seq(Statement) /\ held \subseteq Memories
      /\ EvictionsTo(statements, Len(statements)) = Evicting
  BY NowFits
<1>2. QueueOK(statements, held) /\ AfterFirst(statements, held, Len(statements)) = Indexed
  BY DEF MemoryInv
<1>3. held' = held
  OBVIOUS
<1> DEFINE after == Indexed'
<1> HIDE DEF held
<1>4. /\ QueueOK(Append(statements, s), held)
      /\ AfterFirst(Append(statements, s), held, Len(Append(statements, s))) = after
  <2>1. after = AfterStatement(s, AfterFirst(statements, held, Len(statements)))
    BY <1>2
  <2>2. Cardinality(after) + Cardinality(EvictionsTo(statements, Len(statements)))
           + (IF Makes(s) THEN 1 ELSE 0) <= MemoryBound
    BY <1>1
  <2> HIDE DEF after
  <2> QED
    BY <1>1, <1>2, <2>1, <2>2, OneQueued
<1>5. QueueOK(statements', held') /\ AfterFirst(statements', held', Len(statements')) = Indexed'
  BY <1>3, <1>4
<1>6. Cardinality(memoryRows') <= MemoryBound
  BY DEF MemoryInv
<1>7. /\ QueueOK(statements, memoryRows \ undone)'
      /\ (AfterFirst(statements, memoryRows \ undone, Len(statements)) = Indexed)'
      /\ (Cardinality(memoryRows) <= MemoryBound)'
  BY <1>5, <1>6 DEF held, QueueOK, Size, AfterFirst, EvictionsTo, AskedBy, MemoryBound
<1> QED
  BY <1>7 DEF MemoryInv

\* A step that leaves the queue and the held alone keeps the invariant if the index keeps
\* its entries.
LEMMA SameIndexKeeps ==
    ASSUME MemoryInv, UNCHANGED <<memoryRows, undone, statements>>, Indexed' = Indexed, MemoryTypeOK'
    PROVE  MemoryInv'
  BY DEF MemoryInv, QueueOK, Size, AfterFirst, EvictionsTo, AskedBy, MemoryBound

\* A store that begins, the consolidation's own among them
LEMMA RememberKeeps ==
    ASSUME MemoryInv, NEW m \in Memories, NEW by \in {"store", "dream"}, Remembers(m, by),
           by = "store" => Cardinality(AskedBy(statements, "store")) < Writers - 1,
           by = "dream" => Cardinality(AskedBy(statements, "dream")) = 0,
           UNCHANGED <<memoryRows, undone, dying>>,
           dream' \in [phase : {"off", "extracting", "deduplicating"}, left : SUBSET Memories,
                       seen : SUBSET Memories]
    PROVE  MemoryInv'
<1>1. MemoryTypeOK /\ statements \in Seq(Statement)
  BY DEF MemoryInv, MemoryTypeOK
<1>2. /\ Cardinality(Indexed) + Cardinality(Evicting) <= MemoryBound /\ Cardinality(Evicting) \in Nat
  BY NowFits
<1>3. MemoryBound \in Int /\ MaxMemories \in Nat /\ Writers \in Nat /\ MemoryBound = MaxMemories + Writers - 1
  BY MemoryAssumption DEF MemoryBound
<1>4. used' \subseteq Memories
  BY <1>1 DEF Remembers, MemoryTypeOK
<1>5. CASE AtCapacity /\ \E w \in Worst :
                /\ index' = Without(w)
                /\ statements' = Append(statements, Asks("delete", w, m, by))
  <2>1. PICK w \in Worst : /\ index' = Without(w)
                           /\ statements' = Append(statements, Asks("delete", w, m, by))
    BY <1>5
  <2> DEFINE s == Asks("delete", w, m, by)
  <2>2. w \in Indexed /\ w \in Memories
    BY <1>1 DEF Worst, MemoryTypeOK
  <2>3. /\ s \in Statement /\ s.do = "delete" /\ s.by = by /\ s.entry = w
        /\ Makes(s) => s.do = "delete" /\ s.by # "decay"
    BY <2>2 DEF Asks, Statement, Makes
  <2> HIDE DEF s
  <2>4. Indexed' = Indexed \ {w} /\ index' \in [Indexed' -> 0..FullDecay]
    BY <1>1, <2>1, <2>2, IndexShapes DEF Indexed
  <2>5. Indexed' = AfterStatement(s, Indexed)
    BY <2>3, <2>4 DEF AfterStatement
  <2>6. Cardinality(Indexed') + Cardinality(Evicting) + (IF Makes(s) THEN 1 ELSE 0) <= MemoryBound
    BY <1>1, <1>2, <1>3, <2>2, <2>4, IndexIsFinite
  <2>7. statements' = Append(statements, s)
    BY <2>1 DEF s
  <2>8. statements' \in Seq(Statement)
    BY <1>1, <2>3, <2>7
  <2>9. MemoryTypeOK'
    BY <1>1, <1>4, <2>4, <2>8 DEF MemoryTypeOK
  <2> QED
    BY <2>3, <2>5, <2>6, <2>7, <2>9, WhatIsAsked
<1>6. CASE /\ ~AtCapacity /\ index' = With(m)
           /\ statements' = Append(statements, Asks("insert", m, m, by))
  <2> DEFINE s == Asks("insert", m, m, by)
  <2>3. /\ s \in Statement /\ s.do = "insert" /\ s.by = by /\ s.entry = m /\ ~Makes(s)
    BY DEF Asks, Statement, Makes
  <2> HIDE DEF s
  <2>4. Indexed' = Indexed \cup {m} /\ index' \in [Indexed' -> 0..FullDecay]
    BY <1>1, <1>6, IndexShapes DEF Indexed
  <2>5. Indexed' = AfterStatement(s, Indexed)
    BY <2>3, <2>4 DEF AfterStatement
  <2>6. Cardinality(Indexed') + Cardinality(Evicting) <= MemoryBound
    <3>0. /\ Cardinality(Indexed) \in Nat /\ Cardinality(Indexed \cup {m}) \in Nat
          /\ Cardinality(Indexed \cup {m}) <= Cardinality(Indexed) + 1
      BY <1>1, IndexIsFinite
    <3>1. Cardinality(Indexed) < MaxMemories
      BY <1>3, <1>6, <3>0 DEF AtCapacity
    <3>2. Cardinality(Indexed') \in Nat /\ Cardinality(Indexed') <= MaxMemories
      BY <1>3, <2>4, <3>0, <3>1
    <3>3. QueueOK(statements, memoryRows \ undone)
      BY DEF MemoryInv
    <3>4. /\ Cardinality(Evicting)
                <= Cardinality(AskedBy(statements, "store")) + Cardinality(AskedBy(statements, "dream"))
          /\ Cardinality(AskedBy(statements, "store")) \in Nat
          /\ Cardinality(AskedBy(statements, "dream")) \in Nat
      BY <1>1, <3>3, EvictionsAreAsked, NowFits
    <3>5. Cardinality(AskedBy(statements, "store")) <= Writers - 1
          /\ Cardinality(AskedBy(statements, "dream")) <= 1
      BY <3>3 DEF QueueOK
    <3>6. by = "store" \/ by = "dream"
      OBVIOUS
    <3>7. Cardinality(AskedBy(statements, "store")) + Cardinality(AskedBy(statements, "dream")) <= Writers - 1
      BY <1>3, <3>4, <3>5, <3>6
    <3> QED
      BY <1>2, <1>3, <3>2, <3>4, <3>7
  <2>7. statements' = Append(statements, s)
    BY <1>6 DEF s
  <2>8. statements' \in Seq(Statement)
    BY <1>1, <2>3, <2>7
  <2>9. MemoryTypeOK'
    BY <1>1, <1>4, <2>4, <2>8 DEF MemoryTypeOK
  <2>10. Cardinality(Indexed') + Cardinality(Evicting) + (IF Makes(s) THEN 1 ELSE 0) <= MemoryBound
    <3>1. Cardinality(Indexed') \in Nat
      BY <1>1, <2>4, IndexIsFinite
    <3> QED
      BY <1>2, <2>3, <2>6, <3>1
  <2> QED
    BY <2>3, <2>5, <2>10, <2>7, <2>9, WhatIsAsked
<1> QED
  BY <1>5, <1>6 DEF Remembers

\* Nothing asked, nothing counted
LEMMA NoneAsked ==
    ASSUME NEW by, ~Waits(by)
    PROVE  Cardinality(AskedBy(statements, by)) = 0
<1>1. AskedBy(statements, by) = {}
  BY DEF Waits, AskedBy
<1> QED
  BY <1>1, FS_EmptySet

\* A deletion
LEMMA DeleteKeeps ==
    ASSUME MemoryInv, NEW m \in Memories, NEW by \in {"decay", "dream"}, Deletes(m, by),
           ~Waits(by), UNCHANGED <<memoryRows, undone, used>>, dying' \subseteq Memories,
           dream' \in [phase : {"off", "extracting", "deduplicating"}, left : SUBSET Memories,
                       seen : SUBSET Memories]
    PROVE  MemoryInv'
<1>1. MemoryTypeOK /\ statements \in Seq(Statement)
  BY DEF MemoryInv, MemoryTypeOK
<1>2. CASE m \in Indexed
  <2>1. index' = Without(m) /\ statements' = Append(statements, Asks("delete", m, m, by))
    BY <1>2 DEF Deletes
  <2> DEFINE s == Asks("delete", m, m, by)
  <2>2. /\ s \in Statement /\ s.do = "delete" /\ s.by = by /\ s.entry = m /\ ~Makes(s)
    BY DEF Asks, Statement, Makes
  <2> HIDE DEF s
  <2>3. Indexed' = Indexed \ {m} /\ index' \in [Indexed' -> 0..FullDecay]
    BY <1>1, <2>1, IndexShapes DEF Indexed
  <2>4. Indexed' = AfterStatement(s, Indexed)
    BY <2>2, <2>3 DEF AfterStatement
  <2>5. Cardinality(Indexed') + Cardinality(Evicting) + (IF Makes(s) THEN 1 ELSE 0) <= MemoryBound
    <3>1. Cardinality(Indexed) + Cardinality(Evicting) <= MemoryBound /\ Cardinality(Evicting) \in Nat
      BY NowFits
    <3>2. Cardinality(Indexed') \in Nat /\ Cardinality(Indexed') <= Cardinality(Indexed)
      BY <1>1, <2>3, IndexIsFinite
    <3>3. MemoryBound \in Int /\ Cardinality(Indexed) \in Nat
      BY <1>1, IndexIsFinite, MemoryAssumption DEF MemoryBound
    <3> QED
      BY <2>2, <3>1, <3>2, <3>3
  <2>6. statements' = Append(statements, s)
    BY <2>1 DEF s
  <2>7. statements' \in Seq(Statement)
    BY <1>1, <2>2, <2>6
  <2>8. MemoryTypeOK'
    BY <1>1, <2>3, <2>7 DEF MemoryTypeOK
  <2>9. s.by = "dream" => Cardinality(AskedBy(statements, "dream")) = 0
    <3> SUFFICES ASSUME by = "dream"
                 PROVE  Cardinality(AskedBy(statements, "dream")) = 0
      BY <2>2
    <3> QED
      BY NoneAsked
  <2>10. s.by # "store"
    BY <2>2
  <2> QED
    BY <2>2, <2>4, <2>5, <2>6, <2>8, <2>9, <2>10, WhatIsAsked
<1>3. CASE m \notin Indexed
  <2>1. UNCHANGED <<index, statements>>
    BY <1>3 DEF Deletes
  <2>2. MemoryTypeOK' /\ Indexed' = Indexed
    BY <1>1, <2>1 DEF MemoryTypeOK, Indexed
  <2> QED
    BY <2>1, <2>2, SameIndexKeeps
<1> QED
  BY <1>2, <1>3

\* SQLite answers, and its held are those its head leaves.
LEMMA AnswerKeeps ==
    ASSUME MemoryInv, statements # <<>>
    PROVE  /\ EvictionAnswered => MemoryInv'
           /\ StatementAnswered => MemoryInv'
<1> DEFINE st == statements
           held == memoryRows \ undone
           s == Head(st)
           first == AfterStatement(s, held)
           n == Len(st)
<1>1. MemoryTypeOK /\ st \in Seq(Statement) /\ held \subseteq Memories /\ QueueOK(st, held)
      /\ AfterFirst(st, held, n) = Indexed /\ Cardinality(memoryRows) <= MemoryBound
  BY DEF MemoryInv, MemoryTypeOK
<1>2. s \in Statement /\ s.entry \in Memories /\ s.next \in Memories /\ s = st[1]
      /\ Tail(st) \in Seq(Statement) /\ n \in Nat \ {0}
      /\ s.by \in {"store", "decay", "dream"}
  <2>1. s \in Statement /\ s = st[1] /\ Tail(st) \in Seq(Statement) /\ n \in Nat \ {0}
    BY <1>1, HeadTailProperties
  <2> QED
    BY <2>1 DEF Statement
<1>3. /\ QueueOK(Tail(st), first) /\ Len(Tail(st)) = n - 1
      /\ AfterFirst(Tail(st), first, n - 1) = Indexed
      /\ Cardinality(EvictionsTo(Tail(st), n - 1)) + (IF Makes(s) THEN 1 ELSE 0)
                  <= Cardinality(EvictionsTo(st, n))
      /\ \A by : Cardinality(AskedBy(Tail(st), by)) + (IF s.by = by THEN 1 ELSE 0)
                  <= Cardinality(AskedBy(st, by))
  BY <1>1, Popped
<1>4. MemoryBound \in Int /\ Writers \in Nat
  BY MemoryAssumption DEF MemoryBound
<1>5. first \subseteq Memories
  BY <1>1, <1>2 DEF AfterStatement
<1>6. ASSUME StatementAnswered PROVE MemoryInv'
  <2>1. /\ memoryRows' = first /\ undone' = {} /\ statements' = Tail(st)
        /\ UNCHANGED <<index, used, dying, dream>>
    BY <1>6 DEF StatementAnswered, AfterStatement
  <2> HIDE DEF first
  <2>2. memoryRows' \ undone' = first /\ Indexed' = Indexed
    BY <2>1 DEF Indexed
  <2>3. Cardinality(memoryRows') <= MemoryBound
    <3>1. 1 \in Nat /\ 0 + 1 = 1 /\ 1 \in 0..n
      BY <1>2
    <3>2. AfterFirst(st, held, 1) = AfterStatement(s, AfterFirst(st, held, 0))
      BY <1>2, <3>1, OneMore
    <3>3. AfterFirst(st, held, 1) = first
      BY <1>1, <3>2, NothingDone DEF first
    <3>4. Size(st, held, 1) <= MemoryBound
      BY <1>1, <3>1 DEF QueueOK
    <3>5. Cardinality(EvictionsTo(st, 1)) \in Nat /\ Cardinality(AfterFirst(st, held, 1)) \in Nat
      BY <1>1, <3>1, SizesAreNumbers
    <3> QED
      BY <1>4, <2>1, <3>3, <3>4, <3>5 DEF Size
  <2>4. MemoryTypeOK'
    BY <1>1, <1>2, <1>5, <2>1, <2>2 DEF MemoryTypeOK
  <2>5. QueueOK(statements', memoryRows' \ undone')
        /\ AfterFirst(statements', memoryRows' \ undone', Len(statements')) = Indexed'
    BY <1>3, <2>1, <2>2
  <2>6. /\ QueueOK(statements, memoryRows \ undone)'
        /\ (AfterFirst(statements, memoryRows \ undone, Len(statements)) = Indexed)'
        /\ (Cardinality(memoryRows) <= MemoryBound)'
    BY <2>3, <2>5 DEF QueueOK, Size, AfterFirst, EvictionsTo, AskedBy, MemoryBound
  <2> QED
    BY <2>4, <2>6 DEF MemoryInv
<1>7. ASSUME EvictionAnswered PROVE MemoryInv'
  <2> DEFINE next == Asks("insert", s.next, s.next, s.by)
  <2>1. /\ Makes(s) /\ undone' = undone \cup ({s.entry} \cap memoryRows)
        /\ index' = With(s.next) /\ statements' = Append(Tail(st), next)
        /\ UNCHANGED <<memoryRows, used, dying, dream>>
    BY <1>7 DEF EvictionAnswered, Makes
  <2>2. s.do = "delete" /\ s.by # "decay"
    <3>1. 1 \in DOMAIN st
      BY <1>1, <1>2
    <3> QED
      BY <1>1, <1>2, <2>1, <3>1 DEF QueueOK, Makes
  <2>3. memoryRows' \ undone' = first
    BY <2>1, <2>2 DEF AfterStatement
  <2>4. next \in Statement /\ ~Makes(next) /\ next.do = "insert" /\ next.entry = s.next /\ next.by = s.by
    BY <1>2 DEF Asks, Statement, Makes
  <2> HIDE DEF next
  <2>5. Indexed' = Indexed \cup {s.next} /\ index' \in [Indexed' -> 0..FullDecay]
    BY <1>1, <1>2, <2>1, IndexShapes DEF Indexed
  <2>6. Indexed' = AfterStatement(next, AfterFirst(Tail(st), first, n - 1))
    BY <1>3, <2>4, <2>5 DEF AfterStatement
  <2>7. n - 1 \in 0..Len(Tail(st)) /\ n \in 0..Len(st)
    BY <1>2, <1>3
  <2>8. /\ Cardinality(EvictionsTo(Tail(st), n - 1)) \in Nat /\ Cardinality(EvictionsTo(st, n)) \in Nat
        /\ \A by : /\ Cardinality(AskedBy(Tail(st), by)) \in Nat
                   /\ Cardinality(AskedBy(st, by)) \in Nat
    BY <1>1, <1>2, <2>7, SizesAreNumbers
  <2>9. Cardinality(Indexed') + Cardinality(EvictionsTo(Tail(st), n - 1)) <= MemoryBound /\ Cardinality(Indexed') \in Nat
    <3>1. Cardinality(Indexed') \in Nat /\ Cardinality(Indexed') <= Cardinality(Indexed) + 1 /\ Cardinality(Indexed) \in Nat
      BY <1>1, <2>5, IndexIsFinite
    <3>2. Cardinality(Indexed) + Cardinality(EvictionsTo(st, n)) <= MemoryBound
      BY NowFits
    <3>3. Cardinality(EvictionsTo(Tail(st), n - 1)) + 1 <= Cardinality(EvictionsTo(st, n))
      BY <1>3, <2>1
    <3> QED
      BY <1>4, <2>8, <3>1, <3>2, <3>3
  <2>10. s.by = "store" => Cardinality(AskedBy(Tail(st), "store")) < Writers - 1
    <3>1. s.by = "store" => Cardinality(AskedBy(Tail(st), "store")) + 1 <= Cardinality(AskedBy(st, "store"))
      BY <1>3
    <3>2. Cardinality(AskedBy(st, "store")) <= Writers - 1
      BY <1>1 DEF QueueOK
    <3> QED
      BY <1>4, <2>8, <3>1, <3>2
  <2>11. s.by = "dream" => Cardinality(AskedBy(Tail(st), "dream")) = 0
    <3>1. s.by = "dream" => Cardinality(AskedBy(Tail(st), "dream")) + 1 <= Cardinality(AskedBy(st, "dream"))
      BY <1>3
    <3>2. Cardinality(AskedBy(st, "dream")) <= 1
      BY <1>1 DEF QueueOK
    <3> QED
      BY <2>8, <3>1, <3>2
  <2> DEFINE after == Indexed'
             t == Tail(st)
  <2>12. /\ QueueOK(Append(t, next), first)
         /\ AfterFirst(Append(t, next), first, Len(Append(t, next))) = after
    <3>1. after = AfterStatement(next, AfterFirst(t, first, Len(t)))
      BY <1>3, <2>6
    <3>2. Cardinality(after) + Cardinality(EvictionsTo(t, Len(t))) + (IF Makes(next) THEN 1 ELSE 0) <= MemoryBound
      BY <1>3, <1>4, <2>4, <2>8, <2>9
    <3>3. t \in Seq(Statement) /\ QueueOK(t, first)
      BY <1>2, <1>3
    <3>4. /\ next.by = "store" => Cardinality(AskedBy(t, "store")) < Writers - 1
          /\ next.by = "dream" => Cardinality(AskedBy(t, "dream")) = 0
      BY <2>4, <2>10, <2>11
    <3> HIDE DEF after, t, first
    <3> QED
      BY <1>5, <2>4, <3>1, <3>2, <3>3, <3>4, OneQueued
  <2>13. MemoryTypeOK'
    <3>1. statements' \in Seq(Statement)
      BY <1>2, <2>1, <2>4
    <3>2. undone' \subseteq memoryRows'
      BY <1>1, <2>1 DEF MemoryTypeOK
    <3>3. Indexed' \subseteq Memories
      BY <1>1, <1>2, <2>5 DEF MemoryTypeOK
    <3> QED
      BY <1>1, <2>1, <2>5, <3>1, <3>2, <3>3 DEF MemoryTypeOK
  <2>14. QueueOK(statements', memoryRows' \ undone')
         /\ AfterFirst(statements', memoryRows' \ undone', Len(statements')) = Indexed'
    <3> HIDE DEF first, t
    <3> QED
      BY <2>1, <2>3, <2>12 DEF t
  <2>15. Cardinality(memoryRows') <= MemoryBound
    BY <1>1, <2>1
  <2>16. /\ QueueOK(statements, memoryRows \ undone)'
         /\ (AfterFirst(statements, memoryRows \ undone, Len(statements)) = Indexed)'
         /\ (Cardinality(memoryRows) <= MemoryBound)'
    BY <2>14, <2>15 DEF QueueOK, Size, AfterFirst, EvictionsTo, AskedBy, MemoryBound
  <2> QED
    BY <2>13, <2>16 DEF MemoryInv
<1> QED
  BY <1>6, <1>7

\* A queue with nothing in it
LEMMA EmptyQueue ==
    ASSUME NEW held, held \subseteq Memories, Cardinality(held) \in Nat, Cardinality(held) <= MemoryBound
    PROVE  QueueOK(<<>>, held) /\ AfterFirst(<<>>, held, Len(<<>>)) = held
<1> DEFINE none == <<>>
<1>1. /\ none \in Seq(Statement) /\ Len(none) = 0 /\ DOMAIN none = {}
      /\ \A by : AskedBy(none, by) = {}
  BY DEF AskedBy
<1> HIDE DEF none
<1>2. AfterFirst(none, held, 0) = held /\ EvictionsTo(none, 0) = {}
  BY NothingDone
<1>3. Cardinality({}) = 0
  BY FS_EmptySet
<1>4. Size(none, held, 0) <= MemoryBound
  <2>1. Size(none, held, 0) = Cardinality(held) + 0
    BY <1>2, <1>3 DEF Size
  <2> QED
    BY <2>1
<1>5. Cardinality(AskedBy(none, "store")) <= Writers - 1 /\ Cardinality(AskedBy(none, "dream")) <= 1
  <2>1. Cardinality(AskedBy(none, "store")) = 0 /\ Cardinality(AskedBy(none, "dream")) = 0
    BY <1>1, <1>3
  <2> QED
    BY <2>1, MemoryAssumption
<1>6. \A k \in 0..Len(none) : k = 0
  BY <1>1
<1>7. QueueOK(none, held)
  BY <1>1, <1>4, <1>5, <1>6 DEF QueueOK
<1> QED
  BY <1>1, <1>2, <1>7 DEF none

\* Starting again: every row there is was counted, and the index is the held.
LEMMA MemoryRestartKeeps ==
    ASSUME MemoryInv, MemoryRestart
    PROVE  MemoryInv'
<1>1. MemoryTypeOK /\ Cardinality(memoryRows) <= MemoryBound
  BY DEF MemoryInv
<1>2. /\ memoryRows' \subseteq memoryRows /\ memoryRows' \subseteq Memories
      /\ Indexed' = memoryRows' /\ index' \in [Indexed' -> 0..FullDecay]
      /\ undone' = {} /\ statements' = <<>> /\ dying' = {} /\ dream' = Awake /\ used' = used
  BY <1>1 DEF MemoryRestart, MemoryTypeOK, Indexed
<1>3. MemoryTypeOK'
  BY <1>1, <1>2 DEF MemoryTypeOK, Awake
<1>4. IsFiniteSet(memoryRows) /\ Cardinality(memoryRows) \in Nat
      /\ Cardinality(memoryRows') \in Nat /\ Cardinality(memoryRows') <= Cardinality(memoryRows)
  BY <1>1, <1>2, MemoryAssumption, FS_Subset, FS_CardinalityType DEF MemoryTypeOK
<1>5. Cardinality(memoryRows') <= MemoryBound
  BY <1>1, <1>4, MemoryAssumption DEF MemoryBound
<1> DEFINE held == memoryRows'
           none == <<>>
<1>9. QueueOK(none, held) /\ AfterFirst(none, held, Len(none)) = held
  BY <1>2, <1>4, <1>5, EmptyQueue
<1>10. memoryRows' \ undone' = held
  BY <1>2
<1>11. /\ QueueOK(statements, memoryRows \ undone)'
       /\ (AfterFirst(statements, memoryRows \ undone, Len(statements)) = Indexed)'
       /\ (Cardinality(memoryRows) <= MemoryBound)'
  <2>1. QueueOK(statements', memoryRows' \ undone')
        /\ AfterFirst(statements', memoryRows' \ undone', Len(statements')) = Indexed'
    <3>1. statements' = none /\ Indexed' = held
      BY <1>2
    <3> HIDE DEF none, held
    <3> QED
      BY <1>9, <1>10, <3>1
  <2> QED
    BY <1>5, <2>1 DEF QueueOK, Size, AfterFirst, EvictionsTo, AskedBy, MemoryBound
<1> QED
  BY <1>3, <1>11 DEF MemoryInv

\* The memory's held are its index whenever SQLite has nothing left to do, and the index
\* grows past max_memories only by the stores that were under way at once, less one.
THEOREM MemoryStaysTrue == MemorySpec => [](MemoryTypeOK /\ StoreStaysTrue)
<1>1. MemoryInit => MemoryInv
  <2> SUFFICES ASSUME MemoryInit PROVE MemoryInv
    OBVIOUS
  <2>1. MemoryTypeOK /\ Indexed = {}
    BY DEF MemoryInit, MemoryTypeOK, Indexed, Awake
  <2>2. statements = <<>> /\ memoryRows \ undone = {} /\ memoryRows = {}
    BY DEF MemoryInit
  <2>3. Cardinality({}) = 0 /\ 0 <= MemoryBound
    BY FS_EmptySet, MemoryAssumption DEF MemoryBound
  <2>4. QueueOK(<<>>, {}) /\ AfterFirst(<<>>, {}, Len(<<>>)) = {}
    BY <2>3, EmptyQueue
  <2> QED
    BY <2>1, <2>2, <2>3, <2>4 DEF MemoryInv
<1>2. MemoryInv /\ [MemoryNext]_memoryVars => MemoryInv'
  <2> SUFFICES ASSUME MemoryInv, [MemoryNext]_memoryVars PROVE MemoryInv'
    OBVIOUS
  <2>1. MemoryTypeOK
    BY DEF MemoryInv
  <2>2. ASSUME NEW m \in Memories, StoreMemory(m) PROVE MemoryInv'
    BY <2>1, <2>2, RememberKeeps DEF StoreMemory, AskedBy, MemoryTypeOK
  <2>3. ASSUME NEW m \in Memories, Query(m) PROVE MemoryInv'
    <3>1. index' \in [Indexed -> 0..FullDecay] /\ Indexed' = Indexed
      BY <2>1, <2>3, ReinforcedShape DEF Query, Indexed
    <3>2. MemoryTypeOK'
      BY <2>1, <2>3, <3>1 DEF Query, MemoryTypeOK
    <3> QED
      BY <2>3, <3>1, <3>2, SameIndexKeeps DEF Query
  <2>4. ASSUME NEW m \in Memories, DecayDeletes(m) PROVE MemoryInv'
    BY <2>1, <2>4, DeleteKeeps DEF DecayDeletes, MemoryTypeOK
  <2>5. ASSUME NEW m \in Memories, Extract(m) PROVE MemoryInv'
    <3>1. /\ ~Waits("dream") /\ UNCHANGED <<memoryRows, undone, dying>>
          /\ dream' \in [phase : {"off", "extracting", "deduplicating"}, left : SUBSET Memories,
                         seen : SUBSET Memories]
      BY <2>1, <2>5 DEF Extract, MemoryTypeOK
    <3>2. Cardinality(AskedBy(statements, "dream")) = 0
      BY <3>1, NoneAsked
    <3>3. CASE UNCHANGED <<index, used, statements>>
      <4>1. Indexed' = Indexed /\ MemoryTypeOK'
        BY <2>1, <3>1, <3>3 DEF MemoryTypeOK, Indexed
      <4> QED
        BY <3>1, <3>3, <4>1, SameIndexKeeps
    <3>4. CASE \E e \in Indexed : index' = Reinforced({e}) /\ UNCHANGED <<used, statements>>
      <4> PICK e \in Indexed : index' = Reinforced({e}) /\ UNCHANGED <<used, statements>>
        BY <3>4
      <4>1. index' \in [Indexed -> 0..FullDecay] /\ Indexed' = Indexed
        BY <2>1, ReinforcedShape DEF Indexed
      <4>2. MemoryTypeOK'
        BY <2>1, <3>1, <4>1 DEF MemoryTypeOK
      <4> QED
        BY <3>1, <4>1, <4>2, SameIndexKeeps
    <3>5. CASE \E new \in Memories : Remembers(new, "dream")
      BY <3>1, <3>2, <3>5, RememberKeeps
    <3> QED
      BY <2>5, <3>3, <3>4, <3>5 DEF Extract
  <2>6. ASSUME NEW m \in Memories, Deduplicate(m) PROVE MemoryInv'
    <3>1. /\ ~Waits("dream") /\ UNCHANGED <<memoryRows, undone, used, dying>> /\ dying' \subseteq Memories
          /\ dream' \in [phase : {"off", "extracting", "deduplicating"}, left : SUBSET Memories,
                         seen : SUBSET Memories]
      <4>1. dying' \subseteq Memories /\ ~Waits("dream") /\ UNCHANGED <<memoryRows, undone, used, dying>>
        BY <2>1, <2>6 DEF Deduplicate, MemoryTypeOK
      <4>2. \E seen \in SUBSET Memories :
               dream' = [dream EXCEPT !.left = dream.left \ {m}, !.seen = seen]
        <5>1. dream.seen \subseteq Memories /\ dream = [phase |-> dream.phase, left |-> dream.left, seen |-> dream.seen]
          BY <2>1 DEF MemoryTypeOK
        <5> DEFINE alike == {e \in dream.seen : Content[e] = Content[m]}
        <5>2. \/ dream' = [dream EXCEPT !.left = dream.left \ {m}, !.seen = dream.seen \cup {m}]
              \/ dream' = [dream EXCEPT !.left = dream.left \ {m}]
              \/ \E e \in alike :
                    dream' = [dream EXCEPT !.left = dream.left \ {m}, !.seen = (dream.seen \ {e}) \cup {m}]
          BY <2>6 DEF Deduplicate
        <5> HIDE DEF alike
        <5> QED
          BY <5>1, <5>2
      <4>3. dream' \in [phase : {"off", "extracting", "deduplicating"}, left : SUBSET Memories,
                         seen : SUBSET Memories]
        BY <2>1, <4>2 DEF MemoryTypeOK
      <4> QED
        BY <4>1, <4>3
    <3>2. \/ UNCHANGED <<index, statements>>
          \/ \E e \in Memories : Deletes(e, "dream")
      BY <2>1, <2>6 DEF Deduplicate, MemoryTypeOK
    <3>3. CASE UNCHANGED <<index, statements>>
      <4>1. Indexed' = Indexed /\ MemoryTypeOK'
        BY <2>1, <3>1, <3>3 DEF MemoryTypeOK, Indexed
      <4> QED
        BY <3>1, <3>3, <4>1, SameIndexKeeps
    <3>4. CASE \E e \in Memories : Deletes(e, "dream")
      BY <3>1, <3>4, DeleteKeeps
    <3> QED
      BY <3>2, <3>3, <3>4
  <2>7. ASSUME ApplyDecay PROVE MemoryInv'
    <3>1. index' \in [Indexed -> 0..FullDecay] /\ Indexed' = Indexed /\ dying' \subseteq Memories
      BY <2>1, <2>7, MemoryAssumption DEF ApplyDecay, MemoryTypeOK, Indexed
    <3>2. MemoryTypeOK'
      BY <2>1, <2>7, <3>1 DEF ApplyDecay, MemoryTypeOK
    <3> QED
      BY <2>7, <3>1, <3>2, SameIndexKeeps DEF ApplyDecay
  <2>8. ASSUME Consolidate PROVE MemoryInv'
    <3> DEFINE episodes == {e \in Indexed : Kind[e] = "episodic"}
    <3>0. index' = Reinforced(episodes)
      BY <2>8 DEF Consolidate
    <3>1. index' \in [Indexed -> 0..FullDecay] /\ Indexed' = Indexed
      <4> HIDE DEF episodes
      <4> QED BY <2>1, <3>0, ReinforcedShape DEF Indexed
    <3>2. MemoryTypeOK'
      BY <2>1, <2>8, <3>1 DEF Consolidate, MemoryTypeOK
    <3> QED
      BY <2>8, <3>1, <3>2, SameIndexKeeps DEF Consolidate
  <2>9. ASSUME Summarise PROVE MemoryInv'
    <3>1. /\ ~Waits("dream") /\ UNCHANGED <<memoryRows, undone, dying>>
          /\ dream' \in [phase : {"off", "extracting", "deduplicating"}, left : SUBSET Memories,
                         seen : SUBSET Memories]
      BY <2>1, <2>9 DEF Summarise, MemoryTypeOK
    <3>2. Cardinality(AskedBy(statements, "dream")) = 0
      BY <3>1, NoneAsked
    <3>3. CASE UNCHANGED <<index, used, statements>>
      <4>1. Indexed' = Indexed /\ MemoryTypeOK'
        BY <2>1, <3>1, <3>3 DEF MemoryTypeOK, Indexed
      <4> QED
        BY <3>1, <3>3, <4>1, SameIndexKeeps
    <3>4. CASE \E new \in Memories : Remembers(new, "dream")
      BY <3>1, <3>2, <3>4, RememberKeeps
    <3> QED
      BY <2>9, <3>3, <3>4 DEF Summarise
  <2>10. ASSUME WakeUp PROVE MemoryInv'
    <3>1. Indexed' = Indexed /\ MemoryTypeOK'
      BY <2>1, <2>10 DEF WakeUp, Awake, MemoryTypeOK, Indexed
    <3> QED
      BY <2>10, <3>1, SameIndexKeeps DEF WakeUp
  <2>11. ASSUME EvictionAnswered PROVE MemoryInv'
    BY <2>11, AnswerKeeps DEF EvictionAnswered
  <2>12. ASSUME StatementAnswered PROVE MemoryInv'
    BY <2>12, AnswerKeeps DEF StatementAnswered
  <2>13. ASSUME MemoryRestart PROVE MemoryInv'
    BY <2>13, MemoryRestartKeeps
  <2>14. ASSUME UNCHANGED memoryVars PROVE MemoryInv'
    BY <2>14 DEF memoryVars, MemoryInv, MemoryTypeOK, QueueOK, Size, AfterFirst, EvictionsTo,
                AskedBy, MemoryBound, Indexed
  <2> QED
    BY <2>2, <2>3, <2>4, <2>5, <2>6, <2>7, <2>8, <2>9, <2>10, <2>11, <2>12, <2>13, <2>14
       DEF MemoryNext
<1>3. MemoryInv => MemoryTypeOK /\ StoreStaysTrue
  <2> SUFFICES ASSUME MemoryInv PROVE MemoryTypeOK /\ StoreStaysTrue
    OBVIOUS
  <2>1. GrowthIsBounded
    BY NowFits DEF GrowthIsBounded, MemoryBound
  <2>2. ASSUME statements = <<>> PROVE memoryRows \ undone = Indexed
    <3>1. memoryRows \ undone \subseteq Memories
      BY NowFits
    <3>2. AfterFirst(statements, memoryRows \ undone, 0) = Indexed
      BY <2>2 DEF MemoryInv
    <3> QED
      BY <3>1, <3>2, NothingDone
  <2> QED
    BY <2>1, <2>2 DEF StoreStaysTrue, RowsAreIndex, MemoryInv
<1> QED
  BY <1>1, <1>2, <1>3, PTL DEF MemorySpec

-------------------------------------------------------------------------------
(***************************************************************************)
(* Learning: which rung of the ladder a failure leads to                    *)
(***************************************************************************)

\* A model that failed a skill has failed in this process; a message that is new has the model
\* it is made with.
LearningInv ==
    /\ failedWith \in [Skills -> Tiers \cup {"none"}]
    /\ message \in [Inquiries -> [at : {"new", "model", "again", "reply", "done"}, model : Tiers]]
    /\ \A s \in Skills : failedWith[s] # "none" => failedWith[s] \in beaten
    /\ \A m \in Inquiries : message[m].at = "new" => message[m].model = "fast"
    /\ LadderIsClimbed

\* However messages overlap, a model is escalated to only from one that failed.
LEMMA LearningInvariant == LearningSpec => []LearningInv
<1>1. LearningInit => LearningInv
  BY DEF LearningInit, LearningInv, LadderIsClimbed, Tiers
<1>2. LearningInv /\ [LearningNext]_learningVars => LearningInv'
  <2> SUFFICES ASSUME LearningInv, [LearningNext]_learningVars PROVE LearningInv'
    OBVIOUS
  <2> DEFINE AskedRecords == [at : {"new", "model", "again", "reply", "done"}, model : Tiers]
  <2>0. /\ failedWith \in [Skills -> Tiers \cup {"none"}] /\ message \in [Inquiries -> AskedRecords]
        /\ \A s \in Skills : failedWith[s] # "none" => failedWith[s] \in beaten
        /\ \A m \in Inquiries : message[m].at = "new" => message[m].model = "fast"
        /\ LadderIsClimbed
    BY DEF LearningInv
  \* One message goes on, with a model that is not the strongest or was earned.
  <2>1. ASSUME NEW m \in Inquiries, NEW place \in {"model", "again", "reply", "done"}, NEW model \in Tiers,
               message' = [message EXCEPT ![m] = [at |-> place, model |-> model]],
               model = "powerful" => place = "done" \/ "balanced" \in beaten,
               UNCHANGED <<failedWith, beaten>>
        PROVE  LearningInv'
    <3>1. [at |-> place, model |-> model] \in AskedRecords
      OBVIOUS
    <3>2. /\ message' \in [Inquiries -> AskedRecords] /\ message'[m] = [at |-> place, model |-> model]
          /\ \A n \in Inquiries \ {m} : message'[n] = message[n]
      BY <2>0, <2>1, <3>1
    <3> QED
      BY <2>0, <2>1, <3>2 DEF LearningInv, LadderIsClimbed
  <2>2. ASSUME NEW m \in Inquiries, NEW place \in {"again", "reply", "done"},
               message' = [message EXCEPT ![m].at = place], message[m].at # "done",
               UNCHANGED <<failedWith, beaten>>
        PROVE  LearningInv'
    <3>1. message[m] \in AskedRecords
      BY <2>0
    <3>2. [message[m] EXCEPT !.at = place] = [at |-> place, model |-> message[m].model]
      BY <3>1
    <3>4. message' = [message EXCEPT ![m] = [message[m] EXCEPT !.at = place]]
      BY <2>2
    <3>5. message' = [message EXCEPT ![m] = [at |-> place, model |-> message[m].model]]
      BY <3>2, <3>4
    <3>3. message[m].model = "powerful" => "balanced" \in beaten
      BY <2>0, <2>2 DEF LadderIsClimbed
    <3> QED
      BY <2>1, <2>2, <3>1, <3>3, <3>5
  <2>3. ASSUME NEW m \in Inquiries, RouteMessage(m) PROVE LearningInv'
    <3>1. UNCHANGED <<failedWith, beaten>>
      BY <2>3 DEF RouteMessage
    <3>2. PICK task \in {"simple", "chat"}, named \in SUBSET LearnerSees, allowed \in BOOLEAN :
          \E model \in IF allowed /\ Overrides(named) # {} THEN Overrides(named)
                      ELSE {TaskTier(task)} :
             message' = [message EXCEPT ![m] = [at |-> "model", model |-> model]]
      BY <2>3 DEF RouteMessage
    <3>3. PICK model \in IF allowed /\ Overrides(named) # {} THEN Overrides(named)
                      ELSE {TaskTier(task)} :
             message' = [message EXCEPT ![m] = [at |-> "model", model |-> model]]
      BY <3>2
    <3>4. model \in Tiers /\ (model = "powerful" => "balanced" \in beaten)
      <4>1. CASE model = TaskTier(task)
        BY <4>1 DEF TaskTier, Tiers
      <4>2. CASE model \in Overrides(named)
        <5>1. PICK s \in named : model \in Above(failedWith[s])
          BY <4>2 DEF Overrides
        <5>2. s \in Skills
          BY LearningAssumption
        <5> QED
          BY <2>0, <5>1, <5>2 DEF Above, Tiers
      <4> QED
        BY <3>3, <4>1, <4>2
    <3> QED
      BY <2>1, <3>1, <3>3, <3>4
  <2>4. ASSUME NEW m \in Inquiries, AnswerUnlearnt(m) \/ FirstReply(m) PROVE LearningInv'
    BY <2>2, <2>4 DEF AnswerUnlearnt, FirstReply
  <2>5. ASSUME NEW m \in Inquiries, SecondReply(m) PROVE LearningInv'
    <3>1. PICK model \in {"balanced", "fast"} :
              message' = [message EXCEPT ![m] = [at |-> "reply", model |-> model]]
      BY <2>5 DEF SecondReply
    <3>2. model \in Tiers /\ model # "powerful" /\ UNCHANGED <<failedWith, beaten>>
      BY <2>5 DEF SecondReply, Tiers
    <3> QED
      BY <2>1, <3>1, <3>2
  <2>6. ASSUME NEW m \in Inquiries, LearnFrom(m) PROVE LearningInv'
    <3>1. PICK uses \in SUBSET Skills, well \in BOOLEAN :
             LET seen == uses \cap LearnerSees
             IN /\ failedWith' = [s \in Skills |-> IF s \in seen /\ ~well THEN message[m].model
                                                   ELSE failedWith[s]]
                /\ beaten' = IF well \/ seen = {} THEN beaten ELSE beaten \cup {message[m].model}
      BY <2>6 DEF LearnFrom
    <3>2. message' = [message EXCEPT ![m].at = "done"]
      BY <2>6 DEF LearnFrom
    <3>3. message[m] \in AskedRecords
      BY <2>0
    <3>4. /\ message' \in [Inquiries -> AskedRecords] /\ message'[m].at = "done"
          /\ \A n \in Inquiries \ {m} : message'[n] = message[n]
      BY <2>0, <3>2, <3>3
    <3>5. beaten \subseteq beaten'
      BY <3>1
    <3>6. failedWith' \in [Skills -> Tiers \cup {"none"}]
      BY <2>0, <3>1, <3>3
    <3>7. \A s \in Skills : failedWith'[s] # "none" => failedWith'[s] \in beaten'
      BY <2>0, <3>1
    <3> QED
      BY <2>0, <3>4, <3>5, <3>6, <3>7 DEF LearningInv, LadderIsClimbed
  <2>7. CASE ForgetAll
    <3>1. /\ failedWith' = [s \in Skills |-> "none"]
          /\ message' = [m \in Inquiries |-> IF message[m].at = "new" THEN message[m]
                                             ELSE [message[m] EXCEPT !.at = "done"]]
      BY <2>7 DEF ForgetAll
    <3>2. ASSUME NEW m \in Inquiries
          PROVE  /\ message'[m] \in AskedRecords
                 /\ message'[m].at = "new" => message'[m].model = "fast"
                 /\ message'[m].at # "done" => message'[m].model = "fast"
      BY <2>0, <3>1
    <3>3. message' \in [Inquiries -> AskedRecords]
      BY <2>0, <3>1, <3>2
    <3> QED
      BY <3>1, <3>2, <3>3 DEF LearningInv, LadderIsClimbed
  <2>8. CASE UNCHANGED learningVars
    BY <2>8 DEF learningVars, LearningInv, LadderIsClimbed
  <2> QED
    BY <2>3, <2>4, <2>5, <2>6, <2>7, <2>8 DEF LearningNext
<1> QED
  BY <1>1, <1>2, PTL DEF LearningSpec

\* The strongest model runs only after a reply of the one below it has failed in this process
\* (AgentBrain.process and adapt_model), however messages overlap.
THEOREM LadderIsAlwaysClimbed == LearningSpec => []LadderIsClimbed
<1>1. LearningInv => LadderIsClimbed
  BY DEF LearningInv
<1> QED
  BY <1>1, LearningInvariant, PTL

\* A table of skills whose records are all what a record can be
SkillTable(table) ==
    /\ table \in [Skills -> Skill]
    /\ \A s \in Skills : Plausible(table[s])
SkillsInv ==
    /\ anthropic \in BOOLEAN /\ apart \in BOOLEAN /\ learner \in BOOLEAN /\ beaten \subseteq Tiers
    /\ skillFile = [p \in {"here", "there"} |-> skillFile[p]]
    /\ SkillTable(skillFile["here"]) /\ SkillTable(skillFile["there"]) /\ SkillTable(known)

\* A success or a failure leaves a plausible record one: Skill.record_success and
\* record_failure.
LEMMA RecordsStayPlausible ==
    ASSUME NEW k \in Skill, Plausible(k)
    PROVE  /\ RecordSuccess(k) \in Skill /\ Plausible(RecordSuccess(k))
           /\ RecordFailure(k) \in Skill /\ Plausible(RecordFailure(k))
<1> USE LearningAssumption
<1>1. /\ k = [status |-> k.status, ok |-> k.ok, bad |-> k.bad]
      /\ k.status \in {"unknown", "learned", "mastered", "failed"} /\ k.ok \in Nat /\ k.bad \in Nat
      /\ k.status = "mastered" <=> k.ok >= Mastery
      /\ k.status = "failed" <=> k.ok = 0 /\ k.bad > 0
      /\ Mastery \in Nat /\ Mastery > 0
  BY DEF Skill, SkillStatuses, Plausible
<1>2. RecordSuccess(k) \in Skill /\ Plausible(RecordSuccess(k))
  <2> DEFINE now == IF k.ok + 1 >= Mastery THEN "mastered"
                    ELSE IF k.status \in {"unknown", "failed"} THEN "learned" ELSE k.status
  <2>1. RecordSuccess(k) \in [status : {now}, ok : {k.ok + 1}, bad : {k.bad}]
    <3>1. RecordSuccess(k) = [k EXCEPT !.ok = k.ok + 1, !.status = now]
      BY DEF RecordSuccess
    <3> HIDE DEF now
    <3> QED
      BY <3>1 DEF Skill
  <2>2. /\ now \in SkillStatuses /\ now # "failed" /\ (now = "mastered" <=> k.ok + 1 >= Mastery)
    BY <1>1 DEF SkillStatuses
  <2>3. k.ok + 1 \in Nat /\ k.ok + 1 # 0
    BY <1>1
  <2> HIDE DEF now
  <2> QED
    BY <1>1, <2>1, <2>2, <2>3 DEF Skill, Plausible
<1>3. RecordFailure(k) \in Skill /\ Plausible(RecordFailure(k))
  <2> DEFINE now == IF k.ok = 0 THEN "failed" ELSE k.status
  <2>1. RecordFailure(k) \in [status : {now}, ok : {k.ok}, bad : {k.bad + 1}]
    <3>1. RecordFailure(k) = [k EXCEPT !.bad = k.bad + 1, !.status = now]
      BY DEF RecordFailure
    <3> HIDE DEF now
    <3> QED
      BY <3>1 DEF Skill
  <2>2. /\ now \in SkillStatuses /\ (now = "failed" <=> k.ok = 0) /\ (now = "mastered" <=> k.ok >= Mastery)
    BY <1>1 DEF SkillStatuses
  <2>3. k.bad + 1 \in Nat /\ k.bad + 1 > 0
    BY <1>1
  <2> HIDE DEF now
  <2> QED
    BY <1>1, <2>1, <2>2, <2>3 DEF Skill, Plausible
<1> QED
  BY <1>2, <1>3

\* So does whatever is made of a reply, for a whole table.
LEMMA OutcomeIsTable ==
    ASSUME NEW table, SkillTable(table), NEW uses, NEW well
    PROVE  SkillTable(Outcome(table, uses, well))
<1>1. ASSUME NEW s \in Skills
      PROVE  Outcome(table, uses, well)[s] \in Skill /\ Plausible(Outcome(table, uses, well)[s])
  <2>1. table[s] \in Skill /\ Plausible(table[s])
    BY DEF SkillTable
  <2>2. Outcome(table, uses, well)[s] \in {table[s], RecordSuccess(table[s]), RecordFailure(table[s])}
    BY DEF Outcome
  <2> QED
    BY <2>1, <2>2, RecordsStayPlausible
<1>2. Outcome(table, uses, well) = [s \in Skills |-> Outcome(table, uses, well)[s]]
  BY DEF Outcome
<1> QED
  BY <1>1, <1>2 DEF SkillTable

\* Both files and the registry hold plausible records, whichever of the two paths updates them
\* and in whatever order (learning/ and the brain's _auto_update_skills), and every message
\* runs on a model there is.
THEOREM LearningTyped == LearningSpec => []LearningTypeOK
<1> USE LearningAssumption
<1>0. SkillTable([s \in Skills |-> NewSkill])
  BY DEF SkillTable, NewSkill, Skill, SkillStatuses, Plausible
<1>1. LearningInit => SkillsInv
  BY <1>0 DEF LearningInit, SkillsInv
<1>2. LearningInv /\ SkillsInv /\ [LearningNext]_learningVars => SkillsInv'
  <2> SUFFICES ASSUME LearningInv, SkillsInv, [LearningNext]_learningVars PROVE SkillsInv'
    OBVIOUS
  <2>0. /\ anthropic \in BOOLEAN /\ apart \in BOOLEAN /\ learner \in BOOLEAN /\ beaten \subseteq Tiers
        /\ skillFile = [p \in {"here", "there"} |-> skillFile[p]]
        /\ SkillTable(skillFile["here"]) /\ SkillTable(skillFile["there"]) /\ SkillTable(known)
    BY DEF SkillsInv
  <2>1. ASSUME UNCHANGED <<anthropic, apart, skillFile>>, learner' \in BOOLEAN, beaten' \subseteq Tiers,
               SkillTable(known')
        PROVE  SkillsInv'
    BY <2>0, <2>1 DEF SkillsInv
  <2>2. ASSUME NEW m \in Inquiries, RouteMessage(m) PROVE SkillsInv'
    <3>1. known' = Registry /\ learner' = TRUE /\ UNCHANGED <<anthropic, apart, skillFile, beaten>>
      BY <2>2 DEF RouteMessage
    <3>2. SkillTable(Registry)
      BY <2>0 DEF Registry
    <3> QED
      BY <2>0, <2>1, <3>1, <3>2
  <2>3. ASSUME NEW m \in Inquiries, AnswerUnlearnt(m) \/ FirstReply(m) \/ SecondReply(m) PROVE SkillsInv'
    <3>1. UNCHANGED <<anthropic, apart, skillFile, known, learner, beaten>>
      BY <2>3 DEF AnswerUnlearnt, FirstReply, SecondReply
    <3> QED
      BY <2>0, <2>1, <3>1
  <2>4. ASSUME NEW m \in Inquiries, LearnFrom(m) PROVE SkillsInv'
    <3>1. PICK uses \in SUBSET Skills, good \in BOOLEAN, wrong \in BOOLEAN, well \in BOOLEAN :
             LET seen == uses \cap LearnerSees
                 kept == Outcome(known, seen, well)
                 here == IF seen # {} THEN kept ELSE skillFile["here"]
                 added(file) == Outcome(file, Counted(uses, good, wrong), good)
             IN /\ well => ~wrong
                /\ known' = kept
                /\ skillFile' = IF apart THEN [here |-> here, there |-> added(skillFile["there"])]
                                ELSE [skillFile EXCEPT !["here"] = added(here)]
                /\ failedWith' = [s \in Skills |-> IF s \in seen /\ ~well THEN message[m].model
                                                   ELSE failedWith[s]]
                /\ beaten' = IF well \/ seen = {} THEN beaten ELSE beaten \cup {message[m].model}
      BY <2>4 DEF LearnFrom
    <3> DEFINE seen == uses \cap LearnerSees
               kept == Outcome(known, seen, well)
               here == IF seen # {} THEN kept ELSE skillFile["here"]
               there == Outcome(skillFile["there"], Counted(uses, good, wrong), good)
               both == Outcome(here, Counted(uses, good, wrong), good)
    <3>2. SkillTable(kept)
      BY <2>0, OutcomeIsTable
    <3>3. SkillTable(here)
      <4> HIDE DEF kept
      <4> QED
        BY <2>0, <3>2
    <3>4. SkillTable(there) /\ SkillTable(both)
      <4> HIDE DEF here
      <4> QED
        BY <2>0, <3>3, OutcomeIsTable
    <3>5. beaten' \subseteq Tiers
      <4>1. message[m].model \in Tiers
        BY DEF LearningInv
      <4> QED
        BY <2>0, <3>1, <4>1
    <3>6. /\ known' = kept
          /\ skillFile' = IF apart THEN [here |-> here, there |-> there]
                          ELSE [skillFile EXCEPT !["here"] = both]
          /\ UNCHANGED <<anthropic, apart, learner>>
      BY <2>4, <3>1 DEF LearnFrom
    <3> HIDE DEF kept, here, there, both
    <3>7. CASE apart
      <4>1. skillFile' = [here |-> here, there |-> there]
        BY <3>6, <3>7
      <4>2. /\ skillFile' = [p \in {"here", "there"} |-> skillFile'[p]]
            /\ skillFile'["here"] = here /\ skillFile'["there"] = there
        BY <4>1
      <4> QED
        BY <2>0, <3>2, <3>3, <3>4, <3>5, <3>6, <4>2 DEF SkillsInv
    <3>8. CASE ~apart
      <4>1. skillFile' = [skillFile EXCEPT !["here"] = both]
        BY <3>6, <3>8
      <4>2. /\ skillFile' = [p \in {"here", "there"} |-> skillFile'[p]]
            /\ skillFile'["here"] = both /\ skillFile'["there"] = skillFile["there"]
        BY <2>0, <4>1
      <4> QED
        BY <2>0, <3>2, <3>4, <3>5, <3>6, <4>2 DEF SkillsInv
    <3> QED
      BY <3>7, <3>8
  <2>5. CASE ForgetAll
    BY <1>0, <2>1, <2>5 DEF ForgetAll
  <2>6. CASE UNCHANGED learningVars
    <3>1. UNCHANGED <<anthropic, apart, skillFile, known, learner, beaten>>
      BY <2>6 DEF learningVars
    <3> QED
      BY <2>0, <2>1, <3>1
  <2> QED
    BY <2>2, <2>3, <2>4, <2>5, <2>6 DEF LearningNext
<1>3. LearningInv /\ SkillsInv => LearningTypeOK
  BY DEF LearningInv, SkillsInv, SkillTable, LearningTypeOK
<1> QED
  BY <1>1, <1>2, <1>3, LearningInvariant, PTL DEF LearningSpec

-------------------------------------------------------------------------------
(***************************************************************************)
(* Bids                                                                     *)
(***************************************************************************)

\* A Bid, in the row or in a submission's hands: ready names its approval, and submitted
\* stands for a post.
Sound(b) ==
    /\ b.status = "ready" => b.approval \in BidApprovals
    /\ b.status = "submitted" => accepted # {}

\* A submission that posts a ready bid checked its approval, and a decision stays made.
Covered(c) ==
    /\ step[c] = "posting" /\ copy[c].status = "ready" => approval[copy[c].approval] \in Granted
    /\ step[c] = "marking" => accepted # {}

BidsInv ==
    /\ BidsTypeOK
    /\ Sound(bid)
    /\ \A c \in Chats : Sound(copy[c]) /\ Covered(c)
    /\ RecordsArePosts

\* The draft of a bid nobody submitted is sound.
LEMMA BidsInitially == BidsInit => BidsInv
BY BidsAssumption DEF BidsInit, BidsInv, BidsTypeOK, Bid, Draft, Sound, Covered, RecordsArePosts

\* What the queue does to approvals: a request may become pending, be decided once, and be
\* marked executed once a post was accepted.
ApprovalsAdvance ==
    /\ approval' \in [BidApprovals -> {"none", "pending", "approved", "denied", "expired", "executed"}]
    /\ \A a \in BidApprovals :
         /\ approval[a] \in Granted => approval'[a] \in Granted
         /\ approval'[a] = "executed" => approval[a] = "executed" \/ accepted # {}

\* A step of one submission that posts nothing
LEMMA QuietStep ==
    ASSUME BidsInv, NEW c \in Chats, NEW b \in Bid, NEW s \in {"idle", "loaded", "marking", "saving"},
           step' = [step EXCEPT ![c] = s], copy' = [copy EXCEPT ![c] = b],
           Sound(b), s = "marking" => accepted # {},
           bid' \in {bid, copy[c]}, accepted' = accepted, ApprovalsAdvance
    PROVE  BidsInv'
<1> USE DEF BidsInv
<1>1. BidsTypeOK'
  BY DEF BidsTypeOK, ApprovalsAdvance
<1>2. Sound(bid)'
  BY DEF Sound
<1>3. ASSUME NEW d \in Chats PROVE Sound(copy[d])' /\ Covered(d)'
  <2>1. CASE d = c
    BY <2>1 DEF Sound, Covered, BidsTypeOK
  <2>2. CASE d # c
    <3>1. step'[d] = step[d] /\ copy'[d] = copy[d]
      BY <2>2 DEF BidsTypeOK
    <3>2. copy[d].status = "ready" => copy[d].approval \in BidApprovals
      BY DEF Sound
    <3> QED
      BY <3>1, <3>2 DEF Sound, Covered, ApprovalsAdvance
  <2> QED
    BY <2>1, <2>2
<1>4. RecordsArePosts'
  <2>1. \A a \in BidApprovals : /\ approval'[a] = "executed" => accepted # {}
                                /\ a \in accepted => approval'[a] \in Granted
    BY DEF RecordsArePosts, ApprovalsAdvance
  <2>2. bid'.status = "submitted" => accepted # {}
    BY DEF Sound
  <2> QED
    BY <2>1, <2>2 DEF RecordsArePosts
<1> QED
  BY <1>1, <1>2, <1>3, <1>4

\* A step that leaves the queue alone advances it trivially.
LEMMA SameApprovals ==
    ASSUME BidsInv, approval' = approval
    PROVE  ApprovalsAdvance
BY DEF BidsInv, BidsTypeOK, ApprovalsAdvance

\* A draft claims nothing, so it is sound.
LEMMA DraftIsSound == Draft \in Bid /\ Sound(Draft)
BY DEF Draft, Bid, Sound

\* Every stretch of submit_bid between two awaits
LEMMA SubmissionKeepsInv ==
    ASSUME BidsInv, NEW c \in Chats,
           \/ Load(c) \/ ProposeBid(c) \/ StillPending(c) \/ Refused(c) \/ Post(c)
           \/ Accept(c) \/ Answered(c) \/ Unanswered(c) \/ Mark(c) \/ SaveBid(c)
    PROVE  BidsInv'
<1> USE DEF Goes
<1>0. copy[c] \in Bid /\ bid \in Bid /\ Sound(copy[c]) /\ Sound(bid)
  BY DEF BidsInv, BidsTypeOK
<1>1. CASE Load(c)
  BY <1>0, <1>1, QuietStep, SameApprovals DEF Load
<1>2. CASE ProposeBid(c)
  <2>1. PICK a \in BidApprovals :
          /\ approval[a] = "none"
          /\ approval' = [approval EXCEPT ![a] = "pending"]
          /\ copy' = [copy EXCEPT ![c] = [status |-> "ready", approval |-> a]]
    BY <1>2 DEF ProposeBid
  <2>2. ApprovalsAdvance
    BY <2>1 DEF ApprovalsAdvance, BidsInv, BidsTypeOK, Granted
  <2>3. [status |-> "ready", approval |-> a] \in Bid /\ Sound([status |-> "ready", approval |-> a])
    BY DEF Bid, Sound
  <2> QED
    BY <1>2, <2>1, <2>2, <2>3, QuietStep DEF ProposeBid
<1>3. CASE StillPending(c)
  BY <1>3, QuietStep, SameApprovals, DraftIsSound DEF StillPending, Returns
<1>4. CASE Refused(c) \/ Unanswered(c)
  <2>1. /\ [copy[c] EXCEPT !.status = "failed"] \in Bid
        /\ Sound([copy[c] EXCEPT !.status = "failed"])
    BY <1>0 DEF Bid, Sound
  <2>2. copy' = [copy EXCEPT ![c] = [copy[c] EXCEPT !.status = "failed"]]
    BY <1>4 DEF Refused, Unanswered, Becomes
  <2> QED
    BY <1>4, <2>1, <2>2, QuietStep, SameApprovals DEF Refused, Unanswered
<1>5. CASE Post(c)
  <2>1. copy[c].status = "ready" => approval[copy[c].approval] \in Granted
    BY <1>5 DEF Post, Posts, At
  <2>2. BidsTypeOK'
    BY <1>5 DEF Post, BidsInv, BidsTypeOK
  <2>3. ASSUME NEW d \in Chats PROVE Covered(d)'
    BY <1>5, <2>1 DEF Post, Covered, BidsInv, BidsTypeOK
  <2> QED
    BY <1>5, <2>2, <2>3 DEF Post, BidsInv, Sound, RecordsArePosts
<1>6. CASE Accept(c)
  <2>1. Warrant(c) \in BidApprovals \cup {NoApproval}
    BY <1>0 DEF Warrant, Bid
  <2>2. Warrant(c) \in BidApprovals => approval[Warrant(c)] \in Granted
    BY <1>6, BidsAssumption DEF Accept, Warrant, BidsInv, Covered
  <2>3. accepted' = accepted \cup {Warrant(c)} /\ UNCHANGED <<bid, approval, step, copy>>
    BY <1>6 DEF Accept
  <2>4. BidsTypeOK'
    BY <2>1, <2>3 DEF BidsInv, BidsTypeOK
  <2>5. RecordsArePosts'
    BY <2>2, <2>3 DEF BidsInv, RecordsArePosts
  <2> QED
    BY <2>3, <2>4, <2>5 DEF BidsInv, Sound, Covered
<1>7. CASE Answered(c)
  <2>1. accepted # {}
    BY <1>7 DEF Answered
  <2>2. /\ [copy[c] EXCEPT !.status = "submitted"] \in Bid
        /\ Sound([copy[c] EXCEPT !.status = "submitted"])
    BY <1>0, <2>1 DEF Bid, Sound
  <2>3. copy' = [copy EXCEPT ![c] = [copy[c] EXCEPT !.status = "submitted"]]
    BY <1>7 DEF Answered, Becomes
  <2> QED
    BY <1>7, <2>1, <2>2, <2>3, QuietStep, SameApprovals DEF Answered
<1>8. CASE Mark(c)
  <2>1. accepted # {}
    BY <1>8 DEF Mark, BidsInv, Covered
  <2>2. ApprovalsAdvance
    <3>1. CASE UNCHANGED approval
      BY <3>1, SameApprovals
    <3>2. CASE approval' = [a \in BidApprovals |-> IF a = copy[c].approval /\ approval[a] = "approved"
                                                   THEN "executed" ELSE approval[a]]
      BY <3>2, <2>1 DEF ApprovalsAdvance, BidsInv, BidsTypeOK, Granted
    <3> QED
      BY <1>8, <3>1, <3>2 DEF Mark
  <2>3. CASE Goes(c, "saving") /\ UNCHANGED copy
    <3>1. copy' = [copy EXCEPT ![c] = copy[c]]
      BY <2>3 DEF BidsInv, BidsTypeOK
    <3> QED
      BY <1>0, <1>8, <2>2, <2>3, <3>1, QuietStep DEF Mark
  <2>4. CASE Returns(c)
    BY <1>8, <2>2, <2>4, QuietStep, DraftIsSound DEF Mark, Returns
  <2> QED
    BY <1>8, <2>3, <2>4 DEF Mark
<1>9. CASE SaveBid(c)
  BY <1>9, QuietStep, SameApprovals, DraftIsSound DEF SaveBid, Returns
<1> QED
  BY <1>1, <1>2, <1>3, <1>4, <1>5, <1>6, <1>7, <1>8, <1>9

\* The submissions, the operator's decisions, expiry and deaths
LEMMA BidsStepKeepsInv == BidsInv /\ [BidsNext]_bidVars => BidsInv'
<1> SUFFICES ASSUME BidsInv, [BidsNext]_bidVars PROVE BidsInv'
  OBVIOUS
<1>1. ASSUME NEW a \in BidApprovals, Decide(a) PROVE BidsInv'
  <2>1. ApprovalsAdvance /\ UNCHANGED <<bid, step, copy, accepted>>
    BY <1>1 DEF Decide, ApprovalsAdvance, BidsInv, BidsTypeOK, Granted
  <2>2. BidsTypeOK' /\ Sound(bid)' /\ RecordsArePosts'
    BY <2>1 DEF BidsInv, BidsTypeOK, Sound, RecordsArePosts, ApprovalsAdvance
  <2>3. ASSUME NEW c \in Chats PROVE Sound(copy[c])' /\ Covered(c)'
    <3>1. copy[c].status = "ready" => copy[c].approval \in BidApprovals
      BY DEF BidsInv, Sound
    <3> QED
      BY <2>1, <3>1 DEF BidsInv, Sound, Covered, ApprovalsAdvance
  <2> QED
    BY <2>2, <2>3 DEF BidsInv
<1>2. CASE BidsDie
  <2>1. BidsTypeOK' /\ RecordsArePosts' /\ Sound(bid)'
    BY <1>2, DraftIsSound DEF BidsDie, BidsInv, BidsTypeOK, RecordsArePosts, Sound
  <2>2. ASSUME NEW c \in Chats PROVE Sound(copy[c])' /\ Covered(c)'
    BY <1>2 DEF BidsDie, Draft, Sound, Covered
  <2> QED
    BY <2>1, <2>2 DEF BidsInv
<1>3. CASE UNCHANGED bidVars
  BY <1>3 DEF bidVars, BidsInv, BidsTypeOK, Sound, Covered, RecordsArePosts
<1> QED
  BY <1>1, <1>2, <1>3, SubmissionKeepsInv DEF BidsNext

\* The invariant holds in every state of every behaviour of the submissions.
THEOREM BidsInvariant == BidsSpec => []BidsInv
<1>1. BidsInit => BidsInv
  BY BidsInitially
<1>2. BidsInv /\ [BidsNext]_bidVars => BidsInv'
  BY BidsStepKeepsInv
<1> QED
  BY <1>1, <1>2, PTL DEF BidsSpec

\* submit_bid: however submissions of one bid overlap, fail and are cut short, what the row
\* and the approval say happened did happen, and an approval that covered a post was granted.
THEOREM BidsRecordsArePosts == BidsSpec => []RecordsArePosts
<1>1. BidsInv => RecordsArePosts
  BY DEF BidsInv
<1> QED
  BY <1>1, BidsInvariant, PTL
===============================================================================
