----------------------------- MODULE WholeProofs ----------------------------
(***************************************************************************)
(* Proofs that what comes in pieces ends up whole, for every value of the  *)
(* constants that ConversationsAssumption admits: the streams of a model's *)
(* messages, and the documents that retrieval is fed.                      *)
(***************************************************************************)
EXTENDS MCConversations, Sums, Sequences, SequenceTheorems

-----------------------------------------------------------------------------
(* Streams: the events of a message, and what they add up to                 *)

\* FlattenSeq is one operator in every module.
LEMMA StreamsJoin == \A s : Streams!FlattenSeq(s) = FlattenSeq(s)
  BY DEF Streams!FlattenSeq, FlattenSeq

Parts == [kind : Streams!Kinds, pieces : Seq(Nat)]
WireEvents == [type : {"open", "piece", "shut", "reason", "end"}, block : Nat,
               kind : Streams!Kinds, pieces : Seq(Nat)]

Said == message.blocks
Many == Len(Said)

\* How many events of a block open it, carry its pieces and close it.
Opens(blk) == IF format = "anthropic" \/ (format = "chat" /\ blk.kind = "tool") THEN 1 ELSE 0
AtOnce(blk) == format = "gemini" /\ blk.kind = "tool"
Carried(blk) == IF AtOnce(blk) THEN 1 ELSE Len(blk.pieces)
Shuts == IF format = "anthropic" THEN 1 ELSE 0

EventsOf == [k \in 1..Many |-> Streams!BlockEvents(k, Said[k])]
TextParts == [k \in 1..Many |-> IF Said[k].kind = "text" THEN Said[k].pieces ELSE <<>>]

\* The message is one that the collectors can rebuild: its blocks have pieces.
Speaks ==
    /\ format \in {"openai", "anthropic", "gemini", "chat"}
    /\ Said \in Seq(Parts) /\ Many \in Nat /\ Many >= 1
    /\ \A k \in 1..Many : /\ Said[k] \in Parts /\ Said[k].pieces \in Seq(Nat)
                          /\ Len(Said[k].pieces) \in Nat /\ Len(Said[k].pieces) >= 1
    /\ message.stop \in {"stop", "length", "refusal"}

LEMMA PartsOfMessage ==
    ASSUME NEW bs \in Seq(Parts), Len(bs) >= 1,
           \A k \in 1..Len(bs) : Len(bs[k].pieces) >= 1
    PROVE  /\ Len(bs) \in Nat
           /\ \A k \in 1..Len(bs) : /\ bs[k] \in Parts /\ bs[k].pieces \in Seq(Nat)
                                    /\ Len(bs[k].pieces) \in Nat /\ Len(bs[k].pieces) >= 1
<1>1. Len(bs) \in Nat /\ \A k \in 1..Len(bs) : bs[k] \in Parts
  OBVIOUS
<1>2. \A k \in 1..Len(bs) : bs[k].pieces \in Seq(Nat)
  BY <1>1 DEF Parts
<1> QED
  BY <1>1, <1>2

LEMMA BlockIs ==
    ASSUME NEW kind \in Streams!Kinds, NEW p \in Seq(Nat)
    PROVE  /\ Block(kind, p) \in Parts /\ Block(kind, p).pieces = p
           /\ Block(kind, p).kind = kind
BY DEF Block, Parts

LEMMA MessagesSpeak ==
    ASSUME message \in Messages, format \in Formats PROVE Speaks
<1>1. /\ "thinking" \in Streams!Kinds /\ "text" \in Streams!Kinds /\ "tool" \in Streams!Kinds
  BY DEF Streams!Kinds
<1>2. /\ <<9>> \in Seq(Nat) /\ <<1>> \in Seq(Nat) /\ <<2>> \in Seq(Nat) /\ <<3>> \in Seq(Nat)
      /\ <<1, 2>> \in Seq(Nat) /\ <<3, 4>> \in Seq(Nat)
      /\ Len(<<9>>) >= 1 /\ Len(<<1>>) >= 1 /\ Len(<<2>>) >= 1 /\ Len(<<3>>) >= 1
      /\ Len(<<1, 2>>) >= 1 /\ Len(<<3, 4>>) >= 1
  OBVIOUS
<1> DEFINE Fit == {blk \in Parts : Len(blk.pieces) >= 1}
<1>3. /\ Block("thinking", <<9>>) \in Fit /\ Block("text", <<1, 2>>) \in Fit
      /\ Block("tool", <<3, 4>>) \in Fit /\ Block("text", <<1>>) \in Fit
      /\ Block("tool", <<2>>) \in Fit /\ Block("tool", <<3>>) \in Fit
      /\ Block("tool", <<1, 2>>) \in Fit
  <2>1. \A p \in {<<9>>, <<1>>, <<2>>, <<3>>, <<1, 2>>, <<3, 4>>} : p \in Seq(Nat) /\ Len(p) >= 1
    BY <1>2
  <2>2. ASSUME NEW kind \in Streams!Kinds, NEW p \in Seq(Nat), Len(p) >= 1
        PROVE  Block(kind, p) \in Fit
    <3>1. Block(kind, p) \in Parts /\ Block(kind, p).pieces = p
      BY BlockIs
    <3> QED
      BY <2>2, <3>1
  <2> HIDE DEF Fit
  <2>3. Block("thinking", <<9>>) \in Fit /\ Block("text", <<1, 2>>) \in Fit
    BY <1>1, <1>2, <2>2
  <2>4. Block("tool", <<3, 4>>) \in Fit /\ Block("text", <<1>>) \in Fit
    BY <1>1, <1>2, <2>2
  <2>5. Block("tool", <<2>>) \in Fit /\ Block("tool", <<3>>) \in Fit
    BY <1>1, <1>2, <2>2
  <2>6. Block("tool", <<1, 2>>) \in Fit
    BY <1>1, <1>2, <2>2
  <2> QED
    BY <2>3, <2>4, <2>5, <2>6
<1>4. /\ Said \in Seq(Fit) /\ Len(Said) >= 1 /\ message.stop \in {"stop", "length", "refusal"}
  <2> DEFINE Whole(ms) == ms.blocks \in Seq(Fit) /\ Len(ms.blocks) >= 1 /\ ms.stop \in {"stop", "length", "refusal"}
  <2> HIDE DEF Fit
  <2>1. ASSUME NEW x \in Fit PROVE <<x>> \in Seq(Fit) /\ Len(<<x>>) >= 1
    OBVIOUS
  <2>2. ASSUME NEW x \in Fit, NEW y \in Fit, NEW z \in Fit
        PROVE  <<x, y, z>> \in Seq(Fit) /\ Len(<<x, y, z>>) >= 1
    OBVIOUS
  <2>3. ASSUME NEW s, NEW stop \in {"stop", "length", "refusal"}, NEW whole, s \in Seq(Fit), Len(s) >= 1
        PROVE  Whole(Answer(s, stop, whole))
    BY <2>3 DEF Answer
  <2>4. \A ms \in Messages : Whole(ms)
    <3> HIDE DEF Whole
    <3>1. /\ <<Block("thinking", <<9>>), Block("text", <<1, 2>>), Block("tool", <<3, 4>>)>> \in Seq(Fit)
          /\ Len(<<Block("thinking", <<9>>), Block("text", <<1, 2>>), Block("tool", <<3, 4>>)>>) >= 1
      BY <1>3, <2>2
    <3>2. /\ <<Block("text", <<1, 2>>)>> \in Seq(Fit) /\ Len(<<Block("text", <<1, 2>>)>>) >= 1
          /\ <<Block("tool", <<1, 2>>)>> \in Seq(Fit) /\ Len(<<Block("tool", <<1, 2>>)>>) >= 1
          /\ <<Block("text", <<1>>)>> \in Seq(Fit) /\ Len(<<Block("text", <<1>>)>>) >= 1
      BY <1>3, <2>1
    <3>3. /\ <<Block("text", <<1>>), Block("tool", <<2>>), Block("tool", <<3>>)>> \in Seq(Fit)
          /\ Len(<<Block("text", <<1>>), Block("tool", <<2>>), Block("tool", <<3>>)>>) >= 1
      BY <1>3, <2>2
    <3>4. /\ Whole(Answer(<<Block("thinking", <<9>>), Block("text", <<1, 2>>), Block("tool", <<3, 4>>)>>, "stop", TRUE))
          /\ Whole(Answer(<<Block("text", <<1, 2>>)>>, "length", FALSE))
          /\ Whole(Answer(<<Block("text", <<1>>), Block("tool", <<2>>), Block("tool", <<3>>)>>, "length", TRUE))
          /\ Whole(Answer(<<Block("tool", <<1, 2>>)>>, "length", FALSE))
          /\ Whole(Answer(<<Block("text", <<1>>)>>, "refusal", TRUE))
      BY <2>3, <3>1, <3>2, <3>3
    <3> QED
      BY <3>4, Zenon DEF Messages
  <2> QED
    BY <2>4 DEF Said
<1>5. Said \in Seq(Parts) /\ \A k \in 1..Len(Said) : Len(Said[k].pieces) >= 1
  BY <1>4
<1> QED
  BY <1>4, <1>5, PartsOfMessage, StreamsAssumption DEF Speaks, Many

LEMMA EventIs ==
    ASSUME NEW type \in {"open", "piece", "shut"}, NEW k \in Nat, NEW blk \in Parts, NEW p \in Seq(Nat)
    PROVE  LET e == Streams!Event(type, k, blk, p)
           IN  e \in WireEvents /\ e.type = type /\ e.block = k /\ e.kind = blk.kind /\ e.pieces = p
BY DEF Streams!Event, WireEvents, Parts

\* The events of a block, one by one.
EventAt(blk, k, j, ev) ==
    /\ ev.block = k /\ ev.kind = blk.kind
    /\ ev.type = IF j < Opens(blk) THEN "open"
                 ELSE IF j < Opens(blk) + Carried(blk) THEN "piece" ELSE "shut"
    /\ ev.pieces = IF ev.type # "piece" THEN <<>>
                   ELSE IF AtOnce(blk) THEN blk.pieces ELSE <<blk.pieces[j + 1 - Opens(blk)]>>

LEMMA EventsOfBlock ==
    ASSUME NEW blk \in Parts, Len(blk.pieces) >= 1, NEW k \in Nat
    PROVE  LET e == Streams!BlockEvents(k, blk)
           IN  /\ e \in Seq(WireEvents) /\ Len(e) \in Nat
               /\ Len(e) = Opens(blk) + Carried(blk) + Shuts
               /\ \A j \in 0..(Len(e) - 1) : e[j + 1] \in WireEvents /\ EventAt(blk, k, j, e[j + 1])
<1> DEFINE open == Streams!Event("open", k, blk, <<>>)
           shut == Streams!Event("shut", k, blk, <<>>)
           all == Streams!Event("piece", k, blk, blk.pieces)
           one(x) == Streams!Event("piece", k, blk, <<blk.pieces[x]>>)
           A == IF format = "anthropic" \/ (format = "chat" /\ blk.kind = "tool") THEN <<open>> ELSE <<>>
           M == IF AtOnce(blk) THEN <<all>> ELSE [x \in DOMAIN blk.pieces |-> one(x)]
           Z == IF format = "anthropic" THEN <<shut>> ELSE <<>>
           e == (A \o M) \o Z
<1>1. Streams!BlockEvents(k, blk) = e
  BY DEF Streams!BlockEvents, AtOnce
<1>2. /\ blk.pieces \in Seq(Nat) /\ Len(blk.pieces) \in Nat /\ DOMAIN blk.pieces = 1..Len(blk.pieces)
      /\ <<>> \in Seq(Nat) /\ \A x \in 1..Len(blk.pieces) : <<blk.pieces[x]>> \in Seq(Nat)
  BY DEF Parts
<1>3. /\ open \in WireEvents /\ shut \in WireEvents /\ all \in WireEvents
      /\ open.type = "open" /\ shut.type = "shut" /\ all.type = "piece"
      /\ open.block = k /\ shut.block = k /\ all.block = k
      /\ open.kind = blk.kind /\ shut.kind = blk.kind /\ all.kind = blk.kind
      /\ open.pieces = <<>> /\ shut.pieces = <<>> /\ all.pieces = blk.pieces
  <2>1. /\ open \in WireEvents /\ open.type = "open" /\ open.block = k /\ open.kind = blk.kind
        /\ open.pieces = <<>>
    <3> DEFINE p == <<>>
               v == Streams!Event("open", k, blk, p)
    <3>1. p \in Seq(Nat)
      BY <1>2
    <3>2. v \in WireEvents /\ v.type = "open" /\ v.block = k /\ v.kind = blk.kind /\ v.pieces = p
      <4> HIDE DEF p
      <4> QED
        BY <3>1, EventIs
    <3> QED
      BY <3>2
  <2>2. /\ shut \in WireEvents /\ shut.type = "shut" /\ shut.block = k /\ shut.kind = blk.kind
        /\ shut.pieces = <<>>
    <3> DEFINE p == <<>>
               v == Streams!Event("shut", k, blk, p)
    <3>1. p \in Seq(Nat)
      BY <1>2
    <3>2. v \in WireEvents /\ v.type = "shut" /\ v.block = k /\ v.kind = blk.kind /\ v.pieces = p
      <4> HIDE DEF p
      <4> QED
        BY <3>1, EventIs
    <3> QED
      BY <3>2
  <2>3. /\ all \in WireEvents /\ all.type = "piece" /\ all.block = k /\ all.kind = blk.kind
        /\ all.pieces = blk.pieces
    BY <1>2, EventIs
  <2> HIDE DEF open, shut, all
  <2> QED
    BY <2>1, <2>2, <2>3
<1>4. \A x \in 1..Len(blk.pieces) : /\ one(x) \in WireEvents /\ one(x).type = "piece"
                                  /\ one(x).block = k /\ one(x).kind = blk.kind
                                  /\ one(x).pieces = <<blk.pieces[x]>>
  <2> TAKE x \in 1..Len(blk.pieces)
  <2> DEFINE p == <<blk.pieces[x]>>
             v == Streams!Event("piece", k, blk, p)
  <2>1. p \in Seq(Nat)
    BY <1>2
  <2>2. v \in WireEvents /\ v.type = "piece" /\ v.block = k /\ v.kind = blk.kind /\ v.pieces = p
    <3> HIDE DEF p
    <3> QED
      BY <2>1, EventIs
  <2> QED
    BY <2>2
<1> HIDE DEF open, shut, all, one
<1>5. /\ A \in Seq(WireEvents) /\ Len(A) = Opens(blk) /\ Opens(blk) \in {0, 1}
      /\ \A j \in 1..Opens(blk) : A[j] = open
  BY <1>3 DEF Opens
<1>6. /\ M \in Seq(WireEvents) /\ Len(M) = Carried(blk) /\ Carried(blk) \in Nat
      /\ \A j \in 1..Carried(blk) : M[j] = IF AtOnce(blk) THEN all ELSE one(j)
  <2>1. CASE AtOnce(blk)
    BY <1>3, <2>1 DEF Carried
  <2>2. CASE ~AtOnce(blk)
    <3>1. [x \in 1..Len(blk.pieces) |-> one(x)] \in [1..Len(blk.pieces) -> WireEvents]
      BY <1>4
    <3>2. M = [x \in 1..Len(blk.pieces) |-> one(x)]
      BY <1>2, <2>2
    <3> HIDE DEF M
    <3> QED
      BY <1>2, <2>2, <3>1, <3>2 DEF Carried
  <2> QED
    BY <2>1, <2>2
<1>7. /\ Z \in Seq(WireEvents) /\ Len(Z) = Shuts /\ Shuts \in {0, 1}
      /\ \A j \in 1..Shuts : Z[j] = shut
  BY <1>3 DEF Shuts
<1> HIDE DEF A, M, Z
<1>8. /\ A \o M \in Seq(WireEvents) /\ Len(A \o M) = Opens(blk) + Carried(blk)
      /\ \A j \in 1..(Opens(blk) + Carried(blk)) :
            (A \o M)[j] = IF j <= Opens(blk) THEN A[j] ELSE M[j - Opens(blk)]
  BY <1>5, <1>6, ConcatProperties
<1>9. /\ e \in Seq(WireEvents) /\ Len(e) = Opens(blk) + Carried(blk) + Shuts
      /\ \A j \in 1..(Opens(blk) + Carried(blk) + Shuts) :
            e[j] = IF j <= Opens(blk) + Carried(blk) THEN (A \o M)[j] ELSE Z[j - (Opens(blk) + Carried(blk))]
  BY <1>5, <1>6, <1>7, <1>8, ConcatProperties
<1> HIDE DEF e
<1>10. ASSUME NEW j \in 0..(Len(e) - 1) PROVE e[j + 1] \in WireEvents /\ EventAt(blk, k, j, e[j + 1])
  <2>1. j \in Nat /\ j + 1 \in 1..(Opens(blk) + Carried(blk) + Shuts)
    BY <1>5, <1>6, <1>7, <1>9
  <2>2. CASE j < Opens(blk)
    <3>1. e[j + 1] = open
      BY <1>5, <1>6, <1>7, <1>8, <1>9, <2>1, <2>2
    <3> QED
      BY <1>3, <2>2, <3>1 DEF EventAt
  <2>3. CASE ~(j < Opens(blk)) /\ j < Opens(blk) + Carried(blk)
    <3>1. j + 1 - Opens(blk) \in 1..Carried(blk) /\ (j + 1) - Opens(blk) = j + 1 - Opens(blk)
      BY <1>5, <1>6, <2>1, <2>3
    <3>2. e[j + 1] = M[j + 1 - Opens(blk)]
      <4>1. e[j + 1] = (A \o M)[j + 1] /\ j + 1 \in 1..(Opens(blk) + Carried(blk)) /\ ~(j + 1 <= Opens(blk))
        <5>1. j + 1 <= Opens(blk) + Carried(blk) /\ ~(j + 1 <= Opens(blk))
          BY <1>5, <1>6, <2>1, <2>3
        <5>2. j + 1 \in 1..(Opens(blk) + Carried(blk) + Shuts) /\ j + 1 \in 1..(Opens(blk) + Carried(blk))
          BY <1>5, <1>6, <2>1, <5>1
        <5> QED
          BY <1>9, <5>1, <5>2
      <4>2. (A \o M)[j + 1] = M[(j + 1) - Opens(blk)]
        BY <1>8, <4>1
      <4> QED
        BY <3>1, <4>1, <4>2
    <3>3. CASE AtOnce(blk)
      <4>1. e[j + 1] = all
        BY <1>6, <3>1, <3>2, <3>3
      <4> QED
        BY <1>3, <2>3, <3>3, <4>1 DEF EventAt
    <3>4. CASE ~AtOnce(blk)
      <4>1. e[j + 1] = one(j + 1 - Opens(blk)) /\ j + 1 - Opens(blk) \in 1..Len(blk.pieces)
        BY <1>6, <3>1, <3>2, <3>4 DEF Carried
      <4> QED
        BY <1>4, <2>3, <3>4, <4>1 DEF EventAt
    <3> QED
      BY <3>3, <3>4
  <2>4. CASE ~(j < Opens(blk)) /\ ~(j < Opens(blk) + Carried(blk))
    <3>1. e[j + 1] = shut
      BY SMTT(30), <1>5, <1>6, <1>7, <1>8, <1>9, <2>1, <2>4
    <3> QED
      BY <1>3, <2>4, <3>1 DEF EventAt
  <2> QED
    BY <2>2, <2>3, <2>4
<1> QED
  BY <1>1, <1>5, <1>6, <1>7, <1>9, <1>10

-----------------------------------------------------------------------------
(* Streams: what is there after i blocks and j events of the next one        *)

\* The pieces of a block that its first j events carry.
Got(blk, j) ==
    IF j <= Opens(blk) THEN 0
    ELSE IF AtOnce(blk) \/ j - Opens(blk) > Len(blk.pieces) THEN Len(blk.pieces)
    ELSE j - Opens(blk)
Partial(blk, j) == [kind |-> blk.kind, pieces |-> SubSeq(blk.pieces, 1, Got(blk, j))]

HeldAt(i, j) ==
    [k \in 1..(IF j = 0 THEN i ELSE i + 1) |-> IF k <= i THEN Said[k] ELSE Partial(Said[i + 1], j)]
OpenAt(i, j) == IF format = "anthropic" /\ 0 < j /\ j < Len(EventsOf[i + 1]) THEN {i + 1} ELSE {}
ReadOf(blk, j) == IF blk.kind = "text" THEN SubSeq(blk.pieces, 1, Got(blk, j)) ELSE <<>>
ReadAt(i, j) == IF j = 0 THEN Joined(TextParts, i) ELSE Joined(TextParts, i) \o ReadOf(Said[i + 1], j)

LEMMA InTurn ==
    ASSUME NEW x \in Seq(Nat), NEW y \in Seq(Nat), NEW z \in Seq(Nat)
    PROVE  x \o (y \o z) = (x \o y) \o z
BY SMTT(30)

LEMMA ShapesOfMessage ==
    ASSUME Speaks
    PROVE  /\ EventsOf \in [1..Many -> Seq(WireEvents)] /\ TextParts \in [1..Many -> Seq(Nat)]
           /\ \A k \in 1..Many : /\ Len(EventsOf[k]) \in Nat
                                 /\ Len(EventsOf[k]) = Opens(Said[k]) + Carried(Said[k]) + Shuts
                                 /\ \A j \in 0..(Len(EventsOf[k]) - 1) :
                                       /\ EventsOf[k][j + 1] \in WireEvents
                                       /\ EventAt(Said[k], k, j, EventsOf[k][j + 1])
<1>1. \A k \in 1..Many : /\ Said[k] \in Parts /\ Len(Said[k].pieces) >= 1 /\ k \in Nat
                         /\ Said[k].pieces \in Seq(Nat)
  BY DEF Speaks
<1>2. \A k \in 1..Many : EventsOf[k] = Streams!BlockEvents(k, Said[k])
  BY DEF EventsOf
<1>3. ASSUME NEW k \in 1..Many
      PROVE  /\ EventsOf[k] \in Seq(WireEvents) /\ Len(EventsOf[k]) \in Nat
             /\ Len(EventsOf[k]) = Opens(Said[k]) + Carried(Said[k]) + Shuts
             /\ \A j \in 0..(Len(EventsOf[k]) - 1) :
                   /\ EventsOf[k][j + 1] \in WireEvents
                   /\ EventAt(Said[k], k, j, EventsOf[k][j + 1])
  BY <1>1, <1>2, EventsOfBlock
<1>4. EventsOf \in [1..Many -> Seq(WireEvents)]
  <2>1. EventsOf = [k \in 1..Many |-> EventsOf[k]]
    BY DEF EventsOf
  <2> QED
    BY <1>3, <2>1
<1>5. TextParts \in [1..Many -> Seq(Nat)]
  BY <1>1 DEF TextParts
<1> QED
  BY <1>3, <1>4, <1>5

\* The numbers of events.
LEMMA CountsOf ==
    ASSUME Speaks, NEW k \in 1..Many
    PROVE  /\ Opens(Said[k]) \in {0, 1} /\ Shuts \in {0, 1}
           /\ Carried(Said[k]) \in Nat /\ Carried(Said[k]) >= 1
           /\ Carried(Said[k]) = IF AtOnce(Said[k]) THEN 1 ELSE Len(Said[k].pieces)
           /\ AtOnce(Said[k]) => Opens(Said[k]) = 0 /\ Shuts = 0
           /\ Shuts = 1 <=> format = "anthropic"
           /\ Shuts = 1 => Opens(Said[k]) = 1
           /\ Said[k].pieces \in Seq(Nat)
           /\ Len(Said[k].pieces) \in Nat /\ Len(Said[k].pieces) >= 1
<1>1. /\ Said[k].pieces \in Seq(Nat) /\ Len(Said[k].pieces) \in Nat /\ Len(Said[k].pieces) >= 1
  BY DEF Speaks
<1> QED
  BY <1>1 DEF Opens, Shuts, Carried, AtOnce

\* What an event adds to the pieces of its block.
LEMMA GotMore ==
    ASSUME Speaks, NEW k \in 1..Many, NEW j \in 0..(Len(EventsOf[k]) - 1)
    PROVE  LET blk  == Said[k]
               ev == EventsOf[k][j + 1]
           IN  /\ Got(blk, j) \in 0..Len(blk.pieces) /\ Got(blk, j + 1) \in 0..Len(blk.pieces)
               /\ ev.type = "piece" =>
                     SubSeq(blk.pieces, 1, Got(blk, j)) \o ev.pieces = SubSeq(blk.pieces, 1, Got(blk, j + 1))
               /\ ev.type = "open" => j = 0 /\ Got(blk, j + 1) = 0
               /\ ev.type = "shut" => Got(blk, j) = Len(blk.pieces) /\ Got(blk, j + 1) = Len(blk.pieces)
               /\ j + 1 = Len(EventsOf[k]) => Got(blk, j + 1) = Len(blk.pieces)
<1> DEFINE blk == Said[k]
           ev == EventsOf[k][j + 1]
           p == blk.pieces
<1>1. /\ Opens(blk) \in {0, 1} /\ Shuts \in {0, 1} /\ Carried(blk) \in Nat /\ Carried(blk) >= 1
      /\ Carried(blk) = IF AtOnce(blk) THEN 1 ELSE Len(p)
      /\ AtOnce(blk) => Opens(blk) = 0 /\ Shuts = 0
      /\ p \in Seq(Nat) /\ Len(p) \in Nat /\ Len(p) >= 1
  BY CountsOf
<1>2. /\ Len(EventsOf[k]) = Opens(blk) + Carried(blk) + Shuts /\ EventAt(blk, k, j, ev)
  BY ShapesOfMessage
<1> HIDE DEF blk, ev
<1>3. j \in Nat /\ j < Opens(blk) + Carried(blk) + Shuts
  BY <1>1, <1>2
<1>4. Got(blk, j) \in 0..Len(p) /\ Got(blk, j + 1) \in 0..Len(p)
  <2>1. \A x \in Nat : Got(blk, x) \in 0..Len(p)
    BY <1>1 DEF Got
  <2>2. j \in Nat /\ j + 1 \in Nat
    BY <1>3
  <2> HIDE DEF p
  <2> QED
    BY <2>1, <2>2
<1>5. ev.type = "open" => j = 0 /\ Got(blk, j + 1) = 0
  BY <1>1, <1>2, <1>3 DEF EventAt, Got
<1>6. ASSUME ev.type = "shut" PROVE Got(blk, j) = Len(p) /\ Got(blk, j + 1) = Len(p)
  <2>1. j >= Opens(blk) + Carried(blk) /\ Shuts = 1 /\ ~AtOnce(blk) /\ Carried(blk) = Len(p)
    BY <1>1, <1>2, <1>3, <1>6 DEF EventAt
  <2> QED
    BY <1>1, <1>3, <2>1 DEF Got
<1>7. ASSUME j + 1 = Len(EventsOf[k]) PROVE Got(blk, j + 1) = Len(p)
  <2>1. j + 1 = Opens(blk) + Carried(blk) + Shuts
    BY <1>2, <1>7
  <2>2. CASE AtOnce(blk)
    BY <1>1, <1>3, <2>1, <2>2 DEF Got
  <2>3. CASE ~AtOnce(blk)
    BY <1>1, <1>3, <2>1, <2>3 DEF Got
  <2> QED
    BY <2>2, <2>3
<1>8. ASSUME ev.type = "piece"
      PROVE  SubSeq(p, 1, Got(blk, j)) \o ev.pieces = SubSeq(p, 1, Got(blk, j + 1))
  <2>1. /\ ~(j < Opens(blk)) /\ j < Opens(blk) + Carried(blk)
        /\ ev.pieces = IF AtOnce(blk) THEN p ELSE <<p[j + 1 - Opens(blk)]>>
    BY <1>1, <1>2, <1>3, <1>8 DEF EventAt
  <2>2. CASE AtOnce(blk)
    <3>1. j = 0 /\ Got(blk, j) = 0 /\ Got(blk, j + 1) = Len(p) /\ ev.pieces = p
      BY <1>1, <1>3, <2>1, <2>2 DEF Got
    <3>2. SubSeq(p, 1, 0) = <<>> /\ SubSeq(p, 1, Len(p)) = p /\ <<>> \o p = p
      BY <1>1, SubSeqEmpty, SubSeqFull
    <3> QED
      BY <3>1, <3>2
  <2>3. CASE ~AtOnce(blk)
    <3> DEFINE g == j - Opens(blk)
    <3>1. /\ g \in Nat /\ g + 1 <= Len(p) /\ Got(blk, j) = g /\ Got(blk, j + 1) = g + 1
          /\ ev.pieces = <<p[g + 1]>> /\ g + 1 \in 1..Len(p)
      <4>1. j + 1 - Opens(blk) = g + 1
        BY <1>1, <1>3
      <4> QED
        BY SMTT(30), <1>1, <1>3, <2>1, <2>3, <4>1 DEF Got
    <3> HIDE DEF g
    <3>2. SubSeq(p, 1, g) \o <<p[g + 1]>> = SubSeq(p, 1, g + 1)
      <4> HIDE DEF p
      <4> DEFINE s == SubSeq(p, 1, g)
                 u == SubSeq(p, 1, g + 1)
      <4>1. /\ s \in Seq(Nat) /\ Len(s) = g /\ \A x \in 1..g : s[x] = p[x]
        BY <1>1, <3>1
      <4>2. /\ u \in Seq(Nat) /\ Len(u) = g + 1 /\ \A x \in 1..(g + 1) : u[x] = p[x]
        BY <1>1, <3>1
      <4>3. p[g + 1] \in Nat
        BY <1>1, <3>1
      <4> HIDE DEF s, u
      <4>4. <<p[g + 1]>> \in Seq(Nat) /\ Len(<<p[g + 1]>>) = 1
        BY <4>3
      <4>5. /\ s \o <<p[g + 1]>> \in Seq(Nat) /\ Len(s \o <<p[g + 1]>>) = g + 1
            /\ \A x \in 1..(g + 1) : (s \o <<p[g + 1]>>)[x] = p[x]
        BY <3>1, <4>1, <4>3, <4>4, ConcatProperties
      <4> DEFINE w == s \o <<p[g + 1]>>
      <4>6. w \in Seq(Nat) /\ Len(w) = Len(u) /\ \A x \in 1..Len(w) : w[x] = u[x]
        <5>1. w \in Seq(Nat) /\ Len(w) = g + 1 /\ \A x \in 1..(g + 1) : w[x] = p[x]
          BY <4>5
        <5> HIDE DEF w
        <5> QED
          BY <4>2, <5>1
      <4> HIDE DEF w
      <4>7. w = u
        BY <4>2, <4>6, SeqEqual
      <4> QED
        BY <4>7 DEF w, s, u
    <3> QED
      BY <3>1, <3>2
  <2> QED
    BY <2>2, <2>3
<1> QED
  BY <1>4, <1>5, <1>6, <1>7, <1>8 DEF blk, ev

\* A block that all of its events have carried is there.
LEMMA BlockDone ==
    ASSUME Speaks, NEW i \in 0..(Many - 1), NEW j \in Nat, j >= 1, j = Len(EventsOf[i + 1])
    PROVE  /\ HeldAt(i, j) = HeldAt(i + 1, 0)
           /\ OpenAt(i, j) = {}
           /\ ReadAt(i, j) = ReadAt(i + 1, 0)
<1> DEFINE blk == Said[i + 1]
<1>1. i + 1 \in 1..Many /\ i \in Nat /\ i + 1 \in Nat /\ blk \in Parts /\ blk.pieces \in Seq(Nat)
  BY DEF Speaks
<1>2. Got(blk, j) = Len(blk.pieces)
  <2>1. j - 1 \in 0..(Len(EventsOf[i + 1]) - 1) /\ (j - 1) + 1 = j
    OBVIOUS
  <2> QED
    BY <1>1, <2>1, GotMore
<1>3. SubSeq(blk.pieces, 1, Got(blk, j)) = blk.pieces
  BY <1>1, <1>2, SubSeqFull
<1>4. Partial(blk, j) = blk
  <2>1. blk = [kind |-> blk.kind, pieces |-> blk.pieces]
    BY <1>1 DEF Parts
  <2> HIDE DEF blk
  <2> QED
    BY <1>3, <2>1 DEF Partial
<1>5. HeldAt(i, j) = HeldAt(i + 1, 0)
  <2>1. HeldAt(i, j) = [k \in 1..(i + 1) |-> IF k <= i THEN Said[k] ELSE blk]
    BY <1>4 DEF HeldAt
  <2>2. HeldAt(i + 1, 0) = [k \in 1..(i + 1) |-> Said[k]]
    BY <1>1 DEF HeldAt
  <2>3. \A k \in 1..(i + 1) : (IF k <= i THEN Said[k] ELSE blk) = Said[k]
    BY <1>1
  <2> HIDE DEF blk
  <2> QED
    BY <2>1, <2>2, <2>3
<1>6. OpenAt(i, j) = {}
  BY DEF OpenAt
<1>7. ReadAt(i, j) = ReadAt(i + 1, 0)
  <2>1. TextParts[i + 1] = ReadOf(blk, j)
    BY <1>1, <1>3 DEF TextParts, ReadOf
  <2>2. Joined(TextParts, i + 1) = Joined(TextParts, i) \o TextParts[i + 1]
    <3>1. (i + 1) - 1 = i
      BY <1>1
    <3> QED
      BY ZenonT(30), <1>1, <3>1, ShapesOfMessage, JoinedNext DEF Speaks
  <2>3. j # 0
    OBVIOUS
  <2> HIDE DEF blk
  <2>4. ReadAt(i, j) = Joined(TextParts, i) \o ReadOf(blk, j)
    BY <2>3 DEF ReadAt, blk
  <2>5. ReadAt(i + 1, 0) = Joined(TextParts, i + 1)
    BY DEF ReadAt
  <2> QED
    BY <2>1, <2>2, <2>4, <2>5
<1> QED
  BY <1>5, <1>6, <1>7

\* What the next event makes of what is there.
LEMMA EventAdds ==
    ASSUME Speaks, NEW i \in 0..(Many - 1), NEW j \in 0..(Len(EventsOf[i + 1]) - 1)
    PROVE  LET ev == EventsOf[i + 1][j + 1]
           IN  /\ ev.type \in {"open", "piece", "shut"} /\ ev.block = i + 1
               /\ ev.type = "open" =>
                     /\ Streams!Grown(HeldAt(i, j), ev) = HeldAt(i, j + 1)
                     /\ ReadAt(i, j + 1) = ReadAt(i, j)
                     /\ OpenAt(i, j + 1) = IF format = "anthropic" THEN OpenAt(i, j) \cup {i + 1}
                                           ELSE OpenAt(i, j)
               /\ ev.type = "piece" =>
                     /\ Streams!Grown(HeldAt(i, j), ev) = HeldAt(i, j + 1)
                     /\ ReadAt(i, j + 1) = ReadAt(i, j) \o Streams!Shown(ev)
                     /\ OpenAt(i, j + 1) = OpenAt(i, j)
               /\ ev.type = "shut" =>
                     /\ format = "anthropic" /\ j >= 1 /\ HeldAt(i, j) = HeldAt(i, j + 1)
                     /\ ReadAt(i, j + 1) = ReadAt(i, j)
                     /\ OpenAt(i, j + 1) = OpenAt(i, j) \ {i + 1}
<1> DEFINE blk == Said[i + 1]
           ev == EventsOf[i + 1][j + 1]
<1>1. /\ i + 1 \in 1..Many /\ i \in Nat /\ i + 1 \in Nat /\ j \in Nat /\ Many \in Nat
      /\ blk \in Parts /\ blk.pieces \in Seq(Nat) /\ Len(EventsOf[i + 1]) \in Nat
  BY ShapesOfMessage DEF Speaks
<1>2. /\ EventAt(blk, i + 1, j, ev)
      /\ Len(EventsOf[i + 1]) = Opens(blk) + Carried(blk) + Shuts
  BY <1>1, ShapesOfMessage
<1>3. /\ Opens(blk) \in {0, 1} /\ Shuts \in {0, 1} /\ Carried(blk) \in Nat /\ Carried(blk) >= 1
      /\ Shuts = 1 <=> format = "anthropic"
      /\ Shuts = 1 => Opens(blk) = 1
  BY <1>1, CountsOf
<1>4. /\ Got(blk, j) \in 0..Len(blk.pieces) /\ Got(blk, j + 1) \in 0..Len(blk.pieces)
      /\ ev.type = "piece" =>
            SubSeq(blk.pieces, 1, Got(blk, j)) \o ev.pieces = SubSeq(blk.pieces, 1, Got(blk, j + 1))
      /\ ev.type = "open" => j = 0 /\ Got(blk, j + 1) = 0
      /\ ev.type = "shut" => Got(blk, j) = Len(blk.pieces) /\ Got(blk, j + 1) = Len(blk.pieces)
  BY <1>1, GotMore
<1>5. ev.type \in {"open", "piece", "shut"} /\ ev.block = i + 1 /\ ev.kind = blk.kind
  BY <1>2 DEF EventAt
<1>6. Joined(TextParts, i) \in Seq(Nat)
  <2>1. i \in 0..Many /\ TextParts \in [1..Many -> Seq(Nat)]
    BY <1>1, ShapesOfMessage
  <2> QED
    BY <1>1, <2>1, JoinedType
<1>7. SubSeq(blk.pieces, 1, 0) = <<>>
  BY SubSeqEmpty
<1>8. /\ ReadOf(blk, j) \in Seq(Nat) /\ (j = 0 => ReadOf(blk, j) = <<>>)
  <2>1. SubSeq(blk.pieces, 1, Got(blk, j)) \in Seq(Nat)
    <3> HIDE DEF blk
    <3>1. Got(blk, j) \in Nat /\ Got(blk, j) <= Len(blk.pieces)
      BY <1>1, <1>4
    <3> QED
      BY SMTT(30), <1>1, <3>1, SubSeqProperties
  <2>2. j = 0 => Got(blk, j) = 0
    BY <1>1, <1>3 DEF Got
  <2> HIDE DEF blk
  <2> QED
    BY <1>7, <2>1, <2>2 DEF ReadOf
<1>9. ReadAt(i, j) = Joined(TextParts, i) \o ReadOf(blk, j)
  <2>1. Joined(TextParts, i) \o <<>> = Joined(TextParts, i)
    BY <1>6, ConcatEmptySeq
  <2> QED
    BY <1>8, <2>1 DEF ReadAt
<1>10. ReadAt(i, j + 1) = Joined(TextParts, i) \o ReadOf(blk, j + 1)
  BY <1>1 DEF ReadAt
\* The blocks.
<1>11. ASSUME ev.type \in {"open", "piece"},
              SubSeq(blk.pieces, 1, Got(blk, j)) \o ev.pieces = SubSeq(blk.pieces, 1, Got(blk, j + 1))
       PROVE  Streams!Grown(HeldAt(i, j), ev) = HeldAt(i, j + 1)
  <2> DEFINE h == HeldAt(i, j)
             old(k) == IF k <= Len(h) THEN h[k] ELSE [kind |-> Said[k].kind, pieces |-> <<>>]
             new(k) == IF k = i + 1 THEN [old(k) EXCEPT !.pieces = @ \o ev.pieces] ELSE old(k)
  <2>1. /\ Len(h) = IF j = 0 THEN i ELSE i + 1
        /\ \A k \in 1..i : h[k] = Said[k]
        /\ j # 0 => h[i + 1] = Partial(blk, j)
    BY <1>1 DEF HeldAt
  <2>2. (IF i + 1 > Len(h) THEN i + 1 ELSE Len(h)) = i + 1
    BY <1>1, <2>1
  <2>3. Streams!Grown(h, ev) = [k \in 1..(i + 1) |-> new(k)]
    <3> HIDE DEF h, blk, ev
    <3> QED
      BY <1>5, <2>2 DEF Streams!Grown, Said
  <2>4. ASSUME NEW k \in 1..i PROVE new(k) = Said[k]
    <3>1. k <= Len(h) /\ k # i + 1
      BY <1>1, <2>1
    <3> HIDE DEF h
    <3> QED
      BY <2>1, <3>1
  <2>5. old(i + 1) = Partial(blk, j)
    <3>1. CASE j = 0
      <4>1. Got(blk, 0) = 0
        BY <1>3 DEF Got
      <4>2. ~(i + 1 <= Len(h))
        BY <1>1, <2>1, <3>1
      <4> HIDE DEF h
      <4> QED
        BY <1>7, <3>1, <4>1, <4>2 DEF Partial
    <3>2. CASE j # 0
      <4>1. i + 1 <= Len(h)
        BY <1>1, <2>1, <3>2
      <4> HIDE DEF h
      <4> QED
        BY <2>1, <3>2, <4>1
    <3> QED
      BY <3>1, <3>2
  <2>6. new(i + 1) = Partial(blk, j + 1)
    <3>1. new(i + 1) = [old(i + 1) EXCEPT !.pieces = @ \o ev.pieces]
      BY <1>1
    <3> HIDE DEF old, new, blk, ev
    <3>2. new(i + 1) = [Partial(blk, j) EXCEPT !.pieces = @ \o ev.pieces]
      BY <2>5, <3>1
    <3> QED
      BY <1>11, <3>2 DEF Partial
  <2>7. HeldAt(i, j + 1) = [k \in 1..(i + 1) |-> IF k <= i THEN Said[k] ELSE Partial(blk, j + 1)]
    BY <1>1 DEF HeldAt
  <2>8. \A k \in 1..(i + 1) : new(k) = IF k <= i THEN Said[k] ELSE Partial(blk, j + 1)
    <3> HIDE DEF new, blk
    <3>1. \A k \in 1..(i + 1) : (k \in 1..i /\ k <= i) \/ (k = i + 1 /\ ~(k <= i))
      BY <1>1
    <3> QED
      BY <2>4, <2>6, <3>1
  <2> HIDE DEF new, blk, h
  <2> QED
    BY <2>3, <2>7, <2>8 DEF h
<1>12. ASSUME ev.type = "open" PROVE
            /\ Streams!Grown(HeldAt(i, j), ev) = HeldAt(i, j + 1)
            /\ ReadAt(i, j + 1) = ReadAt(i, j)
            /\ OpenAt(i, j + 1) = IF format = "anthropic" THEN OpenAt(i, j) \cup {i + 1}
                                  ELSE OpenAt(i, j)
  <2>1. j = 0 /\ Got(blk, j + 1) = 0 /\ Got(blk, j) = 0 /\ ev.pieces = <<>>
    <3>1. j = 0 /\ Got(blk, j + 1) = 0
      BY <1>4, <1>12
    <3>2. Got(blk, 0) = 0
      BY <1>3 DEF Got
    <3>3. ev.pieces = <<>>
      BY <1>2, <1>12 DEF EventAt
    <3> QED
      BY <3>1, <3>2, <3>3
  <2>2. SubSeq(blk.pieces, 1, Got(blk, j)) \o ev.pieces = SubSeq(blk.pieces, 1, Got(blk, j + 1))
    BY <1>7, <2>1
  <2>3. ReadOf(blk, j + 1) = ReadOf(blk, j)
    BY <2>1 DEF ReadOf
  <2>4. 1 < Len(EventsOf[i + 1]) <=> format = "anthropic" \/ Opens(blk) + Carried(blk) > 1
    BY <1>2, <1>3
  <2>5. OpenAt(i, j + 1) = IF format = "anthropic" THEN OpenAt(i, j) \cup {i + 1} ELSE OpenAt(i, j)
    BY <2>1, <2>4 DEF OpenAt
  <2> QED
    BY <1>9, <1>10, <1>11, <1>12, <2>2, <2>3, <2>5
<1>13. ASSUME ev.type = "piece" PROVE
            /\ Streams!Grown(HeldAt(i, j), ev) = HeldAt(i, j + 1)
            /\ ReadAt(i, j + 1) = ReadAt(i, j) \o Streams!Shown(ev)
            /\ OpenAt(i, j + 1) = OpenAt(i, j)
  <2>1. ReadOf(blk, j + 1) = ReadOf(blk, j) \o Streams!Shown(ev) /\ Streams!Shown(ev) \in Seq(Nat)
    <3>1. CASE blk.kind = "text"
      <4>1. /\ ReadOf(blk, j + 1) = SubSeq(blk.pieces, 1, Got(blk, j + 1))
            /\ ReadOf(blk, j) = SubSeq(blk.pieces, 1, Got(blk, j)) /\ Streams!Shown(ev) = ev.pieces
        BY <1>5, <3>1 DEF ReadOf, Streams!Shown
      <4>2. ev \in WireEvents
        BY <1>1, ShapesOfMessage
      <4>3. ev.pieces \in Seq(Nat)
        BY <4>2 DEF WireEvents
      <4> QED
        BY <1>4, <1>13, <4>1, <4>3
    <3>2. CASE blk.kind # "text"
      <4>1. ReadOf(blk, j + 1) = <<>> /\ ReadOf(blk, j) = <<>> /\ Streams!Shown(ev) = <<>>
        BY <1>5, <3>2 DEF ReadOf, Streams!Shown
      <4>2. <<>> \o <<>> = <<>> /\ <<>> \in Seq(Nat)
        OBVIOUS
      <4> QED
        BY <4>1, <4>2
    <3> QED
      BY <3>1, <3>2
  <2>2. Joined(TextParts, i) \o (ReadOf(blk, j) \o Streams!Shown(ev))
          = (Joined(TextParts, i) \o ReadOf(blk, j)) \o Streams!Shown(ev)
    <3>2. ReadOf(blk, j) \in Seq(Nat) /\ Streams!Shown(ev) \in Seq(Nat)
      BY <1>8, <2>1
    <3> HIDE DEF blk, ev
    <3> QED
      BY <1>6, <3>2, InTurn
  <2>3. OpenAt(i, j + 1) = OpenAt(i, j)
    <3>1. format = "anthropic" => 0 < j /\ j + 1 < Len(EventsOf[i + 1])
      BY <1>1, <1>2, <1>3, <1>13 DEF EventAt
    <3> QED
      BY <1>1, <3>1 DEF OpenAt
  <2> QED
    BY <1>4, <1>9, <1>10, <1>11, <1>13, <2>1, <2>2, <2>3
<1>14. ASSUME ev.type = "shut" PROVE
            /\ format = "anthropic" /\ j >= 1 /\ HeldAt(i, j) = HeldAt(i, j + 1)
            /\ ReadAt(i, j + 1) = ReadAt(i, j)
            /\ OpenAt(i, j + 1) = OpenAt(i, j) \ {i + 1}
  <2>1. /\ j >= Opens(blk) + Carried(blk) /\ Shuts = 1 /\ j >= 1 /\ j + 1 = Len(EventsOf[i + 1])
    BY SMTT(30), <1>1, <1>2, <1>3, <1>14 DEF EventAt
  <2>2. Got(blk, j) = Got(blk, j + 1)
    BY <1>4, <1>14
  <2>3. Partial(blk, j) = Partial(blk, j + 1) /\ ReadOf(blk, j) = ReadOf(blk, j + 1)
    BY <2>2 DEF Partial, ReadOf
  <2>4. HeldAt(i, j) = HeldAt(i, j + 1)
    <3>1. j # 0 /\ j + 1 # 0
      BY <1>1, <2>1
    <3> QED
      BY <2>3, <3>1 DEF HeldAt
  <2>5. OpenAt(i, j) = {i + 1} /\ OpenAt(i, j + 1) = {}
    BY <1>1, <1>3, <2>1 DEF OpenAt
  <2> QED
    BY <1>3, <1>9, <1>10, <2>1, <2>3, <2>4, <2>5
<1> QED
  BY <1>5, <1>12, <1>13, <1>14 DEF ev

-----------------------------------------------------------------------------
(* Streams: the wire, and where a call is on it                              *)

AllSaid == Joined(TextParts, Many)
StartOf(i) == Len(Joined(EventsOf, i))

\* What has arrived is i blocks and j events of the next one.
Place(i, j, sn, co, em) ==
    /\ i = Many => j = 0
    /\ i # Many => j < Len(EventsOf[i + 1])
    /\ sn = StartOf(i) + j
    /\ co = IF format = "openai" THEN Streams!Nothing
            ELSE [blocks |-> HeldAt(i, j), open |-> OpenAt(i, j), reason |-> "none"]
    /\ em = ReadAt(i, j)

\* What has arrived is the message and why it ended.
AllIn(sn, co, em) ==
    /\ format # "openai" /\ sn = StartOf(Many) + 1
    /\ co = [blocks |-> Said, open |-> {}, reason |-> message.stop]
    /\ em = AllSaid

Stage(sn, co, em) ==
    \/ \E i \in 0..Many, j \in Nat : Place(i, j, sn, co, em)
    \/ AllIn(sn, co, em)

LEMMA WireIs == ASSUME Speaks PROVE Streams!Wire = Joined(EventsOf, Many) \o Streams!Marks
<1>1. message.blocks \in Seq(Parts) /\ DOMAIN message.blocks = 1..Many
  BY DEF Speaks, Said, Many
<1>2. EventsOf = [k \in DOMAIN message.blocks |-> Streams!BlockEvents(k, message.blocks[k])]
  BY <1>1 DEF EventsOf, Said
<1>3. [k \in 1..Many |-> EventsOf[k]] = EventsOf
  BY DEF EventsOf
<1>4. Joined(EventsOf, Many) = Streams!FlattenSeq(EventsOf)
  BY <1>3, StreamsJoin DEF Joined
<1> QED
  BY <1>2, <1>4 DEF Streams!Wire

LEMMA MarksAre ==
    ASSUME Speaks
    PROVE  /\ Streams!Marks \in Seq(WireEvents)
           /\ format = "openai" => Len(Streams!Marks) = 1 /\ Streams!Marks[1].type = "end"
           /\ format = "gemini" => Len(Streams!Marks) = 1 /\ Streams!Marks[1].type = "reason"
           /\ format \in {"anthropic", "chat"} =>
                 /\ Len(Streams!Marks) = 2
                 /\ Streams!Marks[1].type = "reason" /\ Streams!Marks[2].type = "end"
<1> DEFINE re == Streams!Mark("reason")
           en == Streams!Mark("end")
<1>1. re \in WireEvents /\ re.type = "reason" /\ en \in WireEvents /\ en.type = "end"
  <2>1. <<>> \in Seq(Nat) /\ 0 \in Nat /\ "text" \in Streams!Kinds
    BY DEF Streams!Kinds
  <2> QED
    BY <2>1 DEF Streams!Mark, WireEvents
<1> HIDE DEF re, en
<1>2. CASE format = "openai"
  <2>1. Streams!Marks = <<en>>
    BY <1>2 DEF Streams!Marks, en
  <2> QED
    BY <1>1, <1>2, <2>1
<1>3. CASE format = "gemini"
  <2>1. Streams!Marks = <<re>>
    BY <1>3 DEF Streams!Marks, re
  <2> QED
    BY <1>1, <1>3, <2>1
<1>4. CASE format \in {"anthropic", "chat"}
  <2>1. Streams!Marks = <<re, en>>
    BY <1>4 DEF Streams!Marks, re, en
  <2> QED
    BY <1>1, <1>4, <2>1
<1> QED
  BY <1>2, <1>3, <1>4 DEF Speaks

LEMMA Starts ==
    ASSUME Speaks
    PROVE  /\ StartOf(0) = 0
           /\ \A i \in 0..Many : StartOf(i) \in Nat /\ StartOf(i) <= StartOf(Many)
           /\ \A i \in 0..(Many - 1) : StartOf(i + 1) = StartOf(i) + Len(EventsOf[i + 1])
<1>1. Many \in Nat /\ EventsOf \in [1..Many -> Seq(WireEvents)]
  BY ShapesOfMessage DEF Speaks
<1>2. StartOf(0) = 0
  BY JoinedNone DEF StartOf
<1>3. ASSUME NEW i \in 0..Many PROVE StartOf(i) \in Nat /\ StartOf(i) <= StartOf(Many)
  <2>1. Many \in i..Many
    BY <1>1
  <2> QED
    BY <1>1, <2>1, JoinedType, JoinedGrows DEF StartOf
<1>4. ASSUME NEW i \in 0..(Many - 1) PROVE StartOf(i + 1) = StartOf(i) + Len(EventsOf[i + 1])
  <2>1. i + 1 \in 1..Many /\ (i + 1) - 1 = i /\ i \in 0..Many
    BY <1>1
  <2>2. Joined(EventsOf, i + 1) = Joined(EventsOf, i) \o EventsOf[i + 1]
    BY <1>1, <2>1, JoinedNext
  <2>3. Joined(EventsOf, i) \in Seq(WireEvents) /\ EventsOf[i + 1] \in Seq(WireEvents)
    BY <1>1, <2>1, JoinedType
  <2> QED
    BY <2>2, <2>3 DEF StartOf
<1> QED
  BY <1>2, <1>3, <1>4

LEMMA WireAt ==
    ASSUME Speaks, NEW i \in 0..(Many - 1), NEW j \in 0..(Len(EventsOf[i + 1]) - 1)
    PROVE  Streams!Wire[StartOf(i) + j + 1] = EventsOf[i + 1][j + 1]
<1> DEFINE n == StartOf(i) + j + 1
<1>1. /\ Many \in Nat /\ EventsOf \in [1..Many -> Seq(WireEvents)] /\ i + 1 \in 1..Many
      /\ i \in 0..Many /\ (i + 1) - 1 = i /\ Many \in (i + 1)..Many /\ i + 1 \in 0..Many /\ j \in Nat
      /\ Len(EventsOf[i + 1]) \in Nat
  BY ShapesOfMessage DEF Speaks
<1>2. /\ StartOf(i) \in Nat /\ StartOf(i + 1) = StartOf(i) + Len(EventsOf[i + 1])
      /\ StartOf(i + 1) \in Nat /\ StartOf(i + 1) <= StartOf(Many) /\ StartOf(Many) \in Nat
  BY <1>1, Starts
<1>3. /\ Joined(EventsOf, i) \in Seq(WireEvents) /\ Joined(EventsOf, Many) \in Seq(WireEvents)
      /\ EventsOf[i + 1] \in Seq(WireEvents) /\ Streams!Marks \in Seq(WireEvents)
  <2>1. Many \in 0..Many
    BY <1>1
  <2> QED
    BY <1>1, <2>1, JoinedType, MarksAre
<1>4. /\ n \in 1..StartOf(i + 1) /\ n \in 1..StartOf(Many) /\ n > StartOf(i) /\ n - StartOf(i) = j + 1
  BY SMTT(30), <1>1, <1>2
<1> HIDE DEF n
<1>5. Streams!Wire[n] = Joined(EventsOf, Many)[n]
  BY <1>3, <1>4, WireIs, ConcatProperties DEF StartOf
<1>6. Joined(EventsOf, Many)[n] = Joined(EventsOf, i + 1)[n]
  <2>1. \A k \in 0..Many : \A x \in 1..Len(Joined(EventsOf, k)) :
            Joined(EventsOf, Many)[x] = Joined(EventsOf, k)[x]
    BY ZenonT(30), <1>1, JoinedStays
  <2>2. n \in 1..Len(Joined(EventsOf, i + 1))
    BY <1>4 DEF StartOf
  <2> QED
    BY <1>1, <2>1, <2>2
<1>7. Joined(EventsOf, i + 1) = Joined(EventsOf, i) \o EventsOf[i + 1]
  BY <1>1, JoinedNext
<1>8. (Joined(EventsOf, i) \o EventsOf[i + 1])[n] = EventsOf[i + 1][n - StartOf(i)]
  BY <1>2, <1>3, <1>4, ConcatProperties DEF StartOf
<1> QED
  BY <1>4, <1>5, <1>6, <1>7, <1>8 DEF n

LEMMA WireMarks ==
    ASSUME Speaks
    PROVE  /\ Len(Streams!Wire) = StartOf(Many) + Len(Streams!Marks)
           /\ \A k \in 1..Len(Streams!Marks) : Streams!Wire[StartOf(Many) + k] = Streams!Marks[k]
<1>1. Many \in Nat /\ Many \in 0..Many /\ EventsOf \in [1..Many -> Seq(WireEvents)]
  BY ShapesOfMessage DEF Speaks
<1>2. Joined(EventsOf, Many) \in Seq(WireEvents) /\ Streams!Marks \in Seq(WireEvents)
  BY <1>1, JoinedType, MarksAre
<1> QED
  BY <1>2, WireIs, ConcatProperties DEF StartOf

-----------------------------------------------------------------------------
(* Streams: what each stage shows                                            *)

Beginning(s, t) == Len(s) <= Len(t) /\ \A x \in 1..Len(s) : t[x] = s[x]

LEMMA BeginningIs ==
    ASSUME NEW s \in Seq(Nat), NEW t \in Seq(Nat), Beginning(s, t) PROVE Streams!IsPrefix(s, t)
<1>1. Len(s) \in Nat /\ Len(t) \in Nat /\ Len(s) <= Len(t)
  BY DEF Beginning
<1>2. SubSeq(s, 1, Len(s)) = s
  BY SubSeqFull
<1> DEFINE u == SubSeq(t, 1, Len(s))
<1>3. u \in Seq(Nat) /\ Len(u) = Len(s) /\ \A x \in 1..Len(s) : u[x] = t[x]
  BY <1>1
<1> HIDE DEF u
<1>4. u = s
  BY <1>3, SeqEqual DEF Beginning
<1> QED
  BY <1>1, <1>2, <1>4 DEF Streams!IsPrefix, u

LEMMA TextIs ==
    ASSUME Speaks
    PROVE  /\ Streams!Text(Said) = AllSaid /\ Streams!Text(message.blocks) = AllSaid
           /\ AllSaid \in Seq(Nat)
<1>1. Said \in Seq(Parts) /\ DOMAIN Said = 1..Many /\ Many \in Nat /\ Many \in 0..Many
  BY DEF Speaks, Many
<1>2. TextParts = [k \in DOMAIN Said |-> IF Said[k].kind = "text" THEN Said[k].pieces ELSE <<>>]
  BY <1>1 DEF TextParts
<1>3. [k \in 1..Many |-> TextParts[k]] = TextParts
  BY DEF TextParts
<1>4. AllSaid = Streams!FlattenSeq(TextParts)
  BY <1>3, StreamsJoin DEF Joined, AllSaid
<1>5. AllSaid \in Seq(Nat)
  BY <1>1, ShapesOfMessage, JoinedType DEF AllSaid
<1>6. Streams!Text(Said) = AllSaid
  BY <1>2, <1>4 DEF Streams!Text
<1> QED
  BY <1>5, <1>6 DEF Said

\* What is read is a beginning of the answer.
LEMMA ReadBegins ==
    ASSUME Speaks, NEW i \in 0..Many, NEW j \in Nat, i = Many => j = 0
    PROVE  ReadAt(i, j) \in Seq(Nat) /\ Beginning(ReadAt(i, j), AllSaid)
<1>1. Many \in Nat /\ Many \in i..Many /\ TextParts \in [1..Many -> Seq(Nat)]
  BY ShapesOfMessage DEF Speaks
<1>2. Joined(TextParts, i) \in Seq(Nat) /\ Beginning(Joined(TextParts, i), AllSaid)
  <2>1. \A k \in 0..Many : Joined(TextParts, k) \in Seq(Nat)
    BY <1>1, JoinedType
  <2>2. \A k \in 0..Many : /\ Len(Joined(TextParts, k)) <= Len(Joined(TextParts, Many))
                           /\ \A x \in 1..Len(Joined(TextParts, k)) :
                                 Joined(TextParts, Many)[x] = Joined(TextParts, k)[x]
    BY SMTT(30), <1>1, JoinedStays
  <2> QED
    BY <2>1, <2>2 DEF Beginning, AllSaid
<1>3. CASE j = 0
  BY <1>2, <1>3 DEF ReadAt
<1>4. CASE j # 0
  <2> DEFINE blk == Said[i + 1]
             p == blk.pieces
             r == ReadOf(blk, j)
             t == TextParts[i + 1]
             A == Joined(TextParts, i)
             C == Joined(TextParts, i + 1)
  <2>1. /\ i + 1 \in 1..Many /\ i + 1 \in 0..Many /\ (i + 1) - 1 = i /\ Many \in (i + 1)..Many
    BY <1>1, <1>4
  <2>2. p \in Seq(Nat) /\ t \in Seq(Nat) /\ A \in Seq(Nat) /\ C \in Seq(Nat)
    BY <1>1, <1>2, <2>1, JoinedType DEF Speaks
  <2>3. Got(blk, j) \in Nat /\ Got(blk, j) <= Len(p)
    <3>1. /\ Opens(blk) \in {0, 1} /\ Len(p) \in Nat
      BY <2>1, CountsOf
    <3> QED
      BY <3>1 DEF Got
  <2>4. r \in Seq(Nat) /\ Beginning(r, t)
    <3>1. CASE blk.kind = "text"
      <4> DEFINE g == Got(blk, j)
      <4>1. r = SubSeq(p, 1, g) /\ t = p
        BY <2>1, <3>1 DEF ReadOf, TextParts
      <4>2. g \in Nat /\ g <= Len(p)
        BY <2>3
      <4> HIDE DEF g, p, r, t
      <4> QED
        BY <2>2, <4>1, <4>2 DEF Beginning
    <3>2. CASE blk.kind # "text"
      <4>1. r = <<>> /\ t = <<>>
        BY <2>1, <3>2 DEF ReadOf, TextParts
      <4> HIDE DEF r, t, blk
      <4> QED
        BY <4>1 DEF Beginning
    <3> QED
      BY <3>1, <3>2
  <2>5. C = A \o t
    BY <1>1, <2>1, JoinedNext
  <2>6. ReadAt(i, j) = A \o r
    BY <1>4 DEF ReadAt
  <2>7. Len(C) <= Len(AllSaid) /\ \A x \in 1..Len(C) : AllSaid[x] = C[x]
    <3>1. \A k \in 0..Many : /\ Len(Joined(TextParts, k)) <= Len(Joined(TextParts, Many))
                             /\ \A x \in 1..Len(Joined(TextParts, k)) :
                                   Joined(TextParts, Many)[x] = Joined(TextParts, k)[x]
      BY SMTT(30), <1>1, JoinedStays
    <3> QED
      BY <2>1, <3>1 DEF AllSaid
  <2> HIDE DEF blk, p, r, t, A, C
  <2>8. /\ A \o r \in Seq(Nat) /\ Len(A \o r) = Len(A) + Len(r) /\ Len(C) = Len(A) + Len(t)
        /\ Len(A) \in Nat /\ Len(r) \in Nat /\ Len(t) \in Nat
        /\ \A x \in 1..Len(A \o r) : (A \o r)[x] = IF x <= Len(A) THEN A[x] ELSE r[x - Len(A)]
        /\ \A x \in 1..Len(C) : C[x] = IF x <= Len(A) THEN A[x] ELSE t[x - Len(A)]
    BY <2>2, <2>4, <2>5, ConcatProperties
  <2>9. Len(r) <= Len(t) /\ \A x \in 1..Len(r) : t[x] = r[x]
    BY <2>4 DEF Beginning
  <2>10. Len(A \o r) <= Len(C) /\ Len(A \o r) \in Nat /\ Len(C) \in Nat
    BY <2>8, <2>9
  <2>11. ASSUME NEW x \in 1..Len(A \o r) PROVE C[x] = (A \o r)[x]
    <3>1. x \in 1..Len(C)
      BY <2>10
    <3>2. CASE x <= Len(A)
      BY <2>8, <3>1, <3>2
    <3>3. CASE ~(x <= Len(A))
      <4>1. x - Len(A) \in 1..Len(r)
        BY <2>8, <3>3
      <4> QED
        BY <2>8, <2>9, <3>1, <3>3, <4>1
    <3> QED
      BY <3>2, <3>3
  <2>12. Len(AllSaid) \in Nat
    BY TextIs
  <2>13. Len(A \o r) <= Len(AllSaid)
    BY <2>7, <2>10, <2>12
  <2>14. ASSUME NEW x \in 1..Len(A \o r) PROVE AllSaid[x] = (A \o r)[x]
    <3>1. x \in 1..Len(C)
      BY <2>10
    <3> QED
      BY <2>7, <2>11, <3>1
  <2> QED
    BY <2>6, <2>8, <2>13, <2>14 DEF Beginning
<1> QED
  BY <1>3, <1>4

\* What a stage shows is a beginning of the answer, and its open blocks are there.
LEMMA StageHolds ==
    ASSUME Speaks, NEW sn, NEW co, NEW em, Stage(sn, co, em)
    PROVE  /\ sn \in Nat /\ co.open \subseteq DOMAIN co.blocks
           /\ Streams!IsPrefix(em, AllSaid)
<1>0. Many \in Nat /\ AllSaid \in Seq(Nat) /\ Len(AllSaid) \in Nat
  BY TextIs DEF Speaks
<1>1. CASE \E i \in 0..Many, j \in Nat : Place(i, j, sn, co, em)
  <2>1. PICK i \in 0..Many, j \in Nat : Place(i, j, sn, co, em)
    BY <1>1
  <2>2. /\ i = Many => j = 0
        /\ sn = StartOf(i) + j /\ em = ReadAt(i, j)
        /\ co = IF format = "openai" THEN Streams!Nothing
                ELSE [blocks |-> HeldAt(i, j), open |-> OpenAt(i, j), reason |-> "none"]
    BY <2>1 DEF Place
  <2>3. sn \in Nat
    BY <2>2, Starts
  <2>4. Streams!IsPrefix(em, AllSaid)
    BY <1>0, <2>2, ReadBegins, BeginningIs
  <2>5. co.open \subseteq DOMAIN co.blocks
    <3>1. CASE format = "openai"
      BY <2>2, <3>1 DEF Streams!Nothing
    <3>2. CASE format # "openai"
      <4>1. co.blocks = HeldAt(i, j) /\ co.open = OpenAt(i, j)
        BY <2>2, <3>2
      <4>2. j = 0 => OpenAt(i, j) = {}
        BY DEF OpenAt
      <4>3. j # 0 => DOMAIN HeldAt(i, j) = 1..(i + 1) /\ i + 1 \in 1..(i + 1) /\ OpenAt(i, j) \subseteq {i + 1}
        BY DEF OpenAt, HeldAt
      <4> QED
        BY <4>1, <4>2, <4>3
    <3> QED
      BY <3>1, <3>2
  <2> QED
    BY <2>3, <2>4, <2>5
<1>2. CASE AllIn(sn, co, em)
  <2>1. sn = StartOf(Many) + 1 /\ em = AllSaid /\ co.open = {}
    BY <1>2 DEF AllIn
  <2>2. Many \in 0..Many
    BY <1>0
  <2>3. sn \in Nat
    BY <2>1, <2>2, Starts
  <2>4. Beginning(AllSaid, AllSaid)
    BY <1>0 DEF Beginning
  <2> QED
    BY <1>0, <2>1, <2>3, <2>4, BeginningIs
<1> QED
  BY <1>1, <1>2 DEF Stage

LEMMA StageBegins ==
    ASSUME Speaks PROVE Stage(0, Streams!Nothing, <<>>)
<1>1. Many \in Nat /\ 0 \in 0..Many /\ 0 # Many /\ 1 \in 1..Many /\ 0 + 1 = 1 /\ 0 \in Nat
  BY DEF Speaks
<1>2. Len(EventsOf[1]) \in Nat /\ 0 < Len(EventsOf[1])
  <2>1. \A k \in 1..Many : /\ Len(EventsOf[k]) \in Nat
                          /\ Len(EventsOf[k]) = Opens(Said[k]) + Carried(Said[k]) + Shuts
    BY ShapesOfMessage
  <2>2. Opens(Said[1]) \in {0, 1} /\ Shuts \in {0, 1} /\ Carried(Said[1]) \in Nat /\ Carried(Said[1]) >= 1
    BY <1>1, CountsOf
  <2> QED
    BY <1>1, <2>1, <2>2
<1>3. StartOf(0) + 0 = 0
  BY Starts
<1>4. HeldAt(0, 0) = <<>>
  <2>1. HeldAt(0, 0) = [k \in 1..0 |-> IF k <= 0 THEN Said[k] ELSE Partial(Said[0 + 1], 0)]
    BY DEF HeldAt
  <2> DEFINE f(k) == IF k <= 0 THEN Said[k] ELSE Partial(Said[0 + 1], 0)
  <2>2. HeldAt(0, 0) = [k \in 1..0 |-> f(k)]
    BY <2>1
  <2> HIDE DEF f
  <2> QED
    BY <2>2
<1>5. OpenAt(0, 0) = {} /\ ReadAt(0, 0) = <<>>
  BY JoinedNone DEF OpenAt, ReadAt
<1>6. Place(0, 0, 0, Streams!Nothing, <<>>)
  BY <1>1, <1>2, <1>3, <1>4, <1>5 DEF Place, Streams!Nothing
<1> QED
  BY <1>1, <1>6 DEF Stage

\* The events of a block lead from place to place.
LEMMA StageMoves ==
    ASSUME Speaks, NEW i \in 0..(Many - 1), NEW j \in 0..(Len(EventsOf[i + 1]) - 1),
           NEW co, co = IF format = "openai" THEN Streams!Nothing
                        ELSE [blocks |-> HeldAt(i, j + 1), open |-> OpenAt(i, j + 1), reason |-> "none"]
    PROVE  Stage(StartOf(i) + j + 1, co, ReadAt(i, j + 1))
<1>1. /\ Many \in Nat /\ i \in 0..Many /\ i # Many /\ i + 1 \in 1..Many /\ i + 1 \in 0..Many
      /\ Len(EventsOf[i + 1]) \in Nat /\ j \in Nat /\ j + 1 \in Nat /\ j + 1 >= 1 /\ 0 \in Nat
  BY ShapesOfMessage DEF Speaks
<1>2. StartOf(i) \in Nat /\ StartOf(i + 1) = StartOf(i) + Len(EventsOf[i + 1]) /\ StartOf(i + 1) \in Nat
  BY <1>1, Starts
<1>3. CASE j + 1 < Len(EventsOf[i + 1])
  <2>1. StartOf(i) + (j + 1) = StartOf(i) + j + 1
    BY <1>1, <1>2
  <2>2. Place(i, j + 1, StartOf(i) + j + 1, co, ReadAt(i, j + 1))
    BY <1>1, <1>3, <2>1 DEF Place
  <2> QED
    BY <1>1, <2>2 DEF Stage
<1>4. CASE j + 1 = Len(EventsOf[i + 1])
  <2>1. /\ HeldAt(i, j + 1) = HeldAt(i + 1, 0) /\ OpenAt(i, j + 1) = {}
        /\ ReadAt(i, j + 1) = ReadAt(i + 1, 0)
    BY <1>1, <1>4, BlockDone
  <2>2. OpenAt(i + 1, 0) = {}
    BY DEF OpenAt
  <2>3. StartOf(i + 1) + 0 = StartOf(i) + j + 1
    BY <1>1, <1>2, <1>4
  <2>4. i + 1 # Many => 0 < Len(EventsOf[(i + 1) + 1])
    <3> SUFFICES ASSUME i + 1 # Many PROVE 0 < Len(EventsOf[(i + 1) + 1])
      OBVIOUS
    <3>1. (i + 1) + 1 \in 1..Many
      BY <1>1
    <3> QED
      BY <3>1, ShapesOfMessage, CountsOf
  <2>5. Place(i + 1, 0, StartOf(i) + j + 1, co, ReadAt(i, j + 1))
    BY <1>1, <2>1, <2>2, <2>3, <2>4 DEF Place
  <2> QED
    BY <1>1, <2>5 DEF Stage
<1> QED
  BY <1>1, <1>3, <1>4

\* At the end of the blocks all of them are there.
LEMMA BlocksAreIn ==
    ASSUME Speaks PROVE HeldAt(Many, 0) = Said /\ OpenAt(Many, 0) = {} /\ ReadAt(Many, 0) = AllSaid
<1>1. Said \in Seq(Parts) /\ Many = Len(Said) /\ Many \in Nat
  BY DEF Speaks, Many
<1>2. HeldAt(Many, 0) = [k \in 1..Many |-> Said[k]]
  BY <1>1 DEF HeldAt
<1>3. Said = [k \in 1..Len(Said) |-> Said[k]]
  BY <1>1
<1> QED
  BY <1>1, <1>2, <1>3 DEF OpenAt, ReadAt, AllSaid

-----------------------------------------------------------------------------
(* Streams: the calls of a message                                           *)

CallParts == [k \in 1..Many |-> IF Said[k].kind = "tool" THEN <<k>> ELSE <<>>]

LEMMA RangesJoin ==
    ASSUME NEW s \in Seq(Nat), NEW t \in Seq(Nat)
    PROVE  Streams!ToSet(s \o t) = Streams!ToSet(s) \cup Streams!ToSet(t)
<1> DEFINE u == s \o t
<1>1. /\ u \in Seq(Nat) /\ Len(u) = Len(s) + Len(t) /\ Len(s) \in Nat /\ Len(t) \in Nat
      /\ \A x \in 1..Len(u) : u[x] = IF x <= Len(s) THEN s[x] ELSE t[x - Len(s)]
  BY ConcatProperties
<1>2. DOMAIN s = 1..Len(s) /\ DOMAIN t = 1..Len(t)
  OBVIOUS
<1>3. DOMAIN u = 1..Len(u)
  BY <1>1
<1> HIDE DEF u
<1>4. ASSUME NEW x \in 1..Len(u) PROVE u[x] \in Streams!ToSet(s) \cup Streams!ToSet(t)
  <2>1. CASE x <= Len(s)
    <3>1. x \in DOMAIN s /\ u[x] = s[x]
      BY <1>1, <1>2, <2>1
    <3> QED
      BY <3>1 DEF Streams!ToSet
  <2>2. CASE ~(x <= Len(s))
    <3>1. x - Len(s) \in DOMAIN t /\ u[x] = t[x - Len(s)]
      BY <1>1, <1>2, <2>2
    <3> QED
      BY <3>1 DEF Streams!ToSet
  <2> QED
    BY <2>1, <2>2
<1>5. ASSUME NEW y \in 1..Len(s) PROVE s[y] \in Streams!ToSet(u)
  <2>1. y \in DOMAIN u /\ u[y] = s[y]
    BY <1>1, <1>3
  <2> QED
    BY <2>1 DEF Streams!ToSet
<1>6. ASSUME NEW y \in 1..Len(t) PROVE t[y] \in Streams!ToSet(u)
  <2>1. /\ Len(s) + y \in DOMAIN u /\ (Len(s) + y) - Len(s) = y /\ ~(Len(s) + y <= Len(s))
    BY <1>1, <1>3
  <2>2. u[Len(s) + y] = t[y]
    BY <1>1, <1>3, <2>1
  <2> QED
    BY <2>1, <2>2 DEF Streams!ToSet
<1>7. Streams!ToSet(u) = Streams!ToSet(s) \cup Streams!ToSet(t)
  <2>1. Streams!ToSet(u) \subseteq Streams!ToSet(s) \cup Streams!ToSet(t)
    BY <1>3, <1>4 DEF Streams!ToSet
  <2>2. Streams!ToSet(s) \subseteq Streams!ToSet(u)
    <3>1. \A y \in DOMAIN s : s[y] \in Streams!ToSet(u)
      BY <1>2, <1>5
    <3> QED
      BY <3>1 DEF Streams!ToSet
  <2>3. Streams!ToSet(t) \subseteq Streams!ToSet(u)
    <3>1. \A y \in DOMAIN t : t[y] \in Streams!ToSet(u)
      BY <1>2, <1>6
    <3> QED
      BY <3>1 DEF Streams!ToSet
  <2> QED
    BY <2>1, <2>2, <2>3
<1> QED
  BY <1>7 DEF u

\* The calls of a message are its tool blocks.
LEMMA CallsAre ==
    ASSUME Speaks
    PROVE  Streams!ToSet(Streams!Calls(Said)) = {k \in DOMAIN Said : Said[k].kind = "tool"}
<1> DEFINE Of(i) == {k \in 1..i : Said[k].kind = "tool"}
           R(i) == Streams!ToSet(Joined(CallParts, i))
           T == {i \in 0..Many : R(i) # Of(i)}
<1>1. Said \in Seq(Parts) /\ DOMAIN Said = 1..Many /\ Many \in Nat /\ Many \in 0..Many
  BY DEF Speaks, Many
<1>2. CallParts \in [1..Many -> Seq(Nat)]
  <2>1. \A k \in 1..Many : <<k>> \in Seq(Nat)
    OBVIOUS
  <2> QED
    BY <2>1 DEF CallParts
<1>3. CallParts = [k \in DOMAIN Said |-> IF Said[k].kind = "tool" THEN <<k>> ELSE <<>>]
  BY <1>1 DEF CallParts
<1>4. [k \in 1..Many |-> CallParts[k]] = CallParts
  BY DEF CallParts
<1>5. Streams!Calls(Said) = Joined(CallParts, Many)
  BY <1>3, <1>4, StreamsJoin DEF Joined, Streams!Calls
<1>6. T = {}
  <2>1. SUFFICES ASSUME T # {} PROVE FALSE
    OBVIOUS
  <2>2. \E x \in T : \A y \in T : x <= y
    <3>1. T \in SUBSET (0..Many)
      OBVIOUS
    <3> HIDE DEF T
    <3> QED
      BY <1>1, <2>1, <3>1, LeastNumber
  <2>3. PICK i \in T : \A y \in T : i <= y
    BY <2>2
  <2>4. i \in 0..Many /\ R(i) # Of(i)
    BY <2>3
  <2>5. i # 0
    <3>1. Streams!ToSet(<<>>) = {}
      BY DEF Streams!ToSet
    <3>2. R(0) = {}
      BY <3>1, JoinedNone
    <3>3. Of(0) = {}
      OBVIOUS
    <3> QED
      BY <2>4, <3>2, <3>3
  <2>6. i \in 1..Many /\ i - 1 \in 0..Many /\ i - 1 < i /\ i \in Nat
    BY <1>1, <2>4, <2>5
  <2>7. R(i - 1) = Of(i - 1)
    <3> HIDE DEF R, Of
    <3> QED
      BY <2>3, <2>6
  <2>8. Joined(CallParts, i) = Joined(CallParts, i - 1) \o CallParts[i]
    BY <1>1, <1>2, <2>6, JoinedNext
  <2>9. Joined(CallParts, i - 1) \in Seq(Nat) /\ CallParts[i] \in Seq(Nat)
    <3>1. \A k \in 0..Many : Joined(CallParts, k) \in Seq(Nat)
      BY <1>1, <1>2, JoinedType
    <3> QED
      BY <1>2, <2>6, <3>1
  <2>10. R(i) = R(i - 1) \cup Streams!ToSet(CallParts[i])
    BY <2>8, <2>9, RangesJoin
  <2>11. Streams!ToSet(CallParts[i]) = IF Said[i].kind = "tool" THEN {i} ELSE {}
    <3>1. CallParts[i] = IF Said[i].kind = "tool" THEN <<i>> ELSE <<>>
      BY <2>6 DEF CallParts
    <3>2. Streams!ToSet(<<i>>) = {i} /\ Streams!ToSet(<<>>) = {}
      BY DEF Streams!ToSet
    <3> QED
      BY <3>1, <3>2
  <2>12. Of(i) = Of(i - 1) \cup (IF Said[i].kind = "tool" THEN {i} ELSE {})
    BY <2>6
  <2> HIDE DEF R, Of, T
  <2> QED
    BY <2>4, <2>7, <2>10, <2>11, <2>12
<1>7. R(Many) = Of(Many)
  <2> HIDE DEF R, Of
  <2> QED
    BY <1>1, <1>6
<1> QED
  BY <1>1, <1>5, <1>7

LEMMA CallsType == ASSUME Speaks PROVE Streams!Calls(Said) \in Seq(Nat)
<1>1. Said \in Seq(Parts) /\ DOMAIN Said = 1..Many /\ Many \in Nat /\ Many \in 0..Many
  BY DEF Speaks, Many
<1>2. CallParts \in [1..Many -> Seq(Nat)]
  <2>1. \A k \in 1..Many : <<k>> \in Seq(Nat)
    OBVIOUS
  <2> QED
    BY <2>1 DEF CallParts
<1>3. CallParts = [k \in DOMAIN Said |-> IF Said[k].kind = "tool" THEN <<k>> ELSE <<>>]
  BY <1>1 DEF CallParts
<1>4. [k \in 1..Many |-> CallParts[k]] = CallParts
  BY DEF CallParts
<1>5. Streams!Calls(Said) = Joined(CallParts, Many)
  BY <1>3, <1>4, StreamsJoin DEF Joined, Streams!Calls
<1> QED
  BY <1>1, <1>2, <1>5, JoinedType

-----------------------------------------------------------------------------
(* Streams: the call of the model                                            *)

Replies == [at : {"key", "fetch", "stream", "answer", "over"}, attempt : 1..MaxAttempts,
            streamed : BOOLEAN]

\* The answer of a call that is over.
Told ==
    \/ outcome.state \in {"failed", "cancelled"} /\ outcome.turn = Streams!NoTurn
    \/ /\ outcome.state = "completed"
       /\ outcome.turn.text = AllSaid
       /\ reply.streamed => emitted = AllSaid
       /\ outcome.turn.calls # <<>> =>
             /\ message.stop = "stop"
             /\ Streams!ToSet(outcome.turn.calls) = {k \in DOMAIN Said : Said[k].kind = "tool"}

StreamInv ==
    /\ format \in Formats /\ message \in Messages
    /\ reply \in Replies /\ executed \in {0, 1} /\ sent \in Nat
    /\ collected.open \subseteq DOMAIN collected.blocks
    /\ Streams!IsPrefix(emitted, AllSaid)
    /\ reply.at \in {"key", "fetch"} =>
          executed = 0 /\ sent = 0 /\ collected = Streams!Nothing /\ emitted = <<>>
    /\ reply.at = "stream" => reply.streamed /\ Stage(sent, collected, emitted)
    /\ reply.at = "answer" =>
          /\ collected.blocks = Said /\ collected.reason = message.stop
          /\ reply.streamed => emitted = AllSaid
    /\ reply.at # "over" => outcome = [state |-> "none", turn |-> Streams!NoTurn]
    /\ reply.at = "over" => Told

\* Nothing changes what the message is.
LEMMA SameMessage ==
    ASSUME UNCHANGED <<format, message>>
    PROVE  /\ Said' = Said /\ Many' = Many /\ EventsOf' = EventsOf /\ TextParts' = TextParts
           /\ AllSaid' = AllSaid
<1>1. format' = format /\ message' = message
  OBVIOUS
<1>2. Said' = Said /\ Many' = Many
  BY <1>1 DEF Said, Many
<1>3. EventsOf' = EventsOf
  BY <1>1, <1>2 DEF EventsOf, Streams!BlockEvents
<1>4. TextParts' = TextParts
  BY <1>2 DEF TextParts
<1> QED
  BY <1>2, <1>3, <1>4 DEF AllSaid

LEMMA SameStage ==
    ASSUME UNCHANGED <<format, message>>, Stage(sent', collected', emitted')
    PROVE  Stage(sent, collected, emitted)'
<1>1. format' = format /\ message' = message
  OBVIOUS
<1>2. Said' = Said /\ Many' = Many /\ EventsOf' = EventsOf /\ TextParts' = TextParts /\ AllSaid' = AllSaid
  BY SameMessage
<1>3. ASSUME NEW blk, NEW j PROVE Got(blk, j)' = Got(blk, j)
  BY <1>1 DEF Got, Opens, AtOnce
<1>4. ASSUME NEW blk, NEW j PROVE Partial(blk, j)' = Partial(blk, j) /\ ReadOf(blk, j)' = ReadOf(blk, j)
  BY <1>3 DEF Partial, ReadOf
<1>5. ASSUME NEW i, NEW j
      PROVE  /\ HeldAt(i, j)' = HeldAt(i, j) /\ OpenAt(i, j)' = OpenAt(i, j)
             /\ ReadAt(i, j)' = ReadAt(i, j) /\ StartOf(i)' = StartOf(i)
  <2>1. HeldAt(i, j)' = HeldAt(i, j)
    BY <1>2, <1>4 DEF HeldAt
  <2>2. OpenAt(i, j)' = OpenAt(i, j)
    BY <1>1, <1>2 DEF OpenAt
  <2>3. ReadAt(i, j)' = ReadAt(i, j)
    BY <1>2, <1>4 DEF ReadAt
  <2> QED
    BY <1>2, <2>1, <2>2, <2>3 DEF StartOf
<1>6. CASE \E i \in 0..Many, j \in Nat : Place(i, j, sent', collected', emitted')
  <2>1. PICK i \in 0..Many, j \in Nat : Place(i, j, sent', collected', emitted')
    BY <1>6
  <2>2. Place(i, j, sent, collected, emitted)'
    BY <1>1, <1>2, <1>5, <2>1 DEF Place
  <2> QED
    BY <1>2, <2>2 DEF Stage
<1>7. CASE AllIn(sent', collected', emitted')
  <2>1. AllIn(sent, collected, emitted)'
    BY <1>1, <1>2, <1>5, <1>7 DEF AllIn
  <2> QED
    BY <2>1 DEF Stage
<1> QED
  BY <1>6, <1>7 DEF Stage

-----------------------------------------------------------------------------
(* Streams: the steps                                                        *)

LEMMA InvSpeaks == ASSUME StreamInv PROVE Speaks
BY MessagesSpeak DEF StreamInv

\* What the steps of a call have to show.
LEMMA StreamStays ==
    ASSUME StreamInv, UNCHANGED <<format, message>>,
           reply' \in Replies, executed' \in {0, 1}, sent' \in Nat,
           collected'.open \subseteq DOMAIN collected'.blocks,
           Streams!IsPrefix(emitted', AllSaid),
           reply'.at \in {"key", "fetch"} =>
              executed' = 0 /\ sent' = 0 /\ collected' = Streams!Nothing /\ emitted' = <<>>,
           reply'.at = "stream" => reply'.streamed /\ Stage(sent', collected', emitted'),
           reply'.at = "answer" =>
              /\ collected'.blocks = Said /\ collected'.reason = message.stop
              /\ reply'.streamed => emitted' = AllSaid,
           reply'.at # "over" => outcome' = [state |-> "none", turn |-> Streams!NoTurn],
           reply'.at = "over" =>
              \/ outcome'.state \in {"failed", "cancelled"} /\ outcome'.turn = Streams!NoTurn
              \/ /\ outcome'.state = "completed"
                 /\ outcome'.turn.text = AllSaid
                 /\ reply'.streamed => emitted' = AllSaid
                 /\ outcome'.turn.calls # <<>> =>
                       /\ message.stop = "stop"
                       /\ Streams!ToSet(outcome'.turn.calls)
                             = {k \in DOMAIN Said : Said[k].kind = "tool"}
    PROVE  StreamInv'
<1>1. format' = format /\ message' = message
  OBVIOUS
<1>2. Said' = Said /\ AllSaid' = AllSaid
  BY SameMessage
<1>3. format' \in Formats /\ message' \in Messages
  BY <1>1 DEF StreamInv
<1>4. Messages' = Messages /\ Replies' = Replies /\ Formats' = Formats
  BY DEF Messages, Replies
<1>5. Streams!IsPrefix(emitted, AllSaid)'
  BY <1>2 DEF Streams!IsPrefix
<1>6. (reply.at = "stream" => reply.streamed /\ Stage(sent, collected, emitted))'
  BY SameStage
<1>7. Streams!Nothing' = Streams!Nothing /\ Streams!NoTurn' = Streams!NoTurn
  BY DEF Streams!Nothing, Streams!NoTurn
<1>8. (reply.at = "over" => Told)'
  BY <1>1, <1>2, <1>7 DEF Told, Streams!ToSet
<1>9. (reply.at = "answer" =>
          /\ collected.blocks = Said /\ collected.reason = message.stop
          /\ reply.streamed => emitted = AllSaid)'
  BY <1>1, <1>2
<1>10. (reply.at \in {"key", "fetch"} =>
          executed = 0 /\ sent = 0 /\ collected = Streams!Nothing /\ emitted = <<>>)'
  BY <1>7
<1>11. (reply.at # "over" => outcome = [state |-> "none", turn |-> Streams!NoTurn])'
  BY <1>7
<1>12. (reply \in Replies /\ executed \in {0, 1} /\ sent \in Nat)'
  BY <1>4
<1>13. (collected.open \subseteq DOMAIN collected.blocks)'
  OBVIOUS
<1>14. (format \in Formats /\ message \in Messages)'
  BY <1>3, <1>4
<1> QED
  BY <1>5, <1>6, <1>8, <1>9, <1>10, <1>11, <1>12, <1>13, <1>14 DEF StreamInv

LEMMA StreamFails ==
    ASSUME StreamInv, reply.at # "over", NEW state \in {"failed", "cancelled"},
           Streams!Fails(state), UNCHANGED <<format, message, collected, emitted>>,
           executed' \in {0, 1}, sent' \in Nat
    PROVE  StreamInv'
<1>1. reply \in Replies /\ outcome = [state |-> "none", turn |-> Streams!NoTurn]
  BY DEF StreamInv
<1>2. reply' = [reply EXCEPT !.at = "over"] /\ outcome' = [outcome EXCEPT !.state = state]
  BY DEF Streams!Fails
<1>3. reply' \in Replies /\ reply'.at = "over"
  BY <1>1, <1>2 DEF Replies
<1>4. outcome'.state = state /\ outcome'.turn = Streams!NoTurn
  BY <1>1, <1>2
<1>5. /\ collected'.open \subseteq DOMAIN collected'.blocks
      /\ Streams!IsPrefix(emitted', AllSaid)
  BY DEF StreamInv
<1>6. outcome'.state \in {"failed", "cancelled"}
  BY <1>4
<1> QED
  BY <1>3, <1>4, <1>5, <1>6, StreamStays

LEMMA StreamGoes ==
    ASSUME StreamInv, reply.at = "stream",
           UNCHANGED <<format, message, executed, reply, outcome>>,
           Stage(sent', collected', emitted')
    PROVE  StreamInv'
<1>1. Speaks
  BY InvSpeaks
<1>2. /\ sent' \in Nat /\ collected'.open \subseteq DOMAIN collected'.blocks
      /\ Streams!IsPrefix(emitted', AllSaid)
  BY <1>1, StageHolds
<1>3. /\ reply' \in Replies /\ reply'.at = "stream" /\ reply'.streamed /\ executed' \in {0, 1}
      /\ outcome' = [state |-> "none", turn |-> Streams!NoTurn]
  BY DEF StreamInv
<1> QED
  BY <1>2, <1>3, StreamStays

LEMMA StreamEnds ==
    ASSUME StreamInv, reply.at = "stream", UNCHANGED <<format, message, executed, outcome>>,
           reply' = [reply EXCEPT !.at = "answer"], sent' \in Nat,
           collected'.blocks = Said, collected'.open = {}, collected'.reason = message.stop,
           emitted' = AllSaid
    PROVE  StreamInv'
<1>1. /\ reply \in Replies /\ executed' \in {0, 1}
      /\ outcome' = [state |-> "none", turn |-> Streams!NoTurn]
  BY DEF StreamInv
<1>2. reply' \in Replies /\ reply'.at = "answer"
  BY <1>1 DEF Replies
<1>3. Streams!IsPrefix(AllSaid, AllSaid)
  <2>1. Speaks
    BY InvSpeaks
  <2>2. AllSaid \in Seq(Nat) /\ Len(AllSaid) \in Nat
    BY <2>1, TextIs
  <2>3. Beginning(AllSaid, AllSaid)
    BY <2>2 DEF Beginning
  <2> QED
    BY <2>2, <2>3, BeginningIs
<1>4. collected'.open \subseteq DOMAIN collected'.blocks
  OBVIOUS
<1> QED
  BY <1>1, <1>2, <1>3, <1>4, StreamStays

LEMMA CredentialsStep ==
    ASSUME StreamInv, NEW found \in BOOLEAN, Streams!Credentials(found) PROVE StreamInv'
<1>1. /\ reply.at = "key" /\ reply \in Replies /\ executed = 0 /\ sent = 0
      /\ collected = Streams!Nothing /\ emitted = <<>> /\ executed \in {0, 1} /\ sent \in Nat
      /\ outcome = [state |-> "none", turn |-> Streams!NoTurn]
      /\ collected.open \subseteq DOMAIN collected.blocks /\ Streams!IsPrefix(emitted, AllSaid)
  BY DEF StreamInv, Streams!Credentials
<1>2. UNCHANGED <<format, message, executed, sent, collected, emitted>>
  BY DEF Streams!Credentials
<1>3. CASE found
  <2>1. reply' = [reply EXCEPT !.at = "fetch"] /\ outcome' = outcome
    BY <1>3 DEF Streams!Credentials
  <2>2. reply' \in Replies /\ reply'.at = "fetch"
    BY <1>1, <2>1 DEF Replies
  <2> QED
    BY <1>1, <1>2, <2>1, <2>2, StreamStays
<1>4. CASE ~found
  <2>1. Streams!Fails("failed")
    BY <1>4 DEF Streams!Credentials
  <2> QED
    BY <1>1, <1>2, <2>1, StreamFails
<1> QED
  BY <1>3, <1>4

LEMMA LimitedStep ==
    ASSUME StreamInv, NEW hint \in {"short", "long"}, Streams!Limited(hint) PROVE StreamInv'
<1>1. /\ reply.at = "fetch" /\ reply \in Replies /\ executed = 0 /\ sent = 0
      /\ collected = Streams!Nothing /\ emitted = <<>> /\ executed \in {0, 1} /\ sent \in Nat
      /\ outcome = [state |-> "none", turn |-> Streams!NoTurn]
      /\ collected.open \subseteq DOMAIN collected.blocks /\ Streams!IsPrefix(emitted, AllSaid)
  BY DEF StreamInv, Streams!Limited
<1>2. UNCHANGED <<format, message, executed, sent, collected, emitted>>
  BY DEF Streams!Limited
<1>3. CASE hint = "short" /\ reply.attempt < MaxAttempts
  <2>1. reply' = [reply EXCEPT !.attempt = @ + 1] /\ outcome' = outcome
    BY <1>3 DEF Streams!Limited
  <2>2. reply.attempt \in 1..MaxAttempts
    BY <1>1 DEF Replies
  <2>3. reply.attempt + 1 \in 1..MaxAttempts
    BY <1>3, <2>2, StreamsAssumption
  <2>4. reply' \in Replies /\ reply'.at = "fetch"
    BY <1>1, <2>1, <2>3 DEF Replies
  <2> QED
    BY <1>1, <1>2, <2>1, <2>4, StreamStays
<1>4. CASE ~(hint = "short" /\ reply.attempt < MaxAttempts)
  <2>1. Streams!Fails("failed")
    BY <1>4 DEF Streams!Limited
  <2> QED
    BY <1>1, <1>2, <2>1, StreamFails
<1> QED
  BY <1>3, <1>4

LEMMA AmbiguousStep == ASSUME StreamInv, Streams!Ambiguous PROVE StreamInv'
<1>1. reply.at = "fetch" /\ executed = 0 /\ sent \in Nat
  BY DEF StreamInv, Streams!Ambiguous
<1>2. /\ UNCHANGED <<format, message, sent, collected, emitted>> /\ Streams!Fails("failed")
      /\ executed' \in {executed, executed + 1}
  BY DEF Streams!Ambiguous
<1>3. executed' \in {0, 1}
  BY <1>1, <1>2
<1> QED
  BY <1>1, <1>2, <1>3, StreamFails

LEMMA AcceptedStep ==
    ASSUME StreamInv, NEW streamed \in BOOLEAN, Streams!Accepted(streamed) PROVE StreamInv'
<1>1. /\ reply.at = "fetch" /\ reply \in Replies /\ executed = 0 /\ sent = 0
      /\ collected = Streams!Nothing /\ emitted = <<>> /\ sent \in Nat
      /\ outcome = [state |-> "none", turn |-> Streams!NoTurn]
      /\ collected.open \subseteq DOMAIN collected.blocks /\ Streams!IsPrefix(emitted, AllSaid)
  BY DEF StreamInv, Streams!Accepted
<1>2. /\ UNCHANGED <<format, message, sent, emitted, outcome>> /\ executed' = executed + 1
      /\ reply' = [reply EXCEPT !.at = IF streamed THEN "stream" ELSE "answer",
                                !.streamed = streamed]
      /\ collected' = IF streamed THEN collected
                      ELSE [Streams!Nothing EXCEPT !.blocks = message.blocks, !.reason = message.stop]
  BY DEF Streams!Accepted
<1>3. executed' \in {0, 1}
  BY <1>1, <1>2
<1>4. /\ reply' \in Replies /\ reply'.streamed = streamed
      /\ reply'.at = IF streamed THEN "stream" ELSE "answer"
  BY <1>1, <1>2 DEF Replies
<1>5. CASE streamed
  <2>1. Stage(sent', collected', emitted')
    BY <1>1, <1>2, <1>5, InvSpeaks, StageBegins
  <2>2. collected' = collected /\ reply'.streamed /\ reply'.at = "stream"
    BY <1>2, <1>4, <1>5
  <2> QED
    BY <1>1, <1>2, <1>3, <1>4, <2>1, <2>2, StreamStays
<1>6. CASE ~streamed
  <2>1. /\ collected'.blocks = Said /\ collected'.open = {} /\ collected'.reason = message.stop
    BY <1>2, <1>6 DEF Streams!Nothing, Said
  <2>2. reply'.at = "answer" /\ ~reply'.streamed
    BY <1>4, <1>6
  <2> QED
    BY <1>1, <1>2, <1>3, <1>4, <2>1, <2>2, StreamStays
<1> QED
  BY <1>5, <1>6

\* A refused event ends the call.
LEMMA RefuseStep ==
    ASSUME StreamInv, reply.at = "stream", UNCHANGED <<format, message, executed, emitted>>,
           sent' \in Nat, Streams!Refuse
    PROVE  StreamInv'
<1>1. Streams!Fails("failed") /\ UNCHANGED collected
  BY DEF Streams!Refuse
<1>2. executed' \in {0, 1} /\ reply.at # "over"
  BY DEF StreamInv
<1> QED
  BY <1>1, <1>2, StreamFails

\* The end of the message, wherever it comes.
LEMMA EndingStep ==
    ASSUME StreamInv, reply.at = "stream", UNCHANGED <<format, message, executed>>,
           sent' \in Nat, Streams!Ending,
           format = "openai" => emitted = AllSaid
    PROVE  StreamInv'
<1>1. Speaks /\ Stage(sent, collected, emitted)
  BY InvSpeaks DEF StreamInv
<1>2. emitted' = emitted
  BY DEF Streams!Ending
<1>3. CASE format = "openai"
  <2>1. /\ collected' = [Streams!Nothing EXCEPT !.blocks = message.blocks, !.reason = message.stop]
        /\ reply' = [reply EXCEPT !.at = "answer"] /\ outcome' = outcome
    BY <1>3 DEF Streams!Ending
  <2>2. collected'.blocks = Said /\ collected'.open = {} /\ collected'.reason = message.stop
    BY <2>1 DEF Streams!Nothing, Said
  <2> QED
    BY <1>2, <1>3, <2>1, <2>2, StreamEnds
<1>4. CASE format # "openai" /\ (collected.reason = "none" \/ collected.open # {})
  <2>1. Streams!Refuse
    BY <1>4 DEF Streams!Ending
  <2> QED
    BY <1>2, <2>1, RefuseStep
<1>5. CASE format # "openai" /\ ~(collected.reason = "none" \/ collected.open # {})
  <2>1. reply' = [reply EXCEPT !.at = "answer"] /\ UNCHANGED <<collected, outcome>>
    BY <1>5 DEF Streams!Ending
  <2>2. ~ \E i \in 0..Many, j \in Nat : Place(i, j, sent, collected, emitted)
    BY <1>5 DEF Place
  <2>3. AllIn(sent, collected, emitted)
    BY <1>1, <2>2 DEF Stage
  <2>4. /\ collected.blocks = Said /\ collected.open = {} /\ collected.reason = message.stop
        /\ emitted = AllSaid
    BY <2>3 DEF AllIn
  <2> QED
    BY <1>2, <2>1, <2>4, StreamEnds
<1> QED
  BY <1>3, <1>4, <1>5

LEMMA CutStep == ASSUME StreamInv, NEW marker \in BOOLEAN, Streams!Cut(marker) PROVE StreamInv'
<1>1. reply.at = "stream" /\ UNCHANGED <<format, message, executed, sent>> /\ sent' \in Nat
  BY DEF StreamInv, Streams!Cut
<1>2. CASE format = "gemini" \/ (marker /\ format # "openai")
  <2>1. Streams!Ending /\ format # "openai"
    BY <1>2 DEF Streams!Cut
  <2> QED
    BY <1>1, <2>1, EndingStep
<1>3. CASE ~(format = "gemini" \/ (marker /\ format # "openai"))
  <2>1. Streams!Refuse /\ UNCHANGED emitted
    BY <1>3 DEF Streams!Cut
  <2> QED
    BY <1>1, <2>1, RefuseStep
<1> QED
  BY <1>2, <1>3

LEMMA StreamAborts == ASSUME StreamInv, Streams!Abort PROVE StreamInv'
<1>1. /\ reply.at # "over" /\ Streams!Fails("cancelled")
      /\ UNCHANGED <<format, message, executed, sent, collected, emitted>>
  BY DEF Streams!Abort
<1>2. executed' \in {0, 1} /\ sent' \in Nat
  BY <1>1 DEF StreamInv
<1> QED
  BY <1>1, <1>2, StreamFails

\* A message that is refused, broken off or cut at its limit hands over no call.
LEMMA AnswerStep == ASSUME StreamInv, Streams!Answer PROVE StreamInv'
<1>1. /\ reply.at = "answer" /\ reply \in Replies /\ executed \in {0, 1} /\ sent \in Nat
      /\ outcome = [state |-> "none", turn |-> Streams!NoTurn]
      /\ collected.open \subseteq DOMAIN collected.blocks /\ Streams!IsPrefix(emitted, AllSaid)
      /\ collected.blocks = Said /\ collected.reason = message.stop
      /\ reply.streamed => emitted = AllSaid
  BY DEF StreamInv, Streams!Answer
<1>2. Speaks /\ UNCHANGED <<format, message, executed, sent, collected, emitted>>
  BY InvSpeaks DEF Streams!Answer
<1>3. CASE Streams!Refused \/ Streams!Malformed \/ Streams!Truncated
  <2>1. Streams!Fails("failed")
    BY <1>3 DEF Streams!Answer
  <2> QED
    BY <1>1, <1>2, <2>1, StreamFails
<1>4. CASE ~(Streams!Refused \/ Streams!Malformed \/ Streams!Truncated)
  <2>1. /\ outcome' = [state |-> "completed", turn |-> Streams!Turn]
        /\ reply' = [reply EXCEPT !.at = "over"]
    BY <1>4 DEF Streams!Answer
  <2>2. reply' \in Replies /\ reply'.at = "over" /\ reply'.streamed = reply.streamed
    BY <1>1, <2>1 DEF Replies
  <2> DEFINE calls == Streams!Calls(Said)
             tools == {k \in DOMAIN Said : Said[k].kind = "tool"}
  <2>3. Streams!Turn.text = AllSaid /\ Streams!Turn.calls = calls
    BY <1>1, <1>2, TextIs DEF Streams!Turn
  <2>4. Streams!Tools = tools
    BY <1>1 DEF Streams!Tools
  <2>5. Streams!ToSet(calls) = tools
    BY <1>2, CallsAre
  <2>6. ASSUME calls # <<>> PROVE message.stop = "stop"
    <3>1. tools # {}
      <4>1. calls \in Seq(Nat)
        BY <1>2, CallsType
      <4>2. 1 \in DOMAIN calls
        <5> HIDE DEF calls
        <5> QED
          BY <2>6, <4>1
      <4>3. calls[1] \in Streams!ToSet(calls)
        <5> HIDE DEF calls
        <5> QED
          BY <4>2 DEF Streams!ToSet
      <4> QED
        BY <2>5, <4>3
    <3>2. message.stop # "refusal" /\ message.stop # "length"
      BY <1>1, <1>4, <2>4, <3>1 DEF Streams!Refused, Streams!Truncated
    <3> QED
      BY <1>2, <3>2 DEF Speaks
  <2>7. /\ outcome'.state = "completed" /\ outcome'.turn.text = AllSaid
        /\ outcome'.turn.calls = calls
    BY <2>1, <2>3
  <2> HIDE DEF calls, tools
  <2>8. /\ reply'.streamed => emitted' = AllSaid
        /\ outcome'.turn.calls # <<>> =>
              message.stop = "stop" /\ Streams!ToSet(outcome'.turn.calls) = tools
    BY <1>1, <1>2, <2>2, <2>5, <2>6, <2>7
  <2> QED
    BY <1>1, <1>2, <2>2, <2>7, <2>8, StreamStays DEF tools
<1> QED
  BY <1>3, <1>4

\* An event of a block adds its own to what has arrived.
LEMMA BlockEventStep ==
    ASSUME StreamInv, Streams!Receive,
           NEW i \in 0..Many, NEW j \in Nat, Place(i, j, sent, collected, emitted), i # Many
    PROVE  StreamInv'
<1> DEFINE ev == EventsOf[i + 1][j + 1]
           co == IF format = "openai" THEN Streams!Nothing
                 ELSE [blocks |-> HeldAt(i, j + 1), open |-> OpenAt(i, j + 1), reason |-> "none"]
<1>1. /\ Speaks /\ reply.at = "stream" /\ sent \in Nat
      /\ UNCHANGED <<format, message, executed>> /\ sent' = sent + 1
  BY InvSpeaks DEF StreamInv, Streams!Receive
<1>2. /\ i \in 0..(Many - 1) /\ Len(EventsOf[i + 1]) \in Nat /\ Many \in Nat
      /\ i + 1 \in 1..Many
  BY <1>1, ShapesOfMessage DEF Speaks
<1>3. /\ j \in 0..(Len(EventsOf[i + 1]) - 1) /\ sent = StartOf(i) + j /\ emitted = ReadAt(i, j)
      /\ collected = IF format = "openai" THEN Streams!Nothing
                     ELSE [blocks |-> HeldAt(i, j), open |-> OpenAt(i, j), reason |-> "none"]
  BY <1>2 DEF Place
<1>4. Streams!Wire[sent + 1] = ev
  <2>1. StartOf(i) \in Nat
    BY <1>1, <1>2, Starts
  <2>2. Streams!Wire[StartOf(i) + j + 1] = ev
    BY <1>1, <1>2, <1>3, WireAt
  <2>3. sent + 1 = StartOf(i) + j + 1
    BY <1>3
  <2> HIDE DEF ev
  <2> QED
    BY <2>2, <2>3
<1>5. /\ ev.type \in {"open", "piece", "shut"} /\ ev.block = i + 1
      /\ ev.type = "open" =>
            /\ Streams!Grown(HeldAt(i, j), ev) = HeldAt(i, j + 1)
            /\ ReadAt(i, j + 1) = ReadAt(i, j)
            /\ OpenAt(i, j + 1) = IF format = "anthropic" THEN OpenAt(i, j) \cup {i + 1}
                                  ELSE OpenAt(i, j)
      /\ ev.type = "piece" =>
            /\ Streams!Grown(HeldAt(i, j), ev) = HeldAt(i, j + 1)
            /\ ReadAt(i, j + 1) = ReadAt(i, j) \o Streams!Shown(ev)
            /\ OpenAt(i, j + 1) = OpenAt(i, j)
      /\ ev.type = "shut" =>
            /\ format = "anthropic" /\ j >= 1 /\ HeldAt(i, j) = HeldAt(i, j + 1)
            /\ ReadAt(i, j + 1) = ReadAt(i, j)
            /\ OpenAt(i, j + 1) = OpenAt(i, j) \ {i + 1}
  BY <1>1, <1>2, <1>3, EventAdds
<1>6. ev.type = "open" => format # "openai"
  <2>1. EventAt(Said[i + 1], i + 1, j, ev)
    BY <1>1, <1>2, <1>3, ShapesOfMessage
  <2> HIDE DEF ev
  <2>2. ev.type = "open" => j < Opens(Said[i + 1])
    BY <2>1 DEF EventAt
  <2> QED
    BY <1>3, <2>2 DEF Opens
<1>7. Streams!Opened(ev) \/ Streams!Piece(ev) \/ Streams!Shut(ev)
  <2>1. \/ Streams!Opened(ev) \/ Streams!Piece(ev) \/ Streams!Shut(ev) \/ Streams!Reason(ev)
        \/ ev.type = "end" /\ Streams!Ending
    <3> HIDE DEF ev
    <3> QED
      BY <1>4 DEF Streams!Receive
  <2> HIDE DEF ev
  <2> QED
    BY <1>5, <2>1 DEF Streams!Reason
<1>8. sent' = StartOf(i) + j + 1 /\ sent' \in Nat
  BY <1>1, <1>3
<1>9. ASSUME Streams!Goes(co), emitted' = ReadAt(i, j + 1) PROVE StreamInv'
  <2>1. collected' = co /\ UNCHANGED <<reply, outcome>>
    BY <1>9 DEF Streams!Goes
  <2>2. Stage(StartOf(i) + j + 1, co, ReadAt(i, j + 1))
    BY <1>1, <1>2, <1>3, StageMoves
  <2> HIDE DEF co
  <2>3. Stage(sent', collected', emitted')
    BY <1>8, <1>9, <2>1, <2>2
  <2> QED
    BY <1>1, <2>1, <2>3, StreamGoes
<1> HIDE DEF ev
<1>10. CASE Streams!Opened(ev)
  <2>1. ev.type = "open" /\ emitted' = emitted
    BY <1>10 DEF Streams!Opened
  <2>2. /\ format # "openai" /\ collected.reason = "none"
        /\ collected = [blocks |-> HeldAt(i, j), open |-> OpenAt(i, j), reason |-> "none"]
    BY <1>3, <1>6, <2>1
  <2>3. Streams!Goes([collected EXCEPT !.blocks = Streams!Grown(@, ev),
                        !.open = IF format = "anthropic" THEN @ \cup {ev.block} ELSE @])
    BY <1>10, <2>2 DEF Streams!Opened
  <2>4. [collected EXCEPT !.blocks = Streams!Grown(@, ev),
                          !.open = IF format = "anthropic" THEN @ \cup {ev.block} ELSE @] = co
    <3> DEFINE h == HeldAt(i, j)
               o == OpenAt(i, j)
               h2 == HeldAt(i, j + 1)
               o2 == OpenAt(i, j + 1)
    <3>1. co = [blocks |-> h2, open |-> o2, reason |-> "none"]
      BY <2>2
    <3>2. /\ collected = [blocks |-> h, open |-> o, reason |-> "none"]
          /\ Streams!Grown(h, ev) = h2
          /\ o2 = IF format = "anthropic" THEN o \cup {ev.block} ELSE o
      BY <1>5, <2>1, <2>2
    <3> HIDE DEF h, o, h2, o2, co
    <3>3. /\ Streams!Grown(collected.blocks, ev) = h2
          /\ (IF format = "anthropic" THEN collected.open \cup {ev.block} ELSE collected.open) = o2
      BY <3>2
    <3>4. [collected EXCEPT !.blocks = h2, !.open = o2] = co
      <4> DEFINE d == [collected EXCEPT !.blocks = h2]
      <4>1. d = [blocks |-> h2, open |-> o, reason |-> "none"]
        BY <3>2
      <4>2. [collected EXCEPT !.blocks = h2, !.open = o2] = [d EXCEPT !.open = o2]
        BY <3>2
      <4> HIDE DEF d
      <4>3. [d EXCEPT !.open = o2] = [blocks |-> h2, open |-> o2, reason |-> "none"]
        BY <4>1
      <4> QED
        BY <3>1, <4>2, <4>3
    <3>5. [collected EXCEPT !.blocks = Streams!Grown(@, ev),
                            !.open = IF format = "anthropic" THEN @ \cup {ev.block} ELSE @]
            = [collected EXCEPT !.blocks = Streams!Grown(collected.blocks, ev),
                                !.open = IF format = "anthropic" THEN collected.open \cup {ev.block}
                                         ELSE collected.open]
      OBVIOUS
    <3> QED
      BY <3>3, <3>4, <3>5
  <2> HIDE DEF co
  <2> QED
    BY <1>3, <1>5, <1>9, <2>1, <2>3, <2>4
<1>11. CASE Streams!Piece(ev)
  <2>1. ev.type = "piece" /\ emitted' = emitted \o Streams!Shown(ev)
    BY <1>11 DEF Streams!Piece
  <2>2. Streams!Goes([collected EXCEPT !.blocks = IF format = "openai" THEN @ ELSE Streams!Grown(@, ev)])
    BY <1>11 DEF Streams!Piece
  <2>3. [collected EXCEPT !.blocks = IF format = "openai" THEN @ ELSE Streams!Grown(@, ev)] = co
    <3>1. CASE format = "openai"
      <4>1. collected = Streams!Nothing /\ co = Streams!Nothing
        BY <1>3, <3>1
      <4> QED
        BY <3>1, <4>1 DEF Streams!Nothing
    <3>2. CASE format # "openai"
      BY <1>3, <1>5, <2>1, <3>2
    <3> QED
      BY <3>1, <3>2
  <2>4. emitted' = ReadAt(i, j + 1)
    BY <1>3, <1>5, <2>1
  <2> HIDE DEF co
  <2> QED
    BY <1>9, <2>2, <2>3, <2>4
<1>12. CASE Streams!Shut(ev)
  <2>1. ev.type = "shut" /\ emitted' = emitted
    BY <1>12 DEF Streams!Shut
  <2>2. CASE Streams!Refuse
    BY <1>1, <1>8, <2>1, <2>2, RefuseStep
  <2>3. CASE Streams!Goes([collected EXCEPT !.open = @ \ {ev.block}])
    <3>1. /\ format # "openai"
          /\ collected = [blocks |-> HeldAt(i, j), open |-> OpenAt(i, j), reason |-> "none"]
      BY <1>3, <1>5, <2>1
    <3>2. [collected EXCEPT !.open = @ \ {ev.block}] = co
      BY <1>5, <2>1, <3>1
    <3> HIDE DEF co
    <3> QED
      BY <1>3, <1>5, <1>9, <2>1, <2>3, <3>2
  <2> QED
    BY <1>12, <2>2, <2>3 DEF Streams!Shut
<1> QED
  BY <1>7, <1>10, <1>11, <1>12

\* The reason to stop comes when every block is there.
LEMMA ReasonStep ==
    ASSUME StreamInv, reply.at = "stream", UNCHANGED <<format, message, executed>>,
           sent' = sent + 1, Place(Many, 0, sent, collected, emitted), format # "openai",
           NEW ev, Streams!Reason(ev)
    PROVE  StreamInv'
<1>1. Speaks
  BY InvSpeaks
<1>2. /\ sent = StartOf(Many) + 0 /\ emitted = ReadAt(Many, 0)
      /\ collected = [blocks |-> HeldAt(Many, 0), open |-> OpenAt(Many, 0), reason |-> "none"]
  BY DEF Place
<1>3. /\ emitted = AllSaid /\ collected = [blocks |-> Said, open |-> {}, reason |-> "none"]
  BY <1>1, <1>2, BlocksAreIn
<1>4. Streams!Goes([collected EXCEPT !.reason = message.stop]) /\ emitted' = emitted
  BY <1>3 DEF Streams!Reason
<1>5. /\ collected' = [collected EXCEPT !.reason = message.stop] /\ UNCHANGED <<reply, outcome>>
  BY <1>4 DEF Streams!Goes
<1>6. collected' = [blocks |-> Said, open |-> {}, reason |-> message.stop]
  BY <1>3, <1>5
<1>7. StartOf(Many) \in Nat
  <2>1. Many \in 0..Many
    BY <1>1 DEF Speaks
  <2> QED
    BY <1>1, <2>1, Starts
<1>8. sent' = StartOf(Many) + 1
  BY <1>2, <1>7
<1>9. AllIn(sent', collected', emitted')
  BY <1>3, <1>4, <1>6, <1>8 DEF AllIn
<1> QED
  BY <1>5, <1>9, StreamGoes DEF Stage

LEMMA ReceiveStep == ASSUME StreamInv, Streams!Receive PROVE StreamInv'
<1> DEFINE ev == Streams!Wire[sent + 1]
<1>1. /\ Speaks /\ reply.at = "stream" /\ sent \in Nat /\ sent < Len(Streams!Wire)
      /\ UNCHANGED <<format, message, executed>> /\ sent' = sent + 1 /\ sent' \in Nat
      /\ Stage(sent, collected, emitted)
  BY InvSpeaks DEF StreamInv, Streams!Receive
<1>2. /\ Many \in Nat /\ Many \in 0..Many
      /\ StartOf(Many) \in Nat /\ Len(Streams!Wire) = StartOf(Many) + Len(Streams!Marks)
      /\ Streams!Marks \in Seq(WireEvents) /\ Len(Streams!Marks) \in Nat
  <2>1. Many \in Nat /\ Many \in 0..Many
    BY <1>1 DEF Speaks
  <2> QED
    BY <1>1, <2>1, Starts, WireMarks, MarksAre
<1>3. ASSUME NEW k \in 1..Len(Streams!Marks), sent = StartOf(Many) + (k - 1)
      PROVE  ev = Streams!Marks[k]
  <2>1. sent + 1 = StartOf(Many) + k
    BY <1>2, <1>3
  <2>2. Streams!Wire[StartOf(Many) + k] = Streams!Marks[k]
    BY <1>1, WireMarks
  <2> QED
    BY <2>1, <2>2
<1>4. \/ Streams!Opened(ev) \/ Streams!Piece(ev) \/ Streams!Shut(ev) \/ Streams!Reason(ev)
      \/ ev.type = "end" /\ Streams!Ending
  BY DEF Streams!Receive
<1> HIDE DEF ev
<1>5. ev.type = "reason" => Streams!Reason(ev)
  BY <1>4 DEF Streams!Opened, Streams!Piece, Streams!Shut
<1>6. ev.type = "end" => Streams!Ending
  BY <1>4 DEF Streams!Opened, Streams!Piece, Streams!Shut, Streams!Reason
<1>7. CASE \E i \in 0..Many, j \in Nat : Place(i, j, sent, collected, emitted)
  <2>1. PICK i \in 0..Many, j \in Nat : Place(i, j, sent, collected, emitted)
    BY <1>7
  <2>2. CASE i # Many
    BY <2>1, <2>2, BlockEventStep
  <2>3. CASE i = Many
    <3>1. Place(Many, 0, sent, collected, emitted)
      BY <2>1, <2>3 DEF Place
    <3>2. sent = StartOf(Many) + (1 - 1) /\ emitted = AllSaid
      <4>1. sent = StartOf(Many) + 0 /\ emitted = ReadAt(Many, 0)
        BY <3>1 DEF Place
      <4>2. StartOf(Many) + 0 = StartOf(Many) + (1 - 1)
        OBVIOUS
      <4>3. ReadAt(Many, 0) = AllSaid
        BY <1>1, BlocksAreIn
      <4> QED
        BY <4>1, <4>2, <4>3
    <3>3. CASE format = "openai"
      <4>1. Len(Streams!Marks) = 1 /\ Streams!Marks[1].type = "end"
        BY <1>1, <3>3, MarksAre
      <4>2. 1 \in 1..Len(Streams!Marks)
        BY <4>1
      <4>3. ev.type = "end"
        BY <1>3, <3>2, <4>1, <4>2
      <4> QED
        BY <1>1, <1>6, <3>2, <4>3, EndingStep
    <3>4. CASE format # "openai"
      <4>1. Len(Streams!Marks) >= 1 /\ Streams!Marks[1].type = "reason"
        BY <1>1, <3>4, MarksAre DEF Speaks
      <4>2. 1 \in 1..Len(Streams!Marks)
        BY <1>2, <4>1
      <4>3. ev.type = "reason"
        BY <1>3, <3>2, <4>1, <4>2
      <4> QED
        BY <1>1, <1>5, <3>1, <3>4, <4>3, ReasonStep
    <3> QED
      BY <3>3, <3>4
  <2> QED
    BY <2>2, <2>3
<1>8. CASE AllIn(sent, collected, emitted)
  <2>1. format # "openai" /\ sent = StartOf(Many) + 1
    BY <1>8 DEF AllIn
  <2>2. Len(Streams!Marks) = 2 /\ Streams!Marks[2].type = "end"
    <3>1. CASE format = "gemini"
      <4>1. Len(Streams!Marks) = 1
        BY <1>1, <3>1, MarksAre
      <4>2. ~(sent < Len(Streams!Wire))
        BY <1>2, <2>1, <4>1
      <4> QED
        BY <1>1, <4>2
    <3>2. CASE format # "gemini"
      <4>1. format \in {"anthropic", "chat"}
        BY <1>1, <2>1, <3>2 DEF Speaks
      <4> QED
        BY <1>1, <4>1, MarksAre
    <3> QED
      BY <3>1, <3>2
  <2>3. 2 \in 1..Len(Streams!Marks) /\ sent = StartOf(Many) + (2 - 1)
    BY <1>2, <2>1, <2>2
  <2>4. ev.type = "end"
    BY <1>3, <2>2, <2>3
  <2> QED
    BY <1>1, <1>6, <2>1, <2>4, EndingStep
<1> QED
  BY <1>1, <1>7, <1>8 DEF Stage

LEMMA StreamRests == ASSUME StreamInv, UNCHANGED streamVars PROVE StreamInv'
<1>1. UNCHANGED <<format, message, reply, executed, sent, collected, emitted, outcome>>
  BY DEF streamVars
<1> QED
  BY <1>1, StreamStays DEF StreamInv, Told

LEMMA StreamNext == ASSUME StreamInv, Streams!Next PROVE StreamInv'
<1>1. CASE \E found \in BOOLEAN : Streams!Credentials(found)
  BY <1>1, CredentialsStep
<1>2. CASE \E hint \in {"short", "long"} : Streams!Limited(hint)
  BY <1>2, LimitedStep
<1>3. CASE \E streamed \in BOOLEAN : Streams!Accepted(streamed)
  BY <1>3, AcceptedStep
<1>4. CASE \E marker \in BOOLEAN : Streams!Cut(marker)
  BY <1>4, CutStep
<1> QED
  BY <1>1, <1>2, <1>3, <1>4, AmbiguousStep, ReceiveStep, AnswerStep, StreamAborts DEF Streams!Next

LEMMA StreamStarts == ASSUME Streams!Init PROVE StreamInv
<1>1. /\ format \in Formats /\ message \in Messages
      /\ reply = [at |-> "key", attempt |-> 1, streamed |-> TRUE]
      /\ executed = 0 /\ sent = 0 /\ collected = Streams!Nothing /\ emitted = <<>>
      /\ outcome = [state |-> "none", turn |-> Streams!NoTurn]
  BY DEF Streams!Init
<1>2. reply \in Replies /\ reply.at = "key"
  <2>1. 1 \in 1..MaxAttempts
    BY StreamsAssumption
  <2> QED
    BY <1>1, <2>1 DEF Replies
<1>3. Streams!IsPrefix(emitted, AllSaid)
  <2>1. Speaks
    BY <1>1, MessagesSpeak
  <2>2. AllSaid \in Seq(Nat) /\ Len(AllSaid) \in Nat
    BY <2>1, TextIs
  <2>3. <<>> \in Seq(Nat) /\ Beginning(<<>>, AllSaid)
    BY <2>2 DEF Beginning
  <2> QED
    BY <1>1, <2>2, <2>3, BeginningIs
<1>4. collected.open \subseteq DOMAIN collected.blocks
  BY <1>1 DEF Streams!Nothing
<1> QED
  BY <1>1, <1>2, <1>3, <1>4 DEF StreamInv

\* Wherever a stream of a provider is cut or closed, the tools that run are those of a
\* message the model finished, the text is the answer's, and no request is executed
\* twice (src/src/providers/streams.ts).
THEOREM StreamsHold == ConversationsSpec => []StreamsAreWhole
<1>1. ConversationsInit => StreamInv
  BY StreamStarts DEF ConversationsInit
<1>2. StreamInv /\ [ConversationsNext]_<<part, vars, contextVars, indexVars, feedVars,
                                         catalogVars, streamVars, nativeVars>> => StreamInv'
  BY StreamNext, StreamRests DEF ConversationsNext
<1>3. StreamInv => StreamsAreWhole
  <2> SUFFICES ASSUME StreamInv PROVE StreamsAreWhole
    OBVIOUS
  <2>1. Speaks /\ Streams!Text(message.blocks) = AllSaid
    BY InvSpeaks, TextIs
  <2>2. reply.at = "over" \/ outcome = [state |-> "none", turn |-> Streams!NoTurn]
    BY DEF StreamInv
  <2>3. Streams!TypeOK
    <3>1. reply.at \in {"key", "fetch", "stream", "answer", "over"} /\ reply.attempt \in 1..MaxAttempts
      BY DEF StreamInv, Replies
    <3>2. outcome.state \in {"none", "completed", "failed", "cancelled"}
      BY <2>2 DEF StreamInv, Told
    <3> QED
      BY <3>1, <3>2 DEF StreamInv, Streams!TypeOK
  <2>4. Streams!CallsAreWhole
    BY <2>2 DEF StreamInv, Told, Streams!CallsAreWhole, Streams!NoTurn, Said
  <2>5. Streams!TextIsTheAnswer
    <3>1. outcome.state = "completed" =>
             outcome.turn.text = AllSaid /\ (reply.streamed => emitted = AllSaid)
      BY <2>2 DEF StreamInv, Told
    <3> QED
      BY <2>1, <3>1 DEF StreamInv, Streams!TextIsTheAnswer
  <2>6. Streams!ExecutedOnce
    BY DEF StreamInv, Streams!ExecutedOnce
  <2> QED
    BY <2>3, <2>4, <2>5, <2>6 DEF StreamsAreWhole
<1> QED
  BY <1>1, <1>2, <1>3, PTL DEF ConversationsSpec

-----------------------------------------------------------------------------
(* Documents: their totals and joins are those of Sums                       *)

LEMMA FeedJoins == \A s : Feed!FlattenSeq(s) = FlattenSeq(s)
  BY DEF Feed!FlattenSeq, FlattenSeq

LEMMA FeedTotals == \A s : Feed!Total(s) = TotalOf(s)
  BY DEF Feed!Total, TotalOf

\* What a sequence of sequences is flattened to.
LEMMA FlattenIs ==
    ASSUME NEW S, NEW s \in Seq(Seq(S))
    PROVE  /\ Feed!FlattenSeq(s) = Joined(s, Len(s))
           /\ Len(s) \in Nat /\ s \in [1..Len(s) -> Seq(S)]
           /\ Feed!FlattenSeq(s) \in Seq(S)
<1>1. Len(s) \in Nat /\ s \in [1..Len(s) -> Seq(S)] /\ s = [k \in 1..Len(s) |-> s[k]]
  OBVIOUS
<1>2. Feed!FlattenSeq(s) = FlattenSeq(s)
  BY FeedJoins
<1>3. FlattenSeq(s) = Joined(s, Len(s))
  BY <1>1 DEF Joined
<1>4. Len(s) \in 0..Len(s)
  BY <1>1
<1>5. Joined(s, Len(s)) \in Seq(S)
  BY <1>1, <1>4, JoinedType
<1> QED
  BY <1>1, <1>2, <1>3, <1>5

-----------------------------------------------------------------------------
(* The sections of a Markdown document are the document *)

Seen == [fence : BOOLEAN, content : BOOLEAN, starts : Seq(Nat)]
NothingSeen == [fence |-> FALSE, content |-> FALSE, starts |-> <<1>>]

\* What one line does to the starts.
LEMMA ScanStep ==
    ASSUME NEW x \in Seen, NEW i \in Nat, NEW line \in Feed!Line
    PROVE  /\ Feed!Scan(x, i, line) \in Seen
           /\ LET t == Feed!Scan(x, i, line).starts
              IN  \/ t = x.starts
                  \/ i > 1 /\ t = Append(x.starts, i)
                  \/ i - 1 > 1 /\ t = Append(x.starts, i - 1)
<1> DEFINE s == x.starts
<1>1. x = [fence |-> x.fence, content |-> x.content, starts |-> s]
      /\ x.fence \in BOOLEAN /\ x.content \in BOOLEAN /\ s \in Seq(Nat)
  BY DEF Seen
<1>2. ASSUME NEW j \in Int
      PROVE  /\ Feed!From(s, j) \in Seq(Nat)
             /\ Feed!From(s, j) = s \/ (j > 1 /\ Feed!From(s, j) = Append(s, j))
  <2> HIDE DEF s
  <2>1. CASE j > 1
    <3>1. j \in Nat
      BY <2>1
    <3>2. Append(s, j) \in Seq(Nat)
      BY <1>1, <3>1
    <3> QED
      BY <2>1, <3>2 DEF Feed!From
  <2>2. CASE ~(j > 1)
    BY <1>1, <2>2 DEF Feed!From
  <2> QED
    BY <2>1, <2>2
<1>3. /\ Feed!From(s, i) \in Seq(Nat) /\ Feed!From(s, i - 1) \in Seq(Nat)
      /\ Feed!From(s, i) = s \/ (i > 1 /\ Feed!From(s, i) = Append(s, i))
      /\ Feed!From(s, i - 1) = s \/ (i - 1 > 1 /\ Feed!From(s, i - 1) = Append(s, i - 1))
  <2>1. i \in Int /\ i - 1 \in Int
    OBVIOUS
  <2> HIDE DEF s
  <2>2. /\ Feed!From(s, i) \in Seq(Nat)
        /\ Feed!From(s, i) = s \/ (i > 1 /\ Feed!From(s, i) = Append(s, i))
    BY <1>2, <2>1
  <2> DEFINE j == i - 1
  <2>3. j \in Int
    BY <2>1
  <2> HIDE DEF j
  <2>4. /\ Feed!From(s, j) \in Seq(Nat)
        /\ Feed!From(s, j) = s \/ (j > 1 /\ Feed!From(s, j) = Append(s, j))
    BY <1>2, <2>3
  <2> QED
    BY <2>2, <2>4 DEF j
<1> DEFINE y == Feed!Scan(x, i, line)
           d == [x EXCEPT !.fence = ~@]
           e == [x EXCEPT !.starts = Feed!From(@, i)]
           g == [x EXCEPT !.starts = Feed!From(@, i - 1)]
<1>4. \/ y = [d EXCEPT !.content = FALSE]
      \/ y = [x EXCEPT !.content = FALSE]
      \/ y = [e EXCEPT !.content = FALSE]
      \/ y = [g EXCEPT !.content = FALSE]
      \/ y = [x EXCEPT !.content = Feed!Ink(line) > 0]
  BY DEF Feed!Scan
<1>5. d \in Seen /\ d.starts = s
  <2>1. (~x.fence) \in BOOLEAN
    OBVIOUS
  <2> QED
    BY <1>1, <2>1 DEF Seen
<1>6. e \in Seen /\ e.starts = Feed!From(s, i)
  BY <1>1, <1>3 DEF Seen
<1>7. g \in Seen /\ g.starts = Feed!From(s, i - 1)
  BY <1>1, <1>3 DEF Seen
<1>8. ASSUME NEW r \in Seen, NEW c \in BOOLEAN
      PROVE  [r EXCEPT !.content = c] \in Seen /\ [r EXCEPT !.content = c].starts = r.starts
  BY DEF Seen
<1> DEFINE c == Feed!Ink(line) > 0
<1>9. FALSE \in BOOLEAN /\ c \in BOOLEAN
  OBVIOUS
<1>10. y \in Seen /\ y.starts \in {s, Feed!From(s, i), Feed!From(s, i - 1)}
  <2>1. \/ y = [d EXCEPT !.content = FALSE]
        \/ y = [x EXCEPT !.content = FALSE]
        \/ y = [e EXCEPT !.content = FALSE]
        \/ y = [g EXCEPT !.content = FALSE]
        \/ y = [x EXCEPT !.content = c]
    BY <1>4
  <2> HIDE DEF y, d, e, g, c
  <2>2. CASE y = [d EXCEPT !.content = FALSE]
    BY <1>5, <1>8, <1>9, <2>2
  <2>3. CASE y = [x EXCEPT !.content = FALSE]
    BY <1>8, <1>9, <2>3
  <2>4. CASE y = [e EXCEPT !.content = FALSE]
    BY <1>6, <1>8, <1>9, <2>4
  <2>5. CASE y = [g EXCEPT !.content = FALSE]
    BY <1>7, <1>8, <1>9, <2>5
  <2>6. CASE y = [x EXCEPT !.content = c]
    BY <1>8, <1>9, <2>6
  <2> QED
    BY <2>1, <2>2, <2>3, <2>4, <2>5, <2>6
<1> HIDE DEF s
<1>11. \/ y.starts = s
       \/ i > 1 /\ y.starts = Append(s, i)
       \/ i - 1 > 1 /\ y.starts = Append(s, i - 1)
  <2> HIDE DEF y
  <2> QED
    BY <1>3, <1>10
<1> QED
  BY <1>10, <1>11 DEF s

\* The scan, line by line.
LEMMA ScanRuns ==
    ASSUME NEW rows \in Seq(Feed!Line)
    PROVE  \E f \in [0..Len(rows) -> Seen] :
              /\ f[0] = NothingSeen
              /\ \A i \in 1..Len(rows) : f[i] = Feed!Scan(f[i - 1], i, rows[i])
              /\ Feed!Scanned(rows) = f[Len(rows)]
<1> DEFINE n == Len(rows)
           g == [i \in 1..n |-> [x \in Seen |-> Feed!Scan(x, i, rows[i])]]
           f == CHOOSE f : f = [i \in 0..Len(rows) |->
                    IF i = 0 THEN [fence |-> FALSE, content |-> FALSE, starts |-> <<1>>]
                    ELSE Feed!Scan(f[i - 1], i, rows[i])]
<1>1. n \in Nat /\ \A i \in 1..n : rows[i] \in Feed!Line /\ i \in Nat
  OBVIOUS
<1>2. \A i \in 1..n : \A x \in Seen : Feed!Scan(x, i, rows[i]) \in Seen
  <2> HIDE DEF n
  <2> QED
    BY <1>1, ScanStep
<1>3. g \in [1..n -> [Seen -> Seen]]
  BY <1>2
<1>4. NothingSeen \in Seen
  <2>1. <<1>> \in Seq(Nat)
    OBVIOUS
  <2> QED
    BY <2>1 DEF NothingSeen, Seen
<1>5. \E h \in [0..n -> Seen] : h[0] = NothingSeen /\ \A i \in 1..n : h[i] = g[i][h[i - 1]]
  <2> DEFINE z == NothingSeen
  <2>1. n \in Nat /\ z \in Seen
    BY <1>1, <1>4
  <2> HIDE DEF n, g, f, z
  <2>2. \E h \in [0..n -> Seen] : h[0] = z /\ \A i \in 1..n : h[i] = g[i][h[i - 1]]
    BY <1>3, <2>1, Iterates
  <2> QED
    BY <2>2 DEF z
<1>6. PICK h \in [0..n -> Seen] : h[0] = NothingSeen /\ \A i \in 1..n : h[i] = g[i][h[i - 1]]
  BY <1>5
<1>7. \A i \in 1..n : h[i] = Feed!Scan(h[i - 1], i, rows[i])
  <2> TAKE i \in 1..n
  <2>1. i - 1 \in 0..n
    BY <1>1
  <2>2. h[i - 1] \in Seen
    BY <1>6, <2>1
  <2>3. g[i][h[i - 1]] = Feed!Scan(h[i - 1], i, rows[i])
    BY <2>2
  <2> QED
    BY <1>6, <2>3
<1>8. h = [i \in 0..n |-> IF i = 0 THEN [fence |-> FALSE, content |-> FALSE, starts |-> <<1>>]
                         ELSE Feed!Scan(h[i - 1], i, rows[i])]
  <2>1. \A i \in 0..n : i # 0 => i \in 1..n
    BY <1>1
  <2> HIDE DEF n, g
  <2>2. \A i \in 0..n : h[i] = IF i = 0 THEN [fence |-> FALSE, content |-> FALSE, starts |-> <<1>>]
                               ELSE Feed!Scan(h[i - 1], i, rows[i])
    BY <1>6, <1>7, <2>1 DEF NothingSeen
  <2> QED
    BY <1>6, <2>2
<1>9. f = [i \in 0..Len(rows) |-> IF i = 0 THEN [fence |-> FALSE, content |-> FALSE, starts |-> <<1>>]
                                   ELSE Feed!Scan(f[i - 1], i, rows[i])]
  <2>1. \E k : k = [i \in 0..Len(rows) |-> IF i = 0 THEN [fence |-> FALSE, content |-> FALSE, starts |-> <<1>>]
                                            ELSE Feed!Scan(k[i - 1], i, rows[i])]
    BY <1>8
  <2> QED
    BY <2>1, Zenon
<1>10. Feed!Scanned(rows) = f[n]
  BY DEF Feed!Scanned
<1> HIDE DEF f, g
<1>11. f[0] = NothingSeen /\ \A i \in 1..n : f[i] = Feed!Scan(f[i - 1], i, rows[i])
  <2>1. \A i \in 0..n : f[i] = IF i = 0 THEN [fence |-> FALSE, content |-> FALSE, starts |-> <<1>>]
                               ELSE Feed!Scan(f[i - 1], i, rows[i])
    BY <1>9
  <2>2. 0 \in 0..n /\ \A i \in 1..n : i \in 0..n /\ i # 0
    BY <1>1
  <2> QED
    BY <2>1, <2>2 DEF NothingSeen
<1>12. \A i \in 0..n : f[i] \in Seen
  <2>1. \A i \in 1..n : f[i - 1] \in Seen => f[i] \in Seen
    <3> TAKE i \in 1..n
    <3> QED
      BY <1>2, <1>11
  <2>2. f[0] \in Seen
    BY <1>4, <1>11
  <2> HIDE DEF n
  <2> QED
    BY <1>1, <2>1, <2>2, Iteration
<1>13. f \in [0..n -> Seen]
  BY <1>9, <1>12
<1> QED
  BY <1>10, <1>11, <1>13

\* The starts are in order, the first is the first line, and none is behind line i.
Ordered(t, i) ==
    /\ t \in Seq(Nat) /\ Len(t) >= 1 /\ t[1] = 1
    /\ \A k \in 1..Len(t) : 1 <= t[k] /\ t[k] <= (IF i = 0 THEN 1 ELSE i)
    /\ \A k \in 1..Len(t) - 1 : t[k] <= t[k + 1]

LEMMA OrderedNext ==
    ASSUME NEW t, NEW i \in Nat, i >= 1, Ordered(t, i - 1), NEW j \in Nat, j > 1, j = i \/ j = i - 1
    PROVE  Ordered(Append(t, j), i)
<1>1. t \in Seq(Nat) /\ Len(t) \in Nat /\ Len(t) >= 1 /\ t[1] = 1
  BY DEF Ordered
<1>2. /\ Append(t, j) \in Seq(Nat) /\ Len(Append(t, j)) = Len(t) + 1
      /\ \A k \in 1..Len(t) : Append(t, j)[k] = t[k]
      /\ Append(t, j)[Len(t) + 1] = j
  BY <1>1
<1> DEFINE u == Append(t, j)
<1> HIDE DEF u
<1>3. /\ u \in Seq(Nat) /\ Len(u) = Len(t) + 1 /\ \A k \in 1..Len(t) : u[k] = t[k]
      /\ u[Len(t) + 1] = j
  BY <1>2 DEF u
<1>4. \A k \in 1..Len(t) : t[k] \in Nat /\ 1 <= t[k] /\ t[k] <= j /\ t[k] <= i
  <2> TAKE k \in 1..Len(t)
  <2>1. t[k] \in Nat
    BY <1>1
  <2>2. 1 <= t[k] /\ t[k] <= (IF i - 1 = 0 THEN 1 ELSE i - 1)
    BY DEF Ordered
  <2> QED
    BY <2>1, <2>2
<1>5. \A k \in 1..Len(u) : 1 <= u[k] /\ u[k] <= i
  <2> TAKE k \in 1..Len(u)
  <2>1. CASE k \in 1..Len(t)
    BY <1>3, <1>4, <2>1
  <2>2. CASE k = Len(t) + 1
    BY <1>3, <2>2
  <2> QED
    BY <1>1, <1>3, <2>1, <2>2
<1>6. \A k \in 1..Len(u) - 1 : u[k] <= u[k + 1]
  <2> TAKE k \in 1..Len(u) - 1
  <2>1. k \in 1..Len(t) /\ u[k] = t[k]
    BY <1>1, <1>3
  <2>2. CASE k = Len(t)
    BY <1>3, <1>4, <2>1, <2>2
  <2>3. CASE k # Len(t)
    <3>1. k \in 1..Len(t) - 1 /\ k + 1 \in 1..Len(t)
      BY <1>1, <2>1, <2>3
    <3>2. t[k] <= t[k + 1]
      BY <3>1 DEF Ordered
    <3> QED
      BY <1>3, <2>1, <3>1, <3>2
  <2> QED
    BY <2>2, <2>3
<1>7. Len(u) >= 1 /\ u[1] = 1
  BY <1>1, <1>3
<1>8. Ordered(u, i)
  BY <1>3, <1>5, <1>6, <1>7 DEF Ordered
<1> QED
  BY <1>8 DEF u

LEMMA StartsAreOrdered ==
    ASSUME NEW rows \in Seq(Feed!Line)
    PROVE  Ordered(Feed!Scanned(rows).starts, Len(rows))
<1> DEFINE n == Len(rows)
<1>1. n \in Nat /\ \A i \in 1..n : rows[i] \in Feed!Line
  OBVIOUS
<1>2. PICK f \in [0..n -> Seen] :
         /\ f[0] = NothingSeen
         /\ \A i \in 1..n : f[i] = Feed!Scan(f[i - 1], i, rows[i])
         /\ Feed!Scanned(rows) = f[n]
  BY ScanRuns
<1> DEFINE T == {i \in 0..n : Ordered(f[i].starts, i)}
<1>3. 0 \in T
  <2> DEFINE t == <<1>>
  <2>1. t \in Seq(Nat) /\ Len(t) = 1 /\ t[1] = 1
    OBVIOUS
  <2>2. f[0].starts = t
    BY <1>2 DEF NothingSeen
  <2> HIDE DEF t
  <2>3. Ordered(t, 0)
    BY <2>1 DEF Ordered
  <2> QED
    BY <1>1, <2>2, <2>3
<1>4. ASSUME NEW i \in 1..n, i - 1 \in T PROVE i \in T
  <2>1. i \in 0..n /\ i - 1 \in 0..n /\ i \in Nat /\ i >= 1
    BY <1>1
  <2>2. f[i - 1] \in Seen /\ rows[i] \in Feed!Line /\ f[i] = Feed!Scan(f[i - 1], i, rows[i])
    BY <1>1, <1>2, <2>1
  <2>3. Ordered(f[i - 1].starts, i - 1)
    BY <1>4
  <2> DEFINE s == f[i - 1].starts
             t == f[i].starts
  <2>4. \/ t = s
        \/ i > 1 /\ t = Append(s, i)
        \/ i - 1 > 1 /\ t = Append(s, i - 1)
    BY <2>1, <2>2, ScanStep
  <2>5. Ordered(t, i)
    <3> HIDE DEF s, t
    <3>0. Ordered(s, i - 1)
      BY <2>3 DEF s
    <3>1. CASE t = s
      <4>1. s \in Seq(Nat) /\ \A k \in 1..Len(s) : s[k] \in Nat
        BY <3>0 DEF Ordered
      <4>2. \A k \in 1..Len(s) : s[k] <= (IF i = 0 THEN 1 ELSE i)
        <5> TAKE k \in 1..Len(s)
        <5>1. s[k] <= (IF i - 1 = 0 THEN 1 ELSE i - 1)
          BY <3>0 DEF Ordered
        <5> QED
          BY <2>1, <4>1, <5>1
      <4>3. Ordered(s, i)
        BY <3>0, <4>2 DEF Ordered
      <4> QED
        BY <3>1, <4>3
    <3>2. CASE i > 1 /\ t = Append(s, i)
      <4>1. Ordered(Append(s, i), i)
        BY <2>1, <3>0, <3>2, OrderedNext
      <4> QED
        BY <3>2, <4>1
    <3>3. CASE i - 1 > 1 /\ t = Append(s, i - 1)
      <4>1. i - 1 \in Nat
        BY <2>1
      <4>2. Ordered(Append(s, i - 1), i)
        BY <2>1, <3>0, <3>3, <4>1, OrderedNext
      <4> QED
        BY <3>3, <4>2
    <3> QED
      BY <2>4, <3>1, <3>2, <3>3 DEF s, t
  <2> QED
    BY <2>1, <2>5
<1>5. \A i \in 0..n : i \in T
  <2> HIDE DEF n, T
  <2> QED
    BY <1>1, <1>3, <1>4, Upwards
<1>6. n \in 0..n
  BY <1>1
<1>7. Ordered(f[n].starts, n)
  BY <1>5, <1>6
<1> QED
  BY <1>2, <1>7

\* What markdownSegments returns for any lines: at least one section, and the sections
\* one after another are the lines (src/src/chunking.ts).
THEOREM SectionsAreAll ==
    ASSUME NEW rows \in Seq(Feed!Line)
    PROVE  /\ Feed!Sections(rows) \in Seq(Seq(Feed!Line)) /\ Len(Feed!Sections(rows)) >= 1
           /\ Feed!FlattenSeq(Feed!Sections(rows)) = rows
<1> DEFINE n == Len(rows)
           s == Feed!Scanned(rows).starts
           m == Len(s)
           end == [k \in 1..m |-> IF k = m THEN n ELSE s[k + 1] - 1]
           p == Feed!Sections(rows)
<1>1. n \in Nat /\ Ordered(s, n)
  BY StartsAreOrdered
<1>2. s \in Seq(Nat) /\ m \in Nat /\ m >= 1 /\ s[1] = 1 /\ DOMAIN s = 1..m
  BY <1>1 DEF Ordered
<1>3. p = [k \in 1..m |-> SubSeq(rows, s[k], IF k = m THEN n ELSE s[k + 1] - 1)]
  BY <1>2 DEF Feed!Sections
<1> HIDE DEF s, p, n
<1>4. \A k \in 1..m : p[k] = SubSeq(rows, s[k], end[k])
  BY <1>3
<1>5. \A k \in 1..m : /\ s[k] \in 1..n + 1 /\ end[k] \in s[k] - 1..n
                      /\ k # m => end[k] = s[k + 1] - 1
                      /\ k = m => end[k] = n
  <2> TAKE k \in 1..m
  <2>1. s[k] \in Nat /\ 1 <= s[k] /\ s[k] <= n + 1
    <3>1. s[k] \in Nat /\ 1 <= s[k] /\ s[k] <= (IF n = 0 THEN 1 ELSE n)
      BY <1>1, <1>2 DEF Ordered
    <3> QED
      BY <1>1, <3>1
  <2>2. CASE k = m
    BY <1>1, <2>1, <2>2
  <2>3. CASE k # m
    <3>1. k \in 1..m - 1 /\ k + 1 \in 1..m
      <4> HIDE DEF m
      <4> QED
        BY <1>2, <2>3
    <3>2. s[k] <= s[k + 1]
      BY <1>1, <3>1 DEF Ordered
    <3>3. s[k + 1] \in Nat /\ s[k + 1] <= n + 1
      <4>1. s[k + 1] \in Nat /\ s[k + 1] <= (IF n = 0 THEN 1 ELSE n)
        BY <1>1, <1>2, <3>1 DEF Ordered
      <4> QED
        BY <1>1, <4>1
    <3>4. end[k] = s[k + 1] - 1
      BY <2>3
    <3> QED
      BY <1>1, <2>1, <2>3, <3>2, <3>3, <3>4
  <2> QED
    BY <2>2, <2>3
<1> HIDE DEF end
<1>6. \A k \in 1..m : p[k] \in Seq(Feed!Line)
  <2> TAKE k \in 1..m
  <2>1. s[k] \in Int /\ end[k] \in Int /\ \A i \in s[k]..end[k] : i \in 1..n
    BY <1>1, <1>5
  <2>2. \A i \in s[k]..end[k] : rows[i] \in Feed!Line
    BY <2>1 DEF n
  <2>3. SubSeq(rows, s[k], end[k]) \in Seq(Feed!Line)
    BY <2>1, <2>2, SubSeqProperties
  <2> QED
    BY <1>4, <2>3
<1>7. p \in [1..m -> Seq(Feed!Line)] /\ p \in Seq(Seq(Feed!Line)) /\ Len(p) = m
  <2>1. p = [k \in 1..m |-> p[k]]
    BY <1>3
  <2>2. p \in [1..m -> Seq(Feed!Line)]
    BY <1>6, <2>1
  <2>3. p \in Seq(Seq(Feed!Line))
    <3> DEFINE S == Seq(Feed!Line)
    <3>1. m \in Nat /\ p \in [1..m -> S]
      BY <1>2, <2>2
    <3> HIDE DEF S, m
    <3>2. p \in Seq(S)
      BY <3>1, IsASeq
    <3> QED
      BY <3>2 DEF S
  <2> QED
    BY <1>2, <2>2, <2>3, LenProperties
<1> DEFINE T == {i \in 0..m : i >= 1 => Joined(p, i) = SubSeq(rows, 1, end[i])}
<1>8. 0 \in T
  BY <1>2
<1>9. ASSUME NEW i \in 1..m, i - 1 \in T PROVE i \in T
  <2>1. i \in 0..m /\ i >= 1 /\ i - 1 \in 0..m
    BY <1>2
  <2>2. Joined(p, i) = Joined(p, i - 1) \o p[i]
    <3> HIDE DEF m, T
    <3> QED
      BY <1>2, <1>7, JoinedNext
  <2>3. CASE i = 1
    <3>1. Joined(p, 0) = <<>> /\ p[1] \in Seq(Feed!Line)
      BY <1>6, <2>3, JoinedNone
    <3>2. <<>> \o p[1] = p[1]
      BY <3>1
    <3>3. p[1] = SubSeq(rows, 1, end[1])
      BY <1>2, <1>4, <2>3
    <3>4. Joined(p, i) = p[1]
      <4>1. Joined(p, i) = Joined(p, 0) \o p[1]
        BY <2>2, <2>3
      <4> QED
        BY <3>1, <3>2, <4>1
    <3>5. Joined(p, i) = SubSeq(rows, 1, end[i])
      BY <2>3, <3>3, <3>4
    <3> QED
      BY <2>1, <3>5
  <2>4. CASE i # 1
    <3>1. i - 1 \in 1..m /\ i - 1 # m /\ (i - 1) + 1 = i /\ i - 1 >= 1
      BY <1>2, <2>4
    <3>2. Joined(p, i - 1) = SubSeq(rows, 1, end[i - 1])
      BY <1>9, <3>1
    <3> DEFINE e == s[i] - 1
    <3>3. end[i - 1] = e
      BY <1>5, <3>1
    <3>4. p[i] = SubSeq(rows, s[i], end[i]) /\ s[i] = e + 1
      BY <1>4, <1>5, <2>1
    <3>5. 1 \in 1..Len(rows) + 1 /\ e \in 1 - 1..Len(rows) /\ end[i] \in e..Len(rows)
      BY <1>1, <1>5 DEF n
    <3> HIDE DEF e
    <3>6. SubSeq(rows, 1, e) \o SubSeq(rows, e + 1, end[i]) = SubSeq(rows, 1, end[i])
      BY <3>5, ConcatAdjacentSubSeq
    <3>7. Joined(p, i) = SubSeq(rows, 1, end[i])
      BY <2>2, <3>2, <3>3, <3>4, <3>6
    <3> QED
      BY <2>1, <3>7
  <2> QED
    BY <2>3, <2>4
<1>10. \A i \in 0..m : i \in T
  <2> HIDE DEF m, T
  <2> QED
    BY <1>2, <1>8, <1>9, Upwards
<1>11. Joined(p, m) = SubSeq(rows, 1, n)
  <2>1. m \in 0..m /\ m \in 1..m
    BY <1>2
  <2> QED
    BY <1>2, <1>5, <1>10, <2>1
<1>12. SubSeq(rows, 1, n) = rows
  BY SubSeqFull DEF n
<1>13. Feed!FlattenSeq(p) = Joined(p, Len(p))
  BY <1>7, FlattenIs
<1> QED
  BY <1>2, <1>7, <1>11, <1>12, <1>13 DEF p

-----------------------------------------------------------------------------
(* The parts of lines, and what they weigh *)

Slice == [line : Nat, bytes : Nat, ink : Nat]
Tagged == [page : Nat, parts : Seq(Slice)]

SizeOf == [x \in Slice |-> x.bytes]
LineOf(l) == [x \in Slice |-> IF x.line = l THEN x.ink ELSE 0]
KeptOf(l) == [ps \in Seq(Slice) |-> Weigh(LineOf(l), ps)]
InkAt(p, l) == [t \in Tagged |-> IF t.page # p THEN 0 ELSE Weigh(LineOf(l), t.parts)]

\* What a passage may be: it fits, and its lines follow one another.
Good == {ps \in Seq(Slice) : /\ Weigh(SizeOf, ps) <= MaxBytes
                             /\ \A j \in 1..Len(ps) - 1 : ps[j + 1].line = ps[j].line + 1}

LEMMA Weights ==
    /\ SizeOf \in [Slice -> Nat]
    /\ \A l : LineOf(l) \in [Slice -> Nat]
    /\ \A l : KeptOf(l) \in [Seq(Slice) -> Nat]
    /\ \A p, l : InkAt(p, l) \in [Tagged -> Nat]
<1>1. SizeOf \in [Slice -> Nat]
  BY DEF SizeOf, Slice
<1>2. ASSUME NEW l PROVE LineOf(l) \in [Slice -> Nat]
  BY DEF LineOf, Slice
<1>3. ASSUME NEW l, NEW ps \in Seq(Slice) PROVE Weigh(LineOf(l), ps) \in Nat
  BY <1>2, WeighType
<1>4. ASSUME NEW l PROVE KeptOf(l) \in [Seq(Slice) -> Nat]
  BY <1>3 DEF KeptOf
<1>5. ASSUME NEW p, NEW l PROVE InkAt(p, l) \in [Tagged -> Nat]
  <2>1. \A t \in Tagged : t.parts \in Seq(Slice)
    BY DEF Tagged
  <2>2. \A t \in Tagged : (IF t.page # p THEN 0 ELSE Weigh(LineOf(l), t.parts)) \in Nat
    BY <1>3, <2>1
  <2> QED
    BY <2>2 DEF InkAt
<1> QED
  BY <1>1, <1>2, <1>4, <1>5

LEMMA SizeIs ==
    ASSUME NEW ps \in Seq(Slice)
    PROVE  Feed!Size(ps) = Weigh(SizeOf, ps) /\ Feed!Size(ps) \in Nat
<1>1. DOMAIN ps = 1..Len(ps) /\ \A j \in 1..Len(ps) : ps[j] \in Slice
  OBVIOUS
<1>2. \A j \in 1..Len(ps) : SizeOf[ps[j]] = ps[j].bytes
  BY <1>1 DEF SizeOf
<1>3. [j \in DOMAIN ps |-> ps[j].bytes] = [j \in 1..Len(ps) |-> SizeOf[ps[j]]]
  BY <1>1, <1>2
<1>4. Feed!Size(ps) = Weigh(SizeOf, ps)
  BY <1>3, FeedTotals DEF Feed!Size, Weigh
<1>5. Weigh(SizeOf, ps) \in Nat
  BY Weights, WeighType
<1> QED
  BY <1>4, <1>5

LEMMA LineInkIs ==
    ASSUME NEW ps \in Seq(Slice), NEW l
    PROVE  Feed!Total([j \in DOMAIN ps |-> IF ps[j].line = l THEN ps[j].ink ELSE 0])
              = Weigh(LineOf(l), ps)
<1>1. DOMAIN ps = 1..Len(ps) /\ \A j \in 1..Len(ps) : ps[j] \in Slice
  OBVIOUS
<1>2. \A j \in 1..Len(ps) : LineOf(l)[ps[j]] = IF ps[j].line = l THEN ps[j].ink ELSE 0
  BY <1>1 DEF LineOf
<1>3. [j \in DOMAIN ps |-> IF ps[j].line = l THEN ps[j].ink ELSE 0]
         = [j \in 1..Len(ps) |-> LineOf(l)[ps[j]]]
  BY <1>1, <1>2
<1> QED
  BY <1>3, FeedTotals DEF Weigh

LEMMA InkIs ==
    ASSUME NEW passages \in Seq(Tagged), NEW p, NEW l
    PROVE  Feed!InkOf(passages, p, l) = Weigh(InkAt(p, l), passages)
<1> DEFINE u == [i \in DOMAIN passages |->
                    IF passages[i].page # p THEN 0
                    ELSE Feed!Total([j \in DOMAIN passages[i].parts |->
                                        IF passages[i].parts[j].line = l
                                        THEN passages[i].parts[j].ink ELSE 0])]
           v == [i \in 1..Len(passages) |-> InkAt(p, l)[passages[i]]]
<1>1. DOMAIN passages = 1..Len(passages) /\ \A i \in 1..Len(passages) : passages[i] \in Tagged
  OBVIOUS
<1>2. ASSUME NEW i \in 1..Len(passages) PROVE u[i] = v[i]
  <2>1. passages[i] \in Tagged /\ passages[i].parts \in Seq(Slice)
    BY <1>1 DEF Tagged
  <2>2. Feed!Total([j \in DOMAIN passages[i].parts |->
                       IF passages[i].parts[j].line = l THEN passages[i].parts[j].ink ELSE 0])
           = Weigh(LineOf(l), passages[i].parts)
    BY <2>1, LineInkIs
  <2>3. InkAt(p, l)[passages[i]]
           = IF passages[i].page # p THEN 0 ELSE Weigh(LineOf(l), passages[i].parts)
    BY <2>1 DEF InkAt
  <2>4. u[i] = IF passages[i].page # p THEN 0
               ELSE Feed!Total([j \in DOMAIN passages[i].parts |->
                       IF passages[i].parts[j].line = l THEN passages[i].parts[j].ink ELSE 0])
    BY <1>1
  <2>5. v[i] = InkAt(p, l)[passages[i]]
    OBVIOUS
  <2> HIDE DEF u, v
  <2> QED
    BY <2>2, <2>3, <2>4, <2>5
<1>3. u = [i \in 1..Len(passages) |-> u[i]] /\ v = [i \in 1..Len(passages) |-> v[i]]
  BY <1>1
<1>4. Feed!InkOf(passages, p, l) = Feed!Total(u)
  BY DEF Feed!InkOf
<1>5. Weigh(InkAt(p, l), passages) = Feed!Total(v)
  BY FeedTotals DEF Weigh
<1> HIDE DEF u, v
<1>6. u = v
  BY <1>2, <1>3
<1> QED
  BY <1>4, <1>5, <1>6

-----------------------------------------------------------------------------
(* The parts of a line are the line *)

\* A line has a size.
LEMMA LineIs ==
    ASSUME NEW line \in Feed!Line
    PROVE  /\ Feed!Bytes(line) \in Nat /\ Feed!Ink(line) \in Nat
           /\ Feed!Ink(line) = TotalOf([j \in 1..Len(line.chars) |-> line.chars[j].ink])
           /\ [j \in 1..Len(line.chars) |-> line.chars[j].ink] \in Seq(Nat)
<1> DEFINE n == Len(line.chars)
           sizes == [j \in 1..n |-> line.chars[j].bytes]
           inks == [j \in 1..n |-> line.chars[j].ink]
<1>1. line.chars \in Seq(Feed!Char)
  BY DEF Feed!Line
<1>2. n \in Nat /\ DOMAIN line.chars = 1..n /\ \A j \in 1..n : line.chars[j] \in Feed!Char
  BY <1>1
<1>3. sizes \in [1..n -> Nat] /\ inks \in [1..n -> Nat]
  BY <1>2 DEF Feed!Char
<1>4. Feed!Bytes(line) = TotalOf(sizes) /\ Feed!Ink(line) = TotalOf(inks)
  BY <1>2, FeedTotals DEF Feed!Bytes, Feed!Ink
<1>5. sizes \in Seq(Nat) /\ inks \in Seq(Nat)
  <2> DEFINE N == Nat
  <2>1. sizes \in [1..n -> N] /\ inks \in [1..n -> N]
    BY <1>3
  <2> HIDE DEF sizes, inks, n, N
  <2>2. sizes \in Seq(N) /\ inks \in Seq(N)
    BY <1>2, <2>1, IsASeq
  <2> QED
    BY <2>2 DEF N
<1> QED
  BY <1>4, <1>5, TotalType

\* What the parts of a line may be.
PartsOf(number) ==
    {ps \in Seq(Slice) : \A j \in 1..Len(ps) : ps[j].line = number /\ ps[j].bytes <= MaxBytes}

\* One character more.
LEMMA PutIs ==
    ASSUME NEW number \in Nat, NEW ps \in PartsOf(number), NEW x \in Feed!Char
    PROVE  /\ Feed!Put(ps, x, number) \in PartsOf(number)
           /\ Weigh(LineOf(number), Feed!Put(ps, x, number)) = Weigh(LineOf(number), ps) + x.ink
<1> DEFINE n == Len(ps)
           W == LineOf(number)
           q == Feed!Put(ps, x, number)
<1>1. /\ ps \in Seq(Slice) /\ n \in Nat
      /\ \A j \in 1..n : ps[j] \in Slice /\ ps[j].line = number /\ ps[j].bytes <= MaxBytes
  BY DEF PartsOf
<1>2. x.bytes \in Nat /\ x.ink \in Nat /\ x.bytes <= MaxBytes
  BY FeedAssumption DEF Feed!Char
<1>3. W \in [Slice -> Nat] /\ Weigh(W, ps) \in Nat
  BY <1>1, Weights, WeighType
<1>4. CASE n > 0 /\ ps[n].bytes + x.bytes <= MaxBytes
  <2> DEFINE y == [line |-> number, bytes |-> ps[n].bytes + x.bytes, ink |-> ps[n].ink + x.ink]
  <2>1. n \in 1..n /\ n \in Nat \ {0}
    BY <1>1, <1>4
  <2>2. /\ y \in Slice /\ y.line = number /\ y.bytes <= MaxBytes
        /\ y.ink = ps[n].ink + x.ink /\ ps[n].ink \in Nat
    <3>1. ps[n] \in Slice /\ ps[n].line = number
      BY <1>1, <2>1
    <3> QED
      BY <1>2, <1>4, <3>1 DEF Slice
  <2>3. q = [ps EXCEPT ![n] = y]
    BY <1>4 DEF Feed!Put
  <2> HIDE DEF y, q
  <2>4. /\ q \in Seq(Slice) /\ Len(q) = n /\ q[n] = y
        /\ \A j \in 1..n : j # n => q[j] = ps[j]
    BY <1>1, <2>1, <2>2, <2>3
  <2>5. q \in PartsOf(number)
    <3>1. \A j \in 1..n : q[j].line = number /\ q[j].bytes <= MaxBytes
      BY <1>1, <2>2, <2>4
    <3> QED
      BY <2>4, <3>1 DEF PartsOf
  <2>6. W[ps[n]] = ps[n].ink /\ W[q[n]] = y.ink
    BY <1>1, <2>1, <2>2, <2>4 DEF LineOf
  <2>7. Weigh(W, q) \in Nat
    BY <1>3, <2>4, WeighType
  <2> HIDE DEF W
  <2>8. Weigh(W, q) + W[ps[n]] = Weigh(W, ps) + W[q[n]]
    <3> DEFINE front == [j \in 1..(n - 1) |-> ps[j]]
               last == <<ps[n]>>
               new == <<y>>
    <3>1. /\ front \in Seq(Slice) /\ Len(front) = n - 1
          /\ \A j \in 1..(n - 1) : front[j] = ps[j]
      BY <1>1, <2>1
    <3>2. ps[n] \in Slice /\ last \in Seq(Slice) /\ new \in Seq(Slice)
          /\ Len(last) = 1 /\ last[1] = ps[n] /\ Len(new) = 1 /\ new[1] = y
      BY <1>1, <2>1, <2>2
    <3> HIDE DEF front
    <3>8. n - (n - 1) = 1 /\ ~(n <= n - 1)
      BY <2>1
    <3>9. \A j \in 1..n : j # n => j <= n - 1 /\ j \in 1..(n - 1)
      BY <2>1
    <3> HIDE DEF n
    <3>3. ps = front \o last
      <4> HIDE DEF last
      <4>1. /\ front \o last \in Seq(Slice) /\ Len(front \o last) = n
            /\ \A j \in 1..n : (front \o last)[j] = IF j <= n - 1 THEN front[j] ELSE last[j - (n - 1)]
        <5>1. front \in Seq(Slice) /\ last \in Seq(Slice) /\ Len(front) = n - 1 /\ Len(last) = 1
          BY <3>1, <3>2
        <5>2. /\ front \o last \in Seq(Slice) /\ Len(front \o last) = Len(front) + Len(last)
              /\ \A j \in 1..(Len(front) + Len(last)) :
                    (front \o last)[j] = IF j <= Len(front) THEN front[j] ELSE last[j - Len(front)]
          BY <5>1, ConcatProperties
        <5>3. Len(front) + Len(last) = n
          BY <2>1, <5>1
        <5> QED
          BY <5>1, <5>2, <5>3
      <4>2. ASSUME NEW j \in 1..n PROVE ps[j] = (front \o last)[j]
        <5>1. CASE j = n
          BY <3>2, <3>8, <4>1, <5>1
        <5>2. CASE j # n
          BY <3>1, <3>9, <4>1, <5>2
        <5> QED
          BY <5>1, <5>2
      <4> QED
        BY <1>1, <4>1, <4>2, SeqEqual DEF n
    <3>4. q = front \o new
      <4> HIDE DEF new
      <4>1. /\ front \o new \in Seq(Slice) /\ Len(front \o new) = n
            /\ \A j \in 1..n : (front \o new)[j] = IF j <= n - 1 THEN front[j] ELSE new[j - (n - 1)]
        <5>1. front \in Seq(Slice) /\ new \in Seq(Slice) /\ Len(front) = n - 1 /\ Len(new) = 1
          BY <3>1, <3>2
        <5>2. /\ front \o new \in Seq(Slice) /\ Len(front \o new) = Len(front) + Len(new)
              /\ \A j \in 1..(Len(front) + Len(new)) :
                    (front \o new)[j] = IF j <= Len(front) THEN front[j] ELSE new[j - Len(front)]
          BY <5>1, ConcatProperties
        <5>3. Len(front) + Len(new) = n
          BY <2>1, <5>1
        <5> QED
          BY <5>1, <5>2, <5>3
      <4>2. ASSUME NEW j \in 1..n PROVE q[j] = (front \o new)[j]
        <5>1. CASE j = n
          BY <2>4, <3>2, <3>8, <4>1, <5>1
        <5>2. CASE j # n
          BY <2>4, <3>1, <3>9, <4>1, <5>2
        <5> QED
          BY <5>1, <5>2
      <4> QED
        BY <1>1, <2>4, <4>1, <4>2, SeqEqual DEF n
    <3>5. Weigh(W, last) = W[ps[n]] /\ Weigh(W, new) = W[y]
      BY <1>3, <2>2, <3>2, WeighOne
    <3> HIDE DEF last, new
    <3>6. /\ Weigh(W, ps) = Weigh(W, front) + Weigh(W, last)
          /\ Weigh(W, q) = Weigh(W, front) + Weigh(W, new)
          /\ Weigh(W, front) \in Nat
      BY <1>3, <3>1, <3>2, <3>3, <3>4, WeighConcat, WeighType
    <3>7. W[ps[n]] \in Nat /\ W[q[n]] \in Nat /\ q[n] = y
      BY <1>3, <2>2, <2>4, <3>2
    <3> QED
      BY <3>5, <3>6, <3>7
  <2>9. Weigh(W, q) = Weigh(W, ps) + x.ink
    <3>1. Weigh(W, q) + ps[n].ink = Weigh(W, ps) + (ps[n].ink + x.ink)
      BY <2>2, <2>6, <2>8
    <3> DEFINE s == ps[n].ink
               v == Weigh(W, q)
               w == Weigh(W, ps)
               e == x.ink
    <3>2. s \in Nat /\ v \in Nat /\ w \in Nat /\ e \in Nat /\ v + s = w + (s + e)
      BY <1>2, <1>3, <2>2, <2>7, <3>1
    <3> HIDE DEF s, v, w, e
    <3>3. v = w + e
      BY <3>2
    <3> QED
      BY <3>3 DEF v, w, e
  <2> QED
    BY <2>5, <2>9 DEF q, W
<1>5. CASE ~(n > 0 /\ ps[n].bytes + x.bytes <= MaxBytes)
  <2> DEFINE y == [line |-> number, bytes |-> x.bytes, ink |-> x.ink]
             o == <<y>>
  <2>1. y \in Slice /\ y.line = number /\ y.bytes = x.bytes /\ y.ink = x.ink
    BY <1>2 DEF Slice
  <2>2. q = Append(ps, y)
    BY <1>5, Zenon DEF Feed!Put
  <2> HIDE DEF y, q
  <2>3. q = ps \o o /\ o \in Seq(Slice)
    BY <1>1, <2>1, <2>2, AppendIsConcat
  <2>4. /\ q \in Seq(Slice) /\ Len(q) = n + 1 /\ q[n + 1] = y
        /\ \A j \in 1..n : q[j] = ps[j]
    BY <1>1, <2>1, <2>2, AppendProperties
  <2>5. q \in PartsOf(number)
    <3>1. \A j \in 1..Len(q) : q[j].line = number /\ q[j].bytes <= MaxBytes
      <4> TAKE j \in 1..Len(q)
      <4>1. j \in 1..n \/ j = n + 1
        BY <1>1, <2>4
      <4> QED
        BY <1>1, <1>2, <2>1, <2>4, <4>1
    <3> QED
      BY <2>4, <3>1 DEF PartsOf
  <2>6. W[y] = x.ink
    BY <2>1 DEF LineOf
  <2> HIDE DEF W
  <2>7. Weigh(W, q) = Weigh(W, ps) + Weigh(W, o)
    <3> HIDE DEF o
    <3> QED
      BY <1>1, <1>3, <2>3, WeighConcat
  <2>8. Weigh(W, o) = W[y]
    BY <1>3, <2>1, WeighOne
  <2> QED
    BY <2>5, <2>6, <2>7, <2>8 DEF q, W
<1> QED
  BY <1>4, <1>5

\* A line is cut character by character.
LEMMA CutRuns ==
    ASSUME NEW line \in Feed!Line, NEW number \in Nat
    PROVE  \E f : /\ f[0] = <<>>
                  /\ \A i \in 1..Len(line.chars) : f[i] = Feed!Put(f[i - 1], line.chars[i], number)
                  /\ Feed!Cut(line, number) = f[Len(line.chars)]
<1> DEFINE n == Len(line.chars)
           S == PartsOf(number)
           g == [i \in 1..n |-> [x \in S |-> Feed!Put(x, line.chars[i], number)]]
           f == CHOOSE f : f = [i \in 0..Len(line.chars) |->
                    IF i = 0 THEN <<>> ELSE Feed!Put(f[i - 1], line.chars[i], number)]
<1>1. n \in Nat /\ \A i \in 1..n : line.chars[i] \in Feed!Char
  <2>1. line.chars \in Seq(Feed!Char)
    BY DEF Feed!Line
  <2> QED
    BY <2>1
<1>2. \A i \in 1..n : \A x \in S : Feed!Put(x, line.chars[i], number) \in S
  BY <1>1, PutIs
<1>3. g \in [1..n -> [S -> S]]
  BY <1>2
<1>4. <<>> \in S
  <2> DEFINE e == <<>>
  <2>1. e \in Seq(Slice) /\ Len(e) = 0
    OBVIOUS
  <2> HIDE DEF e
  <2>2. e \in S
    BY <2>1 DEF PartsOf
  <2> QED
    BY <2>2 DEF e
<1>5. \E h \in [0..n -> S] : h[0] = <<>> /\ \A i \in 1..n : h[i] = g[i][h[i - 1]]
  <2> DEFINE z == <<>>
  <2>1. n \in Nat /\ z \in S
    BY <1>1, <1>4
  <2> HIDE DEF n, g, f, z, S
  <2>2. \E h \in [0..n -> S] : h[0] = z /\ \A i \in 1..n : h[i] = g[i][h[i - 1]]
    BY <1>3, <2>1, Iterates
  <2> QED
    BY <2>2 DEF z
<1>6. PICK h \in [0..n -> S] : h[0] = <<>> /\ \A i \in 1..n : h[i] = g[i][h[i - 1]]
  BY <1>5
<1>7. \A i \in 1..n : h[i] = Feed!Put(h[i - 1], line.chars[i], number)
  <2> TAKE i \in 1..n
  <2>1. i - 1 \in 0..n
    BY <1>1
  <2>2. h[i - 1] \in S
    BY <1>6, <2>1
  <2>3. g[i][h[i - 1]] = Feed!Put(h[i - 1], line.chars[i], number)
    BY <2>2
  <2> QED
    BY <1>6, <2>3
<1>8. h = [i \in 0..n |-> IF i = 0 THEN <<>> ELSE Feed!Put(h[i - 1], line.chars[i], number)]
  <2>1. \A i \in 0..n : i # 0 => i \in 1..n
    BY <1>1
  <2> HIDE DEF n, g, S
  <2>2. \A i \in 0..n : h[i] = IF i = 0 THEN <<>> ELSE Feed!Put(h[i - 1], line.chars[i], number)
    BY <1>6, <1>7, <2>1
  <2> QED
    BY <1>6, <2>2
<1>9. f = [i \in 0..Len(line.chars) |->
              IF i = 0 THEN <<>> ELSE Feed!Put(f[i - 1], line.chars[i], number)]
  <2>1. \E k : k = [i \in 0..Len(line.chars) |->
                       IF i = 0 THEN <<>> ELSE Feed!Put(k[i - 1], line.chars[i], number)]
    BY <1>8
  <2> QED
    BY <2>1, Zenon
<1>10. Feed!Cut(line, number) = f[n]
  BY DEF Feed!Cut
<1> HIDE DEF f, g, S
<1>11. f[0] = <<>> /\ \A i \in 1..n : f[i] = Feed!Put(f[i - 1], line.chars[i], number)
  <2>1. \A i \in 0..n : f[i] = IF i = 0 THEN <<>> ELSE Feed!Put(f[i - 1], line.chars[i], number)
    BY <1>9
  <2>2. 0 \in 0..n /\ \A i \in 1..n : i \in 0..n /\ i # 0
    BY <1>1
  <2> QED
    BY <2>1, <2>2
<1> QED
  BY <1>10, <1>11

LEMMA CutIs ==
    ASSUME NEW line \in Feed!Line, NEW number \in Nat
    PROVE  LET more == Feed!Cut(line, number)
           IN  /\ more \in Seq(Slice)
               /\ \A j \in 1..Len(more) : more[j].line = number /\ more[j].bytes <= MaxBytes
               /\ \A l : Weigh(LineOf(l), more) = IF l = number THEN Feed!Ink(line) ELSE 0
<1> DEFINE more == Feed!Cut(line, number)
           n == Len(line.chars)
           v == [j \in 1..Len(line.chars) |-> line.chars[j].ink]
           W == LineOf(number)
<1>1. n \in Nat /\ \A i \in 1..n : line.chars[i] \in Feed!Char
  <2>1. line.chars \in Seq(Feed!Char)
    BY DEF Feed!Line
  <2> QED
    BY <2>1
<1>2. PICK f : /\ f[0] = <<>>
               /\ \A i \in 1..n : f[i] = Feed!Put(f[i - 1], line.chars[i], number)
               /\ more = f[n]
  BY CutRuns
<1> HIDE DEF more
<1> DEFINE T == {i \in 0..n : f[i] \in PartsOf(number)}
<1>3. 0 \in T
  <2> DEFINE e == <<>>
  <2>1. e \in Seq(Slice) /\ Len(e) = 0
    OBVIOUS
  <2>2. f[0] = e
    BY <1>2
  <2> HIDE DEF e
  <2>3. e \in PartsOf(number)
    BY <2>1 DEF PartsOf
  <2> QED
    BY <1>1, <2>2, <2>3
<1>4. ASSUME NEW i \in 1..n, i - 1 \in T PROVE i \in T
  <2>1. f[i - 1] \in PartsOf(number) /\ line.chars[i] \in Feed!Char /\ i \in 0..n
    BY <1>1, <1>4
  <2>2. Feed!Put(f[i - 1], line.chars[i], number) \in PartsOf(number)
    BY <2>1, PutIs
  <2> QED
    BY <1>2, <2>1, <2>2
<1>5. \A i \in 0..n : i \in T
  <2> HIDE DEF n, T
  <2> QED
    BY <1>1, <1>3, <1>4, Upwards
<1>6. more \in PartsOf(number)
  <2>1. n \in 0..n
    BY <1>1
  <2> QED
    BY <1>2, <1>5, <2>1
<1>7. v \in Seq(Nat) /\ Feed!Ink(line) = TotalOf(v) /\ Len(v) = n
  <2>1. v \in Seq(Nat) /\ Feed!Ink(line) = TotalOf(v)
    BY LineIs
  <2>2. DOMAIN v = 1..n
    OBVIOUS
  <2> HIDE DEF v, n
  <2> QED
    BY <1>1, <2>1, <2>2, LenProperties
<1> DEFINE w == [i \in 0..n |-> Weigh(W, f[i])]
<1>8. ASSUME NEW i \in 1..n PROVE w[i] = w[i - 1] + v[i]
  <2>1. i \in 0..n /\ i - 1 \in 0..n
    BY <1>1
  <2>2. f[i - 1] \in PartsOf(number) /\ line.chars[i] \in Feed!Char
    BY <1>1, <1>5, <2>1
  <2>3. Weigh(W, Feed!Put(f[i - 1], line.chars[i], number)) = Weigh(W, f[i - 1]) + line.chars[i].ink
    BY <2>2, PutIs
  <2>4. v[i] = line.chars[i].ink
    OBVIOUS
  <2> HIDE DEF W, v
  <2> QED
    BY <1>2, <2>1, <2>3, <2>4
<1>9. w[0] = 0 /\ w[n] = Weigh(W, more)
  <2>1. 0 \in 0..n /\ n \in 0..n
    BY <1>1
  <2>2. Weigh(W, <<>>) = 0
    BY WeighNone
  <2> HIDE DEF W
  <2> QED
    BY <1>2, <2>1, <2>2
<1>10. Weigh(W, more) = Feed!Ink(line)
  <2> HIDE DEF w, v, n, W
  <2>1. w[Len(v)] = w[0] + TotalOf(v)
    <3>1. w[0] \in Nat /\ \A i \in 1..Len(v) : w[i] = w[i - 1] + v[i]
      BY <1>7, <1>8, <1>9
    <3> QED
      BY <1>7, <3>1, RunningTotal
  <2>2. TotalOf(v) \in Nat
    BY <1>7, TotalType
  <2> QED
    BY <1>7, <1>9, <2>1, <2>2
<1>11. more \in Seq(Slice) /\ \A j \in 1..Len(more) : more[j].line = number /\ more[j].bytes <= MaxBytes
  BY <1>6 DEF PartsOf
<1>12. ASSUME NEW l, l # number PROVE Weigh(LineOf(l), more) = 0
  <2>1. \A j \in 1..Len(more) : LineOf(l)[more[j]] = 0
    <3> TAKE j \in 1..Len(more)
    <3>1. more[j] \in Slice /\ more[j].line # l
      BY <1>11, <1>12
    <3> QED
      BY <3>1 DEF LineOf
  <2> QED
    BY <1>11, <2>1, Weights, WeighZero
<1> QED
  BY <1>10, <1>11, <1>12 DEF more, W

\* A line that fits is one part.
Uncut(line, number) == [line |-> number, bytes |-> Feed!Bytes(line), ink |-> Feed!Ink(line)]

LEMMA UncutIs ==
    ASSUME NEW line \in Feed!Line, NEW number \in Nat
    PROVE  LET x == Uncut(line, number)
           IN  /\ x \in Slice /\ <<x>> \in Seq(Slice) /\ Len(<<x>>) = 1 /\ <<x>>[1] = x
               /\ x.line = number
               /\ Weigh(SizeOf, <<x>>) = Feed!Bytes(line)
               /\ \A l : Weigh(LineOf(l), <<x>>) = IF l = number THEN Feed!Ink(line) ELSE 0
<1> DEFINE x == Uncut(line, number)
<1>1. x \in Slice /\ x.line = number /\ x.bytes = Feed!Bytes(line) /\ x.ink = Feed!Ink(line)
  BY LineIs DEF Uncut, Slice
<1> HIDE DEF x
<1>2. <<x>> \in Seq(Slice) /\ Len(<<x>>) = 1 /\ <<x>>[1] = x
  BY <1>1
<1>3. Weigh(SizeOf, <<x>>) = x.bytes
  <2>1. SizeOf[x] = x.bytes
    BY <1>1 DEF SizeOf
  <2>2. SizeOf \in [Slice -> Nat]
    BY Weights
  <2>3. Weigh(SizeOf, <<x>>) = SizeOf[x]
    BY <1>1, <2>2, WeighOne
  <2> QED
    BY <2>1, <2>3
<1>4. ASSUME NEW l PROVE Weigh(LineOf(l), <<x>>) = IF l = number THEN x.ink ELSE 0
  <2> DEFINE W == LineOf(l)
  <2>1. W[x] = IF l = number THEN x.ink ELSE 0
    BY <1>1 DEF LineOf
  <2>2. W \in [Slice -> Nat]
    BY Weights
  <2> HIDE DEF W
  <2>3. Weigh(W, <<x>>) = W[x]
    BY <1>1, <2>2, WeighOne
  <2> QED
    BY <2>1, <2>3 DEF W
<1> QED
  BY <1>1, <1>2, <1>3, <1>4 DEF x

-----------------------------------------------------------------------------
(* The passages of a page are the page                                       *)

Cuts == [done : Seq(Seq(Slice)), parts : Seq(Slice)]

OfPage(i, x) == x \in Slice /\ x.line \in 1..i

\* What the chunker has when i lines of the page are in.
CutAt(page, i, c) ==
    /\ c \in Cuts /\ c.done \in Seq(Good) /\ c.parts \in Good
    /\ \A j \in 1..Len(c.parts) : OfPage(i, c.parts[j])
    /\ c.parts # <<>> => c.parts[Len(c.parts)].line = i
    /\ \A l \in 1..Len(page) : 
          Weigh(KeptOf(l), c.done) + Weigh(LineOf(l), c.parts)
             = IF l <= i THEN Feed!Ink(page[l]) ELSE 0

LEMMA GoodIs ==
    /\ \A ps \in Good : ps \in Seq(Slice)
    /\ <<>> \in Good
    /\ \A s \in Seq(Good) : s \in Seq(Seq(Slice))
<1>1. Good \subseteq Seq(Slice)
  BY DEF Good
<1>2. <<>> \in Good
  <2> DEFINE p == <<>>
  <2>1. p \in Seq(Slice) /\ Len(p) = 0
    OBVIOUS
  <2>2. Weigh(SizeOf, p) = 0
    BY WeighNone
  <2>3. 0 <= MaxBytes
    BY FeedAssumption
  <2> HIDE DEF p
  <2> QED
    BY <2>1, <2>2, <2>3 DEF Good, p
<1>3. Seq(Good) \subseteq Seq(Seq(Slice))
  <2> DEFINE S == Seq(Slice)
  <2>1. Good \subseteq S
    BY <1>1
  <2> HIDE DEF S
  <2>2. Seq(Good) \subseteq Seq(S)
    BY <2>1, SeqMonotonic
  <2> QED
    BY <2>2 DEF S
<1> QED
  BY <1>1, <1>2, <1>3

LEMMA FlushedIs ==
    ASSUME NEW S, NEW ps \in S
    PROVE  Feed!Flushed(ps) \in Seq(S)
<1>1. <<>> \in Seq(S) /\ <<ps>> \in Seq(S)
  OBVIOUS
<1> QED
  BY <1>1 DEF Feed!Flushed

\* A passage that is dropped has no text of any line.
LEMMA FlushedWeighs ==
    ASSUME NEW ps \in Seq(Slice), NEW l
    PROVE  Weigh(KeptOf(l), Feed!Flushed(ps)) = Weigh(LineOf(l), ps)
<1>1. DOMAIN ps = 1..Len(ps) /\ \A j \in 1..Len(ps) : ps[j] \in Slice
  OBVIOUS
<1>2. CASE \A j \in DOMAIN ps : ps[j].ink = 0
  <2>1. Weigh(KeptOf(l), Feed!Flushed(ps)) = 0
    BY <1>2, WeighNone DEF Feed!Flushed
  <2>2. \A j \in 1..Len(ps) : LineOf(l)[ps[j]] = 0
    BY <1>1, <1>2 DEF LineOf
  <2>3. Weigh(LineOf(l), ps) = 0
    BY <2>2, Weights, WeighZero
  <2> QED
    BY <2>1, <2>3
<1>3. CASE ~ \A j \in DOMAIN ps : ps[j].ink = 0
  <2>1. Feed!Flushed(ps) = <<ps>>
    BY <1>3, Zenon DEF Feed!Flushed
  <2>2. Weigh(KeptOf(l), <<ps>>) = KeptOf(l)[ps]
    <3> DEFINE S == Seq(Slice)
               W == KeptOf(l)
    <3>1. W \in [S -> Nat] /\ ps \in S
      BY Weights
    <3> HIDE DEF S, W
    <3>2. Weigh(W, <<ps>>) = W[ps]
      BY <3>1, WeighOne
    <3> QED
      BY <3>2 DEF W
  <2>3. KeptOf(l)[ps] = Weigh(LineOf(l), ps)
    BY DEF KeptOf
  <2> QED
    BY <2>1, <2>2, <2>3
<1> QED
  BY <1>2, <1>3

\* Weights of passages that were cut and of those that follow.
LEMMA KeptAdds ==
    ASSUME NEW s \in Seq(Seq(Slice)), NEW t \in Seq(Seq(Slice)), NEW l
    PROVE  /\ Weigh(KeptOf(l), s \o t) = Weigh(KeptOf(l), s) + Weigh(KeptOf(l), t)
           /\ Weigh(KeptOf(l), s) \in Nat /\ Weigh(KeptOf(l), t) \in Nat
<1> DEFINE S == Seq(Slice)
           W == KeptOf(l)
<1>1. W \in [S -> Nat] /\ s \in Seq(S) /\ t \in Seq(S)
  BY Weights
<1> HIDE DEF S, W
<1>2. Weigh(W, s \o t) = Weigh(W, s) + Weigh(W, t) /\ Weigh(W, s) \in Nat /\ Weigh(W, t) \in Nat
  BY <1>1, WeighConcat, WeighType
<1> QED
  BY <1>2 DEF W

LEMMA LinesAdd ==
    ASSUME NEW s \in Seq(Slice), NEW t \in Seq(Slice), NEW l
    PROVE  /\ Weigh(LineOf(l), s \o t) = Weigh(LineOf(l), s) + Weigh(LineOf(l), t)
           /\ Weigh(LineOf(l), s) \in Nat /\ Weigh(LineOf(l), t) \in Nat
           /\ Weigh(SizeOf, s \o t) = Weigh(SizeOf, s) + Weigh(SizeOf, t)
           /\ Weigh(SizeOf, s) \in Nat /\ Weigh(SizeOf, t) \in Nat
<1>1. LineOf(l) \in [Slice -> Nat] /\ SizeOf \in [Slice -> Nat]
  BY Weights
<1>2. /\ Weigh(LineOf(l), s \o t) = Weigh(LineOf(l), s) + Weigh(LineOf(l), t)
      /\ Weigh(LineOf(l), s) \in Nat /\ Weigh(LineOf(l), t) \in Nat
  BY <1>1, WeighConcat, WeighType
<1>3. /\ Weigh(SizeOf, s \o t) = Weigh(SizeOf, s) + Weigh(SizeOf, t)
      /\ Weigh(SizeOf, s) \in Nat /\ Weigh(SizeOf, t) \in Nat
  BY <1>1, WeighConcat, WeighType
<1> QED
  BY <1>2, <1>3

\* A passage goes, with what it has of each line.
LEMMA FlushStep ==
    ASSUME NEW page \in Seq(Feed!Line), NEW i \in Nat, NEW c, CutAt(page, i, c)
    PROVE  CutAt(page, i, [done |-> c.done \o Feed!Flushed(c.parts), parts |-> <<>>])
<1> DEFINE d == c.done \o Feed!Flushed(c.parts)
           r == [done |-> d, parts |-> <<>>]
<1>1. /\ c.done \in Seq(Good) /\ c.done \in Seq(Seq(Slice))
      /\ c.parts \in Good /\ c.parts \in Seq(Slice)
  BY GoodIs DEF CutAt
<1>2. Feed!Flushed(c.parts) \in Seq(Good) /\ Feed!Flushed(c.parts) \in Seq(Seq(Slice))
  <2>1. Feed!Flushed(c.parts) \in Seq(Good)
    BY <1>1, FlushedIs
  <2> QED
    BY <2>1, GoodIs
<1>3. d \in Seq(Good) /\ d \in Seq(Seq(Slice))
  <2>1. d \in Seq(Good)
    <3> DEFINE u == Feed!Flushed(c.parts)
    <3>1. u \in Seq(Good)
      BY <1>2
    <3> HIDE DEF u
    <3>2. c.done \o u \in Seq(Good)
      BY <1>1, <3>1, ConcatProperties
    <3> QED
      BY <3>2 DEF u
  <2> QED
    BY <2>1, GoodIs
<1>4. <<>> \in Good /\ <<>> \in Seq(Slice)
  BY GoodIs
<1>5. ASSUME NEW l \in 1..Len(page)
      PROVE  Weigh(KeptOf(l), d) + Weigh(LineOf(l), <<>>) = IF l <= i THEN Feed!Ink(page[l]) ELSE 0
  <2>1. Weigh(KeptOf(l), d) = Weigh(KeptOf(l), c.done) + Weigh(KeptOf(l), Feed!Flushed(c.parts))
        /\ Weigh(KeptOf(l), d) \in Nat
    BY <1>1, <1>2, <1>3, KeptAdds
  <2>2. Weigh(KeptOf(l), Feed!Flushed(c.parts)) = Weigh(LineOf(l), c.parts)
    BY <1>1, FlushedWeighs
  <2>3. Weigh(LineOf(l), <<>>) = 0
    BY WeighNone
  <2>4. Weigh(KeptOf(l), c.done) + Weigh(LineOf(l), c.parts) = IF l <= i THEN Feed!Ink(page[l]) ELSE 0
    BY <1>5 DEF CutAt
  <2> HIDE DEF d
  <2>5. Weigh(KeptOf(l), d) + Weigh(LineOf(l), <<>>) = Weigh(KeptOf(l), d)
    BY <2>1, <2>3
  <2> QED
    BY <2>1, <2>2, <2>4, <2>5
<1> HIDE DEF d
<1> DEFINE e == <<>>
<1>6. e \in Good /\ e \in Seq(Slice) /\ Len(e) = 0 /\ e = <<>>
  BY <1>4
<1> HIDE DEF e
<1> DEFINE q == [done |-> d, parts |-> e]
<1>7. q \in Cuts /\ q.done = d /\ q.parts = e
  BY <1>3, <1>6 DEF Cuts
<1> HIDE DEF q
<1>8. CutAt(page, i, q)
  <2>1. \A j \in 1..Len(q.parts) : OfPage(i, q.parts[j])
    BY <1>6, <1>7
  <2>2. q.parts # <<>> => q.parts[Len(q.parts)].line = i
    BY <1>6, <1>7
  <2>3. \A l \in 1..Len(page) : 
          Weigh(KeptOf(l), q.done) + Weigh(LineOf(l), q.parts) = IF l <= i THEN Feed!Ink(page[l]) ELSE 0
    BY <1>5, <1>6, <1>7
  <2> QED
    BY <1>3, <1>6, <1>7, <2>1, <2>2, <2>3 DEF CutAt
<1> QED
  BY <1>6, <1>8 DEF d, e, q

\* A line that fits is added to the parts.
LEMMA AddShort ==
    ASSUME NEW page \in Seq(Feed!Line), NEW i \in 1..Len(page), NEW c, CutAt(page, i - 1, c),
           Feed!Bytes(page[i]) <= MaxBytes, Weigh(SizeOf, c.parts) + Feed!Bytes(page[i]) <= MaxBytes
    PROVE  CutAt(page, i, [done |-> c.done, parts |-> Append(c.parts, Uncut(page[i], i))])
<1> DEFINE more == <<Uncut(page[i], i)>>
           ps == c.parts
           u == ps \o more
           r == [done |-> c.done, parts |-> u]
<1>0. page[i] \in Feed!Line /\ i \in Nat /\ i >= 1 /\ Len(page) \in Nat
  OBVIOUS
<1>1. /\ c.done \in Seq(Good) /\ c.done \in Seq(Seq(Slice))
      /\ ps \in Good /\ ps \in Seq(Slice) /\ Len(ps) \in Nat
  BY GoodIs DEF CutAt
<1>2. /\ more \in Seq(Slice) /\ Len(more) = 1 /\ more[1].line = i
      /\ Weigh(SizeOf, more) = Feed!Bytes(page[i])
      /\ \A l : Weigh(LineOf(l), more) = IF l = i THEN Feed!Ink(page[i]) ELSE 0
      /\ Append(ps, Uncut(page[i], i)) = ps \o more
  <2>1. /\ Uncut(page[i], i) \in Slice /\ more \in Seq(Slice) /\ Len(more) = 1 /\ more[1].line = i
        /\ Weigh(SizeOf, more) = Feed!Bytes(page[i])
        /\ \A l : Weigh(LineOf(l), more) = IF l = i THEN Feed!Ink(page[i]) ELSE 0
    BY <1>0, UncutIs
  <2> DEFINE o == Uncut(page[i], i)
  <2> HIDE DEF o
  <2>2. Append(ps, o) = ps \o <<o>>
    BY <1>1, <2>1, AppendIsConcat DEF o
  <2> QED
    BY <2>1, <2>2 DEF o
<1> HIDE DEF more
<1> HIDE DEF ps
<1>3. /\ u \in Seq(Slice) /\ Len(u) = Len(ps) + 1
      /\ \A j \in 1..Len(ps) : u[j] = ps[j]
      /\ u[Len(ps) + 1] = more[1]
  <2> DEFINE n == Len(ps)
  <2>1. /\ ps \o more \in Seq(Slice) /\ Len(ps \o more) = Len(ps) + Len(more)
        /\ \A j \in 1..Len(ps) + Len(more) :
              (ps \o more)[j] = IF j <= Len(ps) THEN ps[j] ELSE more[j - Len(ps)]
    <3>1. ps \in Seq(Slice) /\ more \in Seq(Slice)
      BY <1>1, <1>2
    <3> HIDE DEF u, n, r
    <3> QED
      BY <3>1, ConcatProperties
  <2>2. /\ u \in Seq(Slice) /\ Len(u) = n + 1
        /\ \A j \in 1..n + 1 : u[j] = IF j <= n THEN ps[j] ELSE more[j - n]
    BY <1>2, <2>1
  <2>3. n \in Nat
    BY <1>1
  <2> HIDE DEF u, n
  <2>4. \A j \in 1..n : u[j] = ps[j]
    BY <2>2, <2>3
  <2>5. u[n + 1] = more[1]
    <3>1. n + 1 \in 1..n + 1 /\ ~(n + 1 <= n) /\ (n + 1) - n = 1
      BY <2>3
    <3> QED
      BY <2>2, <3>1
  <2> QED
    BY <2>2, <2>4, <2>5 DEF n
<1>4. Weigh(SizeOf, u) <= MaxBytes
  <2>1. Weigh(SizeOf, u) = Weigh(SizeOf, ps) + Weigh(SizeOf, more)
    BY <1>1, <1>2, LinesAdd
  <2>2. Weigh(SizeOf, ps) + Feed!Bytes(page[i]) <= MaxBytes
    BY DEF ps
  <2> HIDE DEF u
  <2> QED
    BY <1>2, <2>1, <2>2
<1>5. /\ \A j \in 1..Len(ps) : OfPage(i - 1, ps[j])
      /\ ps # <<>> => ps[Len(ps)].line = i - 1
      /\ \A j \in 1..Len(ps) - 1 : ps[j + 1].line = ps[j].line + 1
  BY <1>1 DEF CutAt, Good, ps
<1> HIDE DEF u, ps
<1>6. \A j \in 1..Len(u) - 1 : u[j + 1].line = u[j].line + 1
  <2> TAKE j \in 1..Len(u) - 1
  <2>1. j \in 1..Len(ps) /\ u[j] = ps[j]
    BY <1>1, <1>3
  <2>2. CASE j = Len(ps)
    <3>1. ps # <<>>
      BY <1>1, <2>1
    <3>2. u[j].line = i - 1 /\ u[j + 1].line = i
      BY <1>2, <1>3, <1>5, <2>1, <2>2, <3>1
    <3> QED
      BY <1>0, <3>2
  <2>3. CASE j # Len(ps)
    <3>1. j \in 1..Len(ps) - 1 /\ j + 1 \in 1..Len(ps)
      BY <1>1, <2>1, <2>3
    <3>2. u[j + 1] = ps[j + 1]
      BY <1>3, <3>1
    <3> QED
      BY <1>5, <2>1, <3>1, <3>2
  <2> QED
    BY <2>2, <2>3
<1>7. u \in Good
  BY <1>3, <1>4, <1>6 DEF Good
<1>8. \A j \in 1..Len(u) : OfPage(i, u[j])
  <2> TAKE j \in 1..Len(u)
  <2>1. CASE j \in 1..Len(ps)
    <3>1. u[j] = ps[j] /\ OfPage(i - 1, ps[j])
      BY <1>3, <1>5, <2>1
    <3>2. u[j].line \in 1..i
      BY <1>0, <3>1 DEF OfPage
    <3> QED
      BY <3>1, <3>2 DEF OfPage
  <2>2. CASE j = Len(ps) + 1
    <3>1. u[j] = more[1] /\ more[1] \in Slice
      BY <1>2, <1>3, <2>2
    <3> QED
      BY <1>0, <1>2, <3>1 DEF OfPage
  <2> QED
    BY <1>1, <1>3, <2>1, <2>2
<1>9. u[Len(u)].line = i
  BY <1>2, <1>3
<1>10. ASSUME NEW l \in 1..Len(page)
       PROVE  Weigh(KeptOf(l), c.done) + Weigh(LineOf(l), u) = IF l <= i THEN Feed!Ink(page[l]) ELSE 0
  <2>1. Weigh(KeptOf(l), c.done) + Weigh(LineOf(l), ps) = IF l <= i - 1 THEN Feed!Ink(page[l]) ELSE 0
    BY <1>10 DEF CutAt, ps
  <2>2. Weigh(LineOf(l), u) = Weigh(LineOf(l), ps) + Weigh(LineOf(l), more)
        /\ Weigh(LineOf(l), ps) \in Nat /\ Weigh(LineOf(l), more) \in Nat
    BY <1>1, <1>2, LinesAdd DEF u
  <2>3. Weigh(LineOf(l), more) = IF l = i THEN Feed!Ink(page[i]) ELSE 0
    BY <1>2
  <2>4. Weigh(KeptOf(l), c.done) \in Nat
    BY <1>1, KeptAdds
  <2>5. Feed!Ink(page[l]) \in Nat
    <3>1. page[l] \in Feed!Line
      BY <1>10
    <3> QED
      BY <3>1, LineIs
  <2> DEFINE x == Weigh(KeptOf(l), c.done)
             y == Weigh(LineOf(l), ps)
             z == Weigh(LineOf(l), more)
             w == Feed!Ink(page[l])
  <2>6. /\ x + y = (IF l <= i - 1 THEN w ELSE 0) /\ z = (IF l = i THEN w ELSE 0)
        /\ x \in Nat /\ y \in Nat /\ z \in Nat /\ w \in Nat /\ Weigh(LineOf(l), u) = y + z
    BY <2>1, <2>2, <2>3, <2>4, <2>5
  <2> HIDE DEF x, y, z, w
  <2>7. x + (y + z) = IF l <= i THEN w ELSE 0
    BY <1>0, <2>6
  <2> QED
    BY <2>6, <2>7 DEF x, w
<1>11. r \in Cuts /\ r.done = c.done /\ r.parts = u
  BY <1>1, <1>3 DEF Cuts
<1> HIDE DEF r
<1>12. CutAt(page, i, r)
  <2>1. \A l \in 1..Len(page) : 
           Weigh(KeptOf(l), r.done) + Weigh(LineOf(l), r.parts) = IF l <= i THEN Feed!Ink(page[l]) ELSE 0
    BY <1>10, <1>11
  <2>2. /\ \A j \in 1..Len(r.parts) : OfPage(i, r.parts[j])
        /\ r.parts # <<>> => r.parts[Len(r.parts)].line = i
    BY <1>8, <1>9, <1>11
  <2> QED
    BY <1>1, <1>7, <1>11, <2>1, <2>2 DEF CutAt
<1> QED
  BY <1>2, <1>12 DEF r, u, ps

\* One part is a passage.
LEMMA OnePart ==
    ASSUME NEW x \in Slice, x.bytes <= MaxBytes
    PROVE  <<x>> \in Good /\ <<x>> \in Seq(Slice)
<1> DEFINE t == <<x>>
<1>1. t \in Seq(Slice) /\ Len(t) = 1
  OBVIOUS
<1>2. Weigh(SizeOf, t) = x.bytes
  <2> DEFINE W == SizeOf
             S == Slice
  <2>1. W \in [S -> Nat] /\ x \in S
    BY Weights
  <2>2. SizeOf[x] = x.bytes
    BY DEF SizeOf
  <2> HIDE DEF W, S
  <2>3. Weigh(W, <<x>>) = W[x]
    BY <2>1, WeighOne
  <2> QED
    BY <2>2, <2>3 DEF W
<1> HIDE DEF t
<1>3. \A j \in 1..Len(t) - 1 : t[j + 1].line = t[j].line + 1
  BY <1>1
<1>4. t \in Good /\ t \in Seq(Slice)
  BY <1>1, <1>2, <1>3 DEF Good
<1> QED
  BY <1>4 DEF t

\* The parts of a line that is longer than a passage leave one by one.
LEMMA PartsLeave ==
    ASSUME NEW more \in Seq(Slice), \A j \in 1..Len(more) : more[j].bytes <= MaxBytes
    PROVE  LET t == Feed!FlattenSeq([j \in DOMAIN more |-> Feed!Flushed(<<more[j]>>)])
           IN  /\ t \in Seq(Good) /\ t \in Seq(Seq(Slice))
               /\ \A l : Weigh(KeptOf(l), t) = Weigh(LineOf(l), more)
<1> DEFINE n == Len(more)
           q == [j \in DOMAIN more |-> Feed!Flushed(<<more[j]>>)]
           t == Feed!FlattenSeq(q)
<1>1. n \in Nat /\ DOMAIN more = 1..n /\ \A j \in 1..n : more[j] \in Slice
  OBVIOUS
<1>2. ASSUME NEW j \in 1..n
      PROVE  /\ q[j] \in Seq(Good)
             /\ \A l : Weigh(KeptOf(l), q[j]) = LineOf(l)[more[j]]
  <2> DEFINE x == more[j]
             o == <<x>>
  <2>1. x \in Slice /\ x.bytes <= MaxBytes
    BY <1>1
  <2>2. o \in Good /\ o \in Seq(Slice)
    BY <2>1, OnePart
  <2>3. q[j] = Feed!Flushed(o)
    BY <1>1
  <2>4. Len(o) = 1 /\ o[1] = x
    OBVIOUS
  <2> HIDE DEF x, q
  <2>6. ASSUME NEW l PROVE Weigh(LineOf(l), o) = LineOf(l)[x]
    <3> DEFINE W == LineOf(l)
               S == Slice
    <3>1. W \in [S -> Nat] /\ x \in S
      BY <2>1, Weights
    <3> HIDE DEF W, S
    <3>2. Weigh(W, <<x>>) = W[x]
      BY <3>1, WeighOne
    <3> QED
      BY <3>2 DEF W
  <2> HIDE DEF o
  <2>7. ASSUME NEW l PROVE Weigh(KeptOf(l), Feed!Flushed(o)) = Weigh(LineOf(l), o)
    BY <2>2, FlushedWeighs
  <2>8. Feed!Flushed(o) \in Seq(Good)
    BY <2>2, FlushedIs
  <2> QED
    BY <2>3, <2>6, <2>7, <2>8 DEF x
<1>3. q = [j \in 1..n |-> q[j]]
  BY <1>1
<1> HIDE DEF q, n
<1>4. q \in [1..n -> Seq(Good)]
  BY <1>2, <1>3
<1>5. q \in Seq(Seq(Good)) /\ Len(q) = n
  <2> DEFINE S == Seq(Good)
  <2>1. q \in [1..n -> S]
    BY <1>4
  <2> HIDE DEF S
  <2>2. q \in Seq(S)
    BY <1>1, <2>1, IsASeq
  <2>3. Len(q) = n
    BY <1>1, <2>1, <2>2, LenProperties
  <2> QED
    BY <2>2, <2>3 DEF S
<1>6. t = Joined(q, n) /\ t \in Seq(Good)
  <2> DEFINE S == Good
  <2>1. q \in Seq(Seq(S))
    BY <1>5
  <2> HIDE DEF S
  <2>2. Feed!FlattenSeq(q) = Joined(q, Len(q)) /\ Feed!FlattenSeq(q) \in Seq(S)
    BY <2>1, FlattenIs
  <2> QED
    BY <1>5, <2>2 DEF S
<1>7. t \in Seq(Seq(Slice))
  BY <1>6, GoodIs
<1>8. ASSUME NEW l PROVE Weigh(KeptOf(l), t) = Weigh(LineOf(l), more)
  <2> DEFINE S == Seq(Slice)
             W == KeptOf(l)
             L == LineOf(l)
             v == [j \in 1..Len(more) |-> L[more[j]]]
  <2>1. W \in [S -> Nat] /\ q \in [1..n -> Seq(S)]
    <3>1. \A j \in 1..n : q[j] \in Seq(Seq(Slice))
      BY <1>2, GoodIs
    <3>2. q \in [1..n -> Seq(Seq(Slice))]
      BY <1>3, <3>1
    <3> QED
      BY <3>2, Weights
  <2>2. v \in Seq(Nat) /\ Weigh(L, more) = TotalOf(v)
    <3>1. L \in [Slice -> Nat]
      BY Weights
    <3> HIDE DEF L
    <3> QED
      BY <3>1, WeighType DEF Weigh
  <2>3. Len(v) = n /\ \A j \in 1..n : v[j] = Weigh(W, q[j])
    <3>1. \A j \in 1..n : Weigh(W, q[j]) = L[more[j]]
      BY <1>2, <1>8
    <3> HIDE DEF W, L
    <3>2. v = [j \in 1..n |-> L[more[j]]]
      BY DEF n
    <3>3. Len(v) = n
      BY <1>1, <2>2, <3>2, LenProperties
    <3> QED
      BY <3>1, <3>2, <3>3
  <2>4. n \in Nat
    BY <1>1
  <2> HIDE DEF S, W, L, v
  <2>5. Weighed(S, W, n, q, v)
    BY <2>1, <2>2, <2>3, <2>4 DEF Weighed
  <2>6. Weigh(W, Joined(q, n)) = TotalOf(v)
    BY <2>5, WeighJoined
  <2> HIDE DEF t
  <2> QED
    BY <1>6, <2>2, <2>6 DEF W, L
<1> QED
  BY <1>6, <1>7, <1>8 DEF t, q

LEMMA AddLong ==
    ASSUME NEW page \in Seq(Feed!Line), NEW i \in 1..Len(page), NEW c, CutAt(page, i - 1, c),
           c.parts = <<>>, NEW more, more = Feed!Cut(page[i], i)
    PROVE  CutAt(page, i,
              [done |-> c.done \o Feed!FlattenSeq([j \in DOMAIN more |-> Feed!Flushed(<<more[j]>>)]),
               parts |-> <<>>])
<1> DEFINE t == Feed!FlattenSeq([j \in DOMAIN more |-> Feed!Flushed(<<more[j]>>)])
           d == c.done \o t
           e == <<>>
           r == [done |-> d, parts |-> e]
<1>0. page[i] \in Feed!Line /\ i \in Nat /\ i >= 1 /\ Len(page) \in Nat
  OBVIOUS
<1>1. c.done \in Seq(Good) /\ c.done \in Seq(Seq(Slice))
  BY GoodIs DEF CutAt
<1>2. /\ more \in Seq(Slice)
      /\ \A j \in 1..Len(more) : more[j].line = i /\ more[j].bytes <= MaxBytes
      /\ \A l : Weigh(LineOf(l), more) = IF l = i THEN Feed!Ink(page[i]) ELSE 0
  BY <1>0, CutIs
<1>4. /\ t \in Seq(Good) /\ t \in Seq(Seq(Slice))
      /\ \A l : Weigh(KeptOf(l), t) = Weigh(LineOf(l), more)
  BY <1>2, PartsLeave
<1> HIDE DEF t
<1>5. d \in Seq(Good) /\ d \in Seq(Seq(Slice))
  <2>1. d \in Seq(Good)
    BY <1>1, <1>4, ConcatProperties
  <2> QED
    BY <2>1, GoodIs
<1>6. e \in Good /\ e \in Seq(Slice) /\ Len(e) = 0
  BY GoodIs
<1>7. ASSUME NEW l \in 1..Len(page)
      PROVE  Weigh(KeptOf(l), d) + Weigh(LineOf(l), e) = IF l <= i THEN Feed!Ink(page[l]) ELSE 0
  <2> DEFINE x == Weigh(KeptOf(l), c.done)
             z == Weigh(KeptOf(l), t)
             w == Feed!Ink(page[l])
  <2>1. Weigh(KeptOf(l), d) = x + z /\ x \in Nat /\ z \in Nat
    BY <1>1, <1>4, KeptAdds
  <2>2. Weigh(LineOf(l), <<>>) = 0
    BY WeighNone
  <2>3. x + Weigh(LineOf(l), <<>>) = IF l <= i - 1 THEN w ELSE 0
    BY <1>7 DEF CutAt
  <2>4. z = IF l = i THEN w ELSE 0
    BY <1>2, <1>4, <1>7
  <2>5. w \in Nat
    <3>1. page[l] \in Feed!Line
      BY <1>7
    <3> QED
      BY <3>1, LineIs
  <2> HIDE DEF x, z, w, d
  <2>6. x + z = IF l <= i THEN w ELSE 0
    BY <1>0, <2>1, <2>2, <2>3, <2>4, <2>5
  <2>7. Weigh(KeptOf(l), d) + Weigh(LineOf(l), e) = x + z
    BY <2>1, <2>2
  <2> QED
    BY <2>6, <2>7 DEF w
<1> HIDE DEF d, e
<1>8. r \in Cuts /\ r.done = d /\ r.parts = e
  BY <1>5, <1>6 DEF Cuts
<1> HIDE DEF r
<1>9. CutAt(page, i, r)
  <2>1. \A l \in 1..Len(page) : 
           Weigh(KeptOf(l), r.done) + Weigh(LineOf(l), r.parts) = IF l <= i THEN Feed!Ink(page[l]) ELSE 0
    BY <1>7, <1>8
  <2>2. \A j \in 1..Len(r.parts) : OfPage(i, r.parts[j])
    BY <1>6, <1>8
  <2>3. r.parts = <<>>
    BY <1>8 DEF e
  <2> QED
    BY <1>5, <1>6, <1>8, <2>1, <2>2, <2>3 DEF CutAt
<1> QED
  BY <1>9 DEF r, d, e, t

\* One line more.
LEMMA AddStep ==
    ASSUME NEW page \in Seq(Feed!Line), NEW i \in 1..Len(page), NEW c, CutAt(page, i - 1, c)
    PROVE  CutAt(page, i, Feed!Add(c, page[i], i))
<1> DEFINE b0 == Feed!Bytes(page[i])
           full == Feed!Size(c.parts) + b0 > MaxBytes
           c1 == [done |-> c.done \o Feed!Flushed(c.parts), parts |-> <<>>]
           more == Feed!Cut(page[i], i)
           t == Feed!FlattenSeq([j \in DOMAIN more |-> Feed!Flushed(<<more[j]>>)])
<1>0. page[i] \in Feed!Line
  OBVIOUS
<1>1. b0 \in Nat /\ i - 1 \in Nat
  <2>1. b0 \in Nat
    <3> HIDE DEF full, c1, more, t
    <3> QED
      BY <1>0, LineIs
  <2>2. Len(page) \in Nat
    OBVIOUS
  <2>3. i - 1 \in Nat
    BY <2>2
  <2> QED
    BY <2>1, <2>3
<1>2. c.parts \in Seq(Slice) /\ c.parts \in Good
  BY GoodIs DEF CutAt
<1>3. Feed!Size(c.parts) = Weigh(SizeOf, c.parts) /\ Weigh(SizeOf, c.parts) \in Nat /\ MaxBytes \in Nat
  BY <1>2, SizeIs, FeedAssumption
<1>4. CutAt(page, i - 1, c1)
  BY <1>1, FlushStep
<1>5. c1.done = c.done \o Feed!Flushed(c.parts) /\ c1.parts = <<>>
  OBVIOUS
<1>6. CASE b0 <= MaxBytes /\ ~full
  <2>1. Feed!Add(c, page[i], i) = [done |-> c.done, parts |-> Append(c.parts, Uncut(page[i], i))]
    BY <1>6 DEF Feed!Add, Uncut
  <2>2. Weigh(SizeOf, c.parts) + b0 <= MaxBytes
    BY <1>1, <1>3, <1>6
  <2> QED
    BY <1>6, <2>1, <2>2, AddShort
<1>7. CASE b0 <= MaxBytes /\ full
  <2>1. Feed!Add(c, page[i], i) = [done |-> c1.done, parts |-> Append(c1.parts, Uncut(page[i], i))]
    BY <1>5, <1>7 DEF Feed!Add, Uncut
  <2>2. Weigh(SizeOf, c1.parts) + b0 <= MaxBytes
    BY <1>1, <1>5, <1>7, WeighNone
  <2> HIDE DEF c1
  <2> QED
    BY <1>4, <1>7, <2>1, <2>2, AddShort
<1>8. CASE ~(b0 <= MaxBytes)
  <2>1. full
    BY <1>1, <1>3, <1>8
  <2>2. Feed!Add(c, page[i], i) = [done |-> c1.done \o t, parts |-> <<>>]
    BY <1>5, <1>8, <2>1 DEF Feed!Add, Uncut
  <2> HIDE DEF c1, more
  <2>3. CutAt(page, i, [done |-> c1.done \o t, parts |-> <<>>])
    BY <1>4, <1>5, AddLong DEF more
  <2> QED
    BY <2>2, <2>3
<1> QED
  BY <1>6, <1>7, <1>8

LEMMA LongLine ==
    ASSUME NEW page \in Seq(Feed!Line), NEW i \in 1..Len(page), NEW more, more = Feed!Cut(page[i], i)
    PROVE  more \in Seq(Slice)
           /\ Feed!FlattenSeq([j \in DOMAIN more |-> Feed!Flushed(<<more[j]>>)]) \in Seq(Seq(Slice))
<1>0. page[i] \in Feed!Line /\ i \in Nat
  OBVIOUS
<1>2. /\ more \in Seq(Slice)
      /\ \A j \in 1..Len(more) : more[j].line = i /\ more[j].bytes <= MaxBytes
  BY <1>0, CutIs
<1> QED
  BY <1>2, PartsLeave

LEMMA AddType ==
    ASSUME NEW page \in Seq(Feed!Line), NEW i \in 1..Len(page), NEW c \in Cuts
    PROVE  Feed!Add(c, page[i], i) \in Cuts
<1> DEFINE full == Feed!Size(c.parts) + Feed!Bytes(page[i]) > MaxBytes
           F == Feed!Flushed(c.parts)
           more == Feed!Cut(page[i], i)
           t == Feed!FlattenSeq([j \in DOMAIN more |-> Feed!Flushed(<<more[j]>>)])
           done == IF full THEN c.done \o F ELSE c.done
           parts == IF full THEN <<>> ELSE c.parts
           o == Uncut(page[i], i)
<1>1. c.done \in Seq(Seq(Slice)) /\ c.parts \in Seq(Slice)
  BY DEF Cuts
<1>2. o \in Slice /\ t \in Seq(Seq(Slice))
  <2>1. page[i] \in Feed!Line /\ i \in Nat
    OBVIOUS
  <2>2. o \in Slice
    BY <2>1, UncutIs
  <2> QED
    BY <2>2, LongLine
<1>3. Feed!Add(c, page[i], i) = IF Feed!Bytes(page[i]) <= MaxBytes
                                THEN [done |-> done, parts |-> Append(parts, o)]
                                ELSE [done |-> done \o t, parts |-> <<>>]
  BY DEF Feed!Add, Uncut
<1>4. <<>> \in Seq(Slice) /\ F \in Seq(Seq(Slice))
  <2> DEFINE S == Seq(Slice)
  <2>1. c.parts \in S
    BY <1>1
  <2> HIDE DEF S, F
  <2>2. F \in Seq(S)
    BY <2>1, FlushedIs DEF F
  <2> QED
    BY <2>2 DEF S
<1> HIDE DEF full, more, t, F, o
<1>5. done \in Seq(Seq(Slice)) /\ parts \in Seq(Slice)
  <2> DEFINE S == Seq(Slice)
  <2>1. c.done \in Seq(S) /\ F \in Seq(S)
    BY <1>1, <1>4
  <2> HIDE DEF S
  <2>2. c.done \o F \in Seq(S)
    BY <2>1, ConcatProperties
  <2>3. done \in Seq(S)
    BY <2>1, <2>2
  <2>4. parts \in Seq(Slice)
    BY <1>1, <1>4
  <2> QED
    BY <2>3, <2>4 DEF S
<1> HIDE DEF done, parts
<1>6. Append(parts, o) \in Seq(Slice)
  BY <1>2, <1>5, AppendProperties
<1>7. done \o t \in Seq(Seq(Slice))
  <2> DEFINE S == Seq(Slice)
  <2>1. done \in Seq(S) /\ t \in Seq(S)
    BY <1>2, <1>5
  <2> HIDE DEF S
  <2>2. done \o t \in Seq(S)
    BY <2>1, ConcatProperties
  <2> QED
    BY <2>2 DEF S
<1> QED
  BY <1>3, <1>4, <1>5, <1>6, <1>7 DEF Cuts

NothingCut == [done |-> <<>>, parts |-> <<>>]

LEMMA NothingCutIs ==
    ASSUME NEW page \in Seq(Feed!Line)
    PROVE  NothingCut \in Cuts /\ CutAt(page, 0, NothingCut)
<1> DEFINE e == <<>>
<1>1. e \in Good /\ e \in Seq(Slice) /\ e \in Seq(Good) /\ e \in Seq(Seq(Slice)) /\ Len(e) = 0
  BY GoodIs
<1>2. \A l : Weigh(KeptOf(l), e) = 0 /\ Weigh(LineOf(l), e) = 0
  BY WeighNone
<1>3. NothingCut = [done |-> e, parts |-> e] /\ e = <<>>
  BY DEF NothingCut
<1> HIDE DEF e
<1>4. NothingCut \in Cuts /\ NothingCut.done = e /\ NothingCut.parts = e
  BY <1>1, <1>3 DEF Cuts
<1>5. \A l \in 1..Len(page) : 
          Weigh(KeptOf(l), e) + Weigh(LineOf(l), e) = IF l <= 0 THEN Feed!Ink(page[l]) ELSE 0
  BY <1>2
<1> QED
  BY <1>1, <1>3, <1>4, <1>5 DEF CutAt

\* The chunker, line by line.
LEMMA PageRuns ==
    ASSUME NEW page \in Seq(Feed!Line)
    PROVE  \E f : /\ f[0] = NothingCut
                  /\ \A i \in 1..Len(page) : f[i] = Feed!Add(f[i - 1], page[i], i)
                  /\ Feed!PageChunks(page) = f[Len(page)].done \o Feed!Flushed(f[Len(page)].parts)
<1> DEFINE n == Len(page)
           g == [i \in 1..n |-> [x \in Cuts |-> Feed!Add(x, page[i], i)]]
           f == CHOOSE f : f = [i \in 0..Len(page) |->
                    IF i = 0 THEN [done |-> <<>>, parts |-> <<>>]
                    ELSE Feed!Add(f[i - 1], page[i], i)]
<1>1. n \in Nat /\ \A i \in 1..n : page[i] \in Feed!Line /\ i \in Nat
  OBVIOUS
<1>2. \A i \in 1..n : \A x \in Cuts : Feed!Add(x, page[i], i) \in Cuts
  BY AddType
<1>3. g \in [1..n -> [Cuts -> Cuts]]
  BY <1>2
<1>4. NothingCut \in Cuts
  BY NothingCutIs
<1>5. \E h \in [0..n -> Cuts] : h[0] = NothingCut /\ \A i \in 1..n : h[i] = g[i][h[i - 1]]
  <2> DEFINE z == NothingCut
  <2>1. n \in Nat /\ z \in Cuts
    BY <1>1, <1>4
  <2> HIDE DEF n, g, f, z
  <2>2. \E h \in [0..n -> Cuts] : h[0] = z /\ \A i \in 1..n : h[i] = g[i][h[i - 1]]
    BY <1>3, <2>1, Iterates
  <2> QED
    BY <2>2 DEF z
<1>6. PICK h \in [0..n -> Cuts] : h[0] = NothingCut /\ \A i \in 1..n : h[i] = g[i][h[i - 1]]
  BY <1>5
<1>7. \A i \in 1..n : h[i] = Feed!Add(h[i - 1], page[i], i)
  <2> TAKE i \in 1..n
  <2>1. i - 1 \in 0..n
    BY <1>1
  <2>2. h[i - 1] \in Cuts
    BY <1>6, <2>1
  <2>3. g[i][h[i - 1]] = Feed!Add(h[i - 1], page[i], i)
    BY <2>2
  <2> QED
    BY <1>6, <2>3
<1>8. h = [i \in 0..n |-> IF i = 0 THEN [done |-> <<>>, parts |-> <<>>]
                         ELSE Feed!Add(h[i - 1], page[i], i)]
  <2>1. \A i \in 0..n : i # 0 => i \in 1..n
    BY <1>1
  <2> HIDE DEF n, g
  <2>2. \A i \in 0..n : h[i] = IF i = 0 THEN [done |-> <<>>, parts |-> <<>>]
                               ELSE Feed!Add(h[i - 1], page[i], i)
    BY <1>6, <1>7, <2>1 DEF NothingCut
  <2> QED
    BY <1>6, <2>2
<1>9. f = [i \in 0..Len(page) |-> IF i = 0 THEN [done |-> <<>>, parts |-> <<>>]
                                   ELSE Feed!Add(f[i - 1], page[i], i)]
  <2>1. \E k : k = [i \in 0..Len(page) |-> IF i = 0 THEN [done |-> <<>>, parts |-> <<>>]
                                            ELSE Feed!Add(k[i - 1], page[i], i)]
    BY <1>8
  <2> QED
    BY <2>1, Zenon
<1>10. Feed!PageChunks(page) = f[n].done \o Feed!Flushed(f[n].parts)
  BY DEF Feed!PageChunks
<1> HIDE DEF f, g
<1>11. f[0] = NothingCut /\ \A i \in 1..n : f[i] = Feed!Add(f[i - 1], page[i], i)
  <2>1. \A i \in 0..n : f[i] = IF i = 0 THEN [done |-> <<>>, parts |-> <<>>]
                               ELSE Feed!Add(f[i - 1], page[i], i)
    BY <1>9
  <2>2. 0 \in 0..n /\ \A i \in 1..n : i \in 0..n /\ i # 0
    BY <1>1
  <2> QED
    BY <2>1, <2>2 DEF NothingCut
<1> QED
  BY <1>10, <1>11

\* The passages of a page: each may be one, and every line with text is in them.
LEMMA PageIs ==
    ASSUME NEW page \in Seq(Feed!Line)
    PROVE  /\ Feed!PageChunks(page) \in Seq(Good)
           /\ Feed!PageChunks(page) \in Seq(Seq(Slice))
           /\ \A l \in 1..Len(page) : 
                 Weigh(KeptOf(l), Feed!PageChunks(page)) = Feed!Ink(page[l])
<1> DEFINE n == Len(page)
<1>1. n \in Nat
  OBVIOUS
<1>2. PICK f : /\ f[0] = NothingCut
               /\ \A i \in 1..n : f[i] = Feed!Add(f[i - 1], page[i], i)
               /\ Feed!PageChunks(page) = f[n].done \o Feed!Flushed(f[n].parts)
  BY PageRuns
<1> DEFINE T == {i \in 0..n : CutAt(page, i, f[i])}
<1>3. 0 \in T
  BY <1>1, <1>2, NothingCutIs
<1>4. ASSUME NEW i \in 1..n, i - 1 \in T PROVE i \in T
  <2>1. CutAt(page, i - 1, f[i - 1])
    BY <1>4
  <2>2. CutAt(page, i, Feed!Add(f[i - 1], page[i], i))
    BY <2>1, AddStep
  <2>3. i \in 0..n
    BY <1>1
  <2> QED
    BY <1>2, <2>2, <2>3
<1>5. \A i \in 0..n : i \in T
  <2> HIDE DEF n, T
  <2> QED
    BY <1>1, <1>3, <1>4, Upwards
<1>6. CutAt(page, n, f[n])
  <2>1. n \in 0..n
    BY <1>1
  <2> QED
    BY <1>5, <2>1
<1> DEFINE d == f[n].done \o Feed!Flushed(f[n].parts)
           r == [done |-> d, parts |-> <<>>]
<1>7. CutAt(page, n, r)
  BY <1>1, <1>6, FlushStep
<1>8. r.done = d /\ r.parts = <<>>
  OBVIOUS
<1> HIDE DEF r, d
<1>9. d \in Seq(Good) /\ d \in Seq(Seq(Slice))
  BY <1>7, <1>8, GoodIs DEF CutAt
<1>10. ASSUME NEW l \in 1..n PROVE Weigh(KeptOf(l), d) = Feed!Ink(page[l])
  <2>1. Weigh(KeptOf(l), d) + Weigh(LineOf(l), <<>>) = IF l <= n THEN Feed!Ink(page[l]) ELSE 0
    BY <1>7, <1>8, <1>10 DEF CutAt
  <2>2. Weigh(LineOf(l), <<>>) = 0
    BY WeighNone
  <2>3. Weigh(KeptOf(l), d) \in Nat
    BY <1>9, KeptAdds
  <2>4. l <= n
    BY <1>1
  <2> QED
    BY <2>1, <2>2, <2>3, <2>4
<1>11. Feed!PageChunks(page) = d
  BY <1>2 DEF d
<1> QED
  BY <1>9, <1>10, <1>11

\* The passages of page p, with its number.
Tag(p, s) == [i \in DOMAIN s |-> [page |-> p, parts |-> s[i]]]
Fit == {t \in Tagged : t.parts \in Good}

LEMMA TagIs ==
    ASSUME NEW p \in Nat, NEW s \in Seq(Good)
    PROVE  /\ Tag(p, s) \in Seq(Fit) /\ Tag(p, s) \in Seq(Tagged)
           /\ \A o, l : Weigh(InkAt(o, l), Tag(p, s)) = IF o = p THEN Weigh(KeptOf(l), s) ELSE 0
<1> DEFINE n == Len(s)
           t == Tag(p, s)
<1>1. n \in Nat /\ DOMAIN s = 1..n /\ \A i \in 1..n : s[i] \in Good /\ s[i] \in Seq(Slice)
  BY GoodIs
<1>2. t = [i \in 1..n |-> [page |-> p, parts |-> s[i]]]
  BY <1>1 DEF Tag
<1>3. s \in Seq(Seq(Slice))
  BY GoodIs
<1> HIDE DEF t, n
<1>4. \A i \in 1..n : t[i] \in Fit /\ t[i] \in Tagged /\ t[i].page = p /\ t[i].parts = s[i]
  BY <1>1, <1>2 DEF Fit, Tagged
<1>5. t \in Seq(Fit) /\ Len(t) = n
  <2>1. t \in [1..n -> Fit]
    BY <1>2, <1>4
  <2>2. n \in Nat
    BY <1>1
  <2>3. t \in Seq(Fit)
    BY <2>1, <2>2, IsASeq
  <2> QED
    BY <2>1, <2>2, <2>3, LenProperties
<1>6. t \in Seq(Tagged)
  <2>1. Fit \subseteq Tagged
    BY DEF Fit
  <2> QED
    BY <1>5, <2>1, SeqMonotonic
<1>7. ASSUME NEW o, NEW l PROVE Weigh(InkAt(o, l), t) = IF o = p THEN Weigh(KeptOf(l), s) ELSE 0
  <2>1. CASE o = p
    <3>1. \A i \in 1..n : InkAt(o, l)[t[i]] = Weigh(LineOf(l), s[i])
      BY <1>4, <2>1 DEF InkAt
    <3>2. \A i \in 1..n : KeptOf(l)[s[i]] = Weigh(LineOf(l), s[i])
      BY <1>1 DEF KeptOf
    <3>3. [i \in 1..Len(t) |-> InkAt(o, l)[t[i]]] = [i \in 1..Len(s) |-> KeptOf(l)[s[i]]]
      BY <1>5, <3>1, <3>2 DEF n
    <3> QED
      BY <2>1, <3>3 DEF Weigh
  <2>2. CASE o # p
    <3>1. \A i \in 1..Len(t) : InkAt(o, l)[t[i]] = 0
      BY <1>4, <1>5, <2>2 DEF InkAt
    <3> DEFINE W == InkAt(o, l)
    <3>2. W \in [Tagged -> Nat]
      BY Weights
    <3> HIDE DEF W
    <3>3. \A i \in 1..Len(t) : W[t[i]] = 0
      BY <3>1 DEF W
    <3>4. Weigh(W, t) = 0
      BY <1>6, <3>2, <3>3, WeighZero
    <3> QED
      BY <2>2, <3>4 DEF W
  <2> QED
    BY <2>1, <2>2
<1> QED
  BY <1>5, <1>6, <1>7 DEF t

\* What chunkSegments returns for any pages: every passage fits, its lines follow one
\* another, and the passages that cite a line have all of its text, wherever a line
\* was cut and whatever white space was dropped (src/src/chunking.ts).
THEOREM ChunksAre ==
    ASSUME NEW pages \in Seq(Seq(Feed!Line))
    PROVE  /\ Feed!Chunks(pages) \in Seq(Fit)
           /\ \A p \in 1..Len(pages) : \A l \in 1..Len(pages[p]) :
                    Feed!InkOf(Feed!Chunks(pages), p, l) = Feed!Ink(pages[p][l])
<1> DEFINE m == Len(pages)
           q == [p \in DOMAIN pages |-> Tag(p, Feed!PageChunks(pages[p]))]
           c == Feed!Chunks(pages)
<1>1. m \in Nat /\ DOMAIN pages = 1..m /\ \A p \in 1..m : pages[p] \in Seq(Feed!Line)
  OBVIOUS
<1>2. c = Feed!FlattenSeq(q)
  BY DEF Feed!Chunks, Tag
<1>3. q = [p \in 1..m |-> q[p]] /\ \A p \in 1..m : q[p] = Tag(p, Feed!PageChunks(pages[p]))
  BY <1>1
<1> HIDE DEF q, m, c
<1>4. ASSUME NEW p \in 1..m
      PROVE  /\ q[p] \in Seq(Fit) /\ q[p] \in Seq(Tagged)
             /\ \A o, l : Weigh(InkAt(o, l), q[p])
                             = IF o = p THEN Weigh(KeptOf(l), Feed!PageChunks(pages[p])) ELSE 0
  <2>1. p \in Nat /\ Feed!PageChunks(pages[p]) \in Seq(Good)
    BY <1>1, PageIs
  <2> QED
    BY <1>3, <2>1, TagIs
<1>5. q \in [1..m -> Seq(Fit)] /\ q \in [1..m -> Seq(Tagged)]
  BY <1>3, <1>4
<1>6. q \in Seq(Seq(Fit)) /\ Len(q) = m
  <2> DEFINE S == Seq(Fit)
  <2>1. q \in [1..m -> S] /\ m \in Nat
    BY <1>1, <1>5
  <2> HIDE DEF S
  <2>2. q \in Seq(S)
    BY <2>1, IsASeq
  <2>3. Len(q) = m
    BY <2>1, <2>2, LenProperties
  <2> QED
    BY <2>2, <2>3 DEF S
<1>7. c = Joined(q, m) /\ c \in Seq(Fit)
  BY <1>2, <1>6, FlattenIs
<1>8. c \in Seq(Tagged)
  <2>1. Fit \subseteq Tagged
    BY DEF Fit
  <2> QED
    BY <1>7, <2>1, SeqMonotonic
<1>9. ASSUME NEW p \in 1..m, NEW l \in 1..Len(pages[p])
      PROVE  Feed!InkOf(c, p, l) = Feed!Ink(pages[p][l])
  <2> DEFINE W == InkAt(p, l)
             v == [k \in 1..m |-> Weigh(W, q[k])]
             N == Nat
  <2>1. W \in [Tagged -> Nat] /\ m \in Nat
    BY <1>1, Weights
  <2>2. Feed!InkOf(c, p, l) = Weigh(W, c)
    BY <1>8, InkIs
  <2>3. \A k \in 1..m : k # p => Weigh(W, q[k]) = 0
    BY <1>4
  <2>4. Weigh(W, q[p]) = Feed!Ink(pages[p][l])
    <3>1. pages[p] \in Seq(Feed!Line)
      BY <1>1
    <3>2. Weigh(KeptOf(l), Feed!PageChunks(pages[p])) = Feed!Ink(pages[p][l])
      BY <1>9, <3>1, PageIs
    <3> QED
      BY <1>4, <3>2
  <2> HIDE DEF W
  <2>5. \A k \in 1..m : Weigh(W, q[k]) \in Nat
    BY <1>4, <2>1, WeighType
  <2>6. v \in Seq(Nat) /\ Len(v) = m /\ \A k \in 1..m : v[k] = Weigh(W, q[k])
    <3>1. v \in [1..m -> Nat]
      BY <2>5
    <3>2. \A k \in 1..m : v[k] = Weigh(W, q[k])
      OBVIOUS
    <3>3. m \in Nat
      BY <2>1
    <3>4. v \in [1..m -> N]
      BY <3>1
    <3> HIDE DEF v, N
    <3>5. v \in Seq(N)
      BY <3>3, <3>4, IsASeq
    <3>6. Len(v) = m
      BY <3>3, <3>4, <3>5, LenProperties
    <3> QED
      BY <3>2, <3>5, <3>6 DEF N
  <2> HIDE DEF v
  <2>7. Weighed(Tagged, W, m, q, v)
    BY <1>5, <2>1, <2>6 DEF Weighed
  <2>8. Weigh(W, Joined(q, m)) = TotalOf(v)
    BY <2>7, WeighJoined
  <2>9. TotalOf(v) = v[p]
    <3>1. p \in 1..Len(v) /\ \A k \in 1..Len(v) : k # p => v[k] = 0
      BY <2>3, <2>6
    <3> QED
      BY <2>6, <3>1, TotalOnly
  <2> QED
    BY <1>7, <2>2, <2>4, <2>6, <2>8, <2>9
<1> QED
  BY <1>7, <1>9 DEF c, m

LEMMA FitIs ==
    ASSUME NEW x \in Fit
    PROVE  /\ x.parts \in Seq(Slice) /\ Feed!Size(x.parts) <= MaxBytes
           /\ \A j \in 1..Len(x.parts) - 1 : x.parts[j + 1].line = x.parts[j].line + 1
<1>1. x.parts \in Good /\ x.parts \in Seq(Slice)
  BY GoodIs DEF Fit
<1>2. Feed!Size(x.parts) = Weigh(SizeOf, x.parts)
  BY <1>1, SizeIs
<1> QED
  BY <1>1, <1>2 DEF Good

-----------------------------------------------------------------------------
(* Ingestions: what each of them has                                         *)

Pages == Seq(Seq(Feed!Line))

\* A sequence of one section is the section.
LEMMA FlattenOne ==
    ASSUME NEW S, NEW x \in Seq(S)
    PROVE  Feed!FlattenSeq(<<x>>) = x
<1> DEFINE s == <<x>>
<1>1. s \in Seq(Seq(S)) /\ Len(s) = 1 /\ s[1] = x
  OBVIOUS
<1>2. Feed!FlattenSeq(s) = Joined(s, 1) /\ s \in [1..1 -> Seq(S)]
  <2> HIDE DEF s
  <2>1. Feed!FlattenSeq(s) = Joined(s, Len(s)) /\ s \in [1..Len(s) -> Seq(S)]
    BY <1>1, FlattenIs
  <2> QED
    BY <1>1, <2>1
<1> HIDE DEF s
<1>3. Joined(s, 1) = Joined(s, 0) \o s[1]
  <2> DEFINE n == 1
             i == 1
  <2>1. n \in Nat /\ i \in 1..n /\ s \in [1..n -> Seq(S)] /\ i - 1 = 0
    BY <1>2
  <2> HIDE DEF n, i
  <2>2. Joined(s, i) = Joined(s, i - 1) \o s[i]
    BY <2>1, JoinedNext
  <2>3. Joined(s, i) = Joined(s, 0) \o s[i]
    BY <2>1, <2>2
  <2> QED
    BY <2>3 DEF i
<1>4. Joined(s, 0) = <<>>
  BY JoinedNone
<1>5. <<>> \o x = x
  BY ConcatEmptySeq
<1> QED
  BY <1>1, <1>2, <1>3, <1>4, <1>5 DEF s

LEMMA DocumentsAre ==
    /\ \A d \in Documents : /\ d.pages \in Pages /\ d.type \in {"text", "markdown", "pdf"}
                            /\ d.type = "markdown" => Len(d.pages) = 1
    /\ Recognized \in Seq(Feed!Line)
<1> DEFINE L == Feed!Line
           S == Seq(L)
           Fine(d) == /\ d.pages \in Seq(S) /\ d.type \in {"text", "markdown", "pdf"}
                      /\ d.type = "markdown" => Len(d.pages) = 1
           under == Mark("underline")
           fence == Mark("fence")
           head == Mark("heading")
<1>1. /\ \A n \in 1..3 : Letter(n) \in Feed!Char
      /\ Space \in Feed!Char
  BY DEF Letter, Space, Feed!Char
<1>2. /\ Short \in L /\ Long \in L /\ Blank \in L
      /\ under \in L /\ fence \in L /\ head \in L
  <2> DEFINE C == Feed!Char
             one == Letter(1)
             two == Letter(2)
             three == Letter(3)
  <2>1. one \in C /\ two \in C /\ three \in C /\ Space \in C
    BY <1>1
  <2>2. ASSUME NEW chars \in Seq(C), NEW k \in {"text", "heading", "underline", "fence"}
        PROVE  [kind |-> k, chars |-> chars] \in L
    BY DEF Feed!Line
  <2>3. /\ Short = [kind |-> "text", chars |-> <<one, Space>>]
        /\ Long = [kind |-> "text",
                   chars |-> <<three, two, Space, Space, Space, Space, Space, Space, one>>]
        /\ Blank = [kind |-> "text", chars |-> <<Space>>]
        /\ under = [kind |-> "underline", chars |-> <<one>>]
        /\ fence = [kind |-> "fence", chars |-> <<one>>]
        /\ head = [kind |-> "heading", chars |-> <<one>>]
    BY DEF Short, Long, Blank, Mark, Text
  <2> HIDE DEF C, one, two, three, under, fence, head, L
  <2>4. /\ <<one, Space>> \in Seq(C) /\ <<Space>> \in Seq(C) /\ <<one>> \in Seq(C)
        /\ <<three, two, Space, Space, Space, Space, Space, Space, one>> \in Seq(C)
    BY <2>1
  <2> QED
    BY <2>2, <2>3, <2>4
<1>3. \A d \in Documents :
         \/ d = [type |-> "text", pages |-> <<<<Short, Long>>>>]
         \/ d = [type |-> "text", pages |-> <<<<Short, Long, Short>>>>]
         \/ d = [type |-> "text", pages |-> <<<<Blank>>>>]
         \/ d = [type |-> "markdown", pages |-> <<<<Short, under, fence, head, fence, head>>>>]
         \/ d = [type |-> "pdf", pages |-> <<<<Short>>, <<>>>>]
         \/ d = [type |-> "pdf", pages |-> <<<<Blank, Short>>, <<Short, Blank, Short>>>>]
  BY DEF Documents
<1>4. Recognized = <<Short>>
  BY DEF Recognized
<1> HIDE DEF under, fence, head, L
<1>5. /\ <<Short, Long>> \in S /\ <<Short, Long, Short>> \in S /\ <<Blank>> \in S
      /\ <<Short, under, fence, head, fence, head>> \in S
      /\ <<Short>> \in S /\ <<>> \in S /\ <<Blank, Short>> \in S
      /\ <<Short, Blank, Short>> \in S
  BY <1>2
<1> HIDE DEF S
<1>6. ASSUME NEW x \in S PROVE <<x>> \in Seq(S) /\ Len(<<x>>) = 1
  OBVIOUS
<1>7. ASSUME NEW x \in S, NEW y \in S PROVE <<x, y>> \in Seq(S)
  OBVIOUS
<1>8. ASSUME NEW ps \in Seq(S), NEW t \in {"text", "pdf"} PROVE Fine([type |-> t, pages |-> ps])
  OBVIOUS
<1>9. ASSUME NEW ps \in Seq(S), Len(ps) = 1 PROVE Fine([type |-> "markdown", pages |-> ps])
  BY <1>9
<1> HIDE DEF Fine
<1>10. /\ Fine([type |-> "text", pages |-> <<<<Short, Long>>>>])
       /\ Fine([type |-> "text", pages |-> <<<<Short, Long, Short>>>>])
       /\ Fine([type |-> "text", pages |-> <<<<Blank>>>>])
  BY <1>5, <1>6, <1>8
<1>11. Fine([type |-> "markdown", pages |-> <<<<Short, under, fence, head, fence, head>>>>])
  BY <1>5, <1>6, <1>9
<1>12. /\ Fine([type |-> "pdf", pages |-> <<<<Short>>, <<>>>>])
       /\ Fine([type |-> "pdf", pages |-> <<<<Blank, Short>>, <<Short, Blank, Short>>>>])
  BY <1>5, <1>7, <1>8
<1>13. \A d \in Documents : Fine(d)
  BY <1>3, <1>10, <1>11, <1>12
<1>14. Recognized \in S
  BY <1>4, <1>5
<1> QED
  BY <1>13, <1>14 DEF Fine, Pages, S, L

FeedPlaces == {"new", "extracting", "recognizing", "prepared", "indexing", "waiting",
               "embedding", "embedded", "failed", "requested", "ended"}
Queued == {"waiting", "embedding", "embedded", "failed"}
Indexed == {"indexing", "waiting", "embedding", "embedded", "requested"}

Entry == [at : FeedPlaces, document : Documents \cup {<<>>}, pages : Pages, passages : Seq(Fit)]

\* The pages are those of the document, the empty ones recognized or allowed.
Whole(x, allowed) ==
    /\ x.document \in Documents
    /\ (Feed!Empty(x.pages) # {} /\ x.document.type = "pdf") => allowed
    /\ Len(x.pages) >= Len(x.document.pages)
    /\ x.document.type # "pdf" => Feed!FlattenSeq(x.pages) = Feed!FlattenSeq(x.document.pages)

\* What an ingestion has at each place.
Holds(x, allowed) ==
    /\ x.at \in {"extracting", "recognizing"} => x.document \in Documents /\ x.document.type = "pdf"
    /\ x.at = "recognizing" => x.pages = x.document.pages
    /\ x.at = "prepared" => Whole(x, allowed)
    /\ x.at \in Indexed => Whole(x, allowed) /\ x.passages = Feed!Chunks(x.pages)

Placed(x, place) == [x EXCEPT !.at = place]

LEMMA FreshEntry ==
    /\ Feed!Fresh \in Entry /\ Feed!Ended \in Entry
    /\ Feed!Fresh.at = "new" /\ Feed!Ended.at = "ended"
    /\ \A allowed : Holds(Feed!Fresh, allowed) /\ Holds(Feed!Ended, allowed)
<1> DEFINE e == <<>>
           D == Documents \cup {e}
           P == Seq(Fit)
<1>1. e \in Pages /\ e \in P /\ e \in D
  BY DEF Pages
<1>2. /\ Feed!Fresh = [at |-> "new", document |-> e, pages |-> e, passages |-> e]
      /\ Feed!Ended = [at |-> "ended", document |-> e, pages |-> e, passages |-> e]
  BY DEF Feed!Fresh, Feed!Ended
<1>3. Entry = [at : FeedPlaces, document : D, pages : Pages, passages : P]
  BY DEF Entry
<1> HIDE DEF e, D, P
<1>4. Feed!Fresh \in Entry /\ Feed!Ended \in Entry
  BY <1>1, <1>2, <1>3 DEF FeedPlaces
<1>5. Feed!Fresh.at = "new" /\ Feed!Ended.at = "ended"
  BY <1>2
<1> QED
  BY <1>4, <1>5 DEF Holds, Indexed

LEMMA PlacedEntry ==
    ASSUME NEW x \in Entry, NEW place \in FeedPlaces
    PROVE  /\ Placed(x, place) \in Entry /\ Placed(x, place).at = place
           /\ Placed(x, place).document = x.document /\ Placed(x, place).pages = x.pages
           /\ Placed(x, place).passages = x.passages
<1> DEFINE D == Documents \cup {<<>>}
           P == Seq(Fit)
<1>1. Entry = [at : FeedPlaces, document : D, pages : Pages, passages : P]
  BY DEF Entry
<1> HIDE DEF D, P
<1> QED
  BY <1>1 DEF Placed

\* On the way to the index nothing changes.
LEMMA PlacedHolds ==
    ASSUME NEW x \in Entry, NEW allowed, Holds(x, allowed), NEW place \in FeedPlaces,
           place \in Indexed => x.at \in Indexed,
           place \in Indexed \/ place = "failed"
    PROVE  Holds(Placed(x, place), allowed)
<1> DEFINE y == Placed(x, place)
<1>1. /\ y.at = place /\ y.document = x.document /\ y.pages = x.pages /\ y.passages = x.passages
  BY PlacedEntry
<1> HIDE DEF y
<1>2. y.at \notin {"extracting", "recognizing", "prepared"}
  BY <1>1 DEF Indexed
<1>3. y.at \in Indexed => Whole(y, allowed) /\ y.passages = Feed!Chunks(y.pages)
  <2> SUFFICES ASSUME y.at \in Indexed PROVE Whole(y, allowed) /\ y.passages = Feed!Chunks(y.pages)
    OBVIOUS
  <2>1. Whole(x, allowed) /\ x.passages = Feed!Chunks(x.pages)
    BY <1>1 DEF Holds
  <2> QED
    BY <1>1, <2>1 DEF Whole
<1>4. Holds(y, allowed)
  BY <1>2, <1>3 DEF Holds
<1> QED
  BY <1>4 DEF y

-----------------------------------------------------------------------------
(* The queue of the embedding adapter                                        *)

\* t holds the n calls of S once each, and only the first of them may have a worker.
QueueFits(t, w, n, S) ==
    /\ t \in Seq(Ingestions) /\ n = Len(t) /\ n <= MaxPending
    /\ \A i, j \in 1..Len(t) : t[i] = t[j] => i = j
    /\ \A c \in Ingestions : c \in S <=> \E i \in 1..Len(t) : t[i] = c
    /\ \A c \in w : Len(t) >= 1 /\ t[1] = c

LEMMA QueueJoins ==
    ASSUME NEW t, NEW w, NEW n, NEW S, QueueFits(t, w, n, S),
           NEW c \in Ingestions, c \notin S, ~(n >= MaxPending)
    PROVE  QueueFits(Append(t, c), w, n + 1, S \cup {c})
<1> DEFINE u == Append(t, c)
           m == Len(t)
<1>1. t \in Seq(Ingestions) /\ n = m /\ m \in Nat /\ m < MaxPending /\ MaxPending \in Nat
  BY FeedAssumption DEF QueueFits
<1>2. u \in Seq(Ingestions) /\ Len(u) = m + 1 /\ u[m + 1] = c /\ \A i \in 1..m : u[i] = t[i]
  BY <1>1, AppendProperties
<1> HIDE DEF u
<1>3. \A i \in 1..m : t[i] # c
  BY DEF QueueFits
<1> HIDE DEF m
<1>4. \A i, j \in 1..m : t[i] = t[j] => i = j
  BY DEF QueueFits, m
<1>5. \A i, j \in 1..m + 1 : u[i] = u[j] => i = j
  <2> TAKE i, j \in 1..m + 1
  <2>1. (i \in 1..m \/ i = m + 1) /\ (j \in 1..m \/ j = m + 1)
    BY <1>1
  <2> QED
    BY <1>2, <1>3, <1>4, <2>1
<1>6. ASSUME NEW d \in Ingestions PROVE d \in S \cup {c} <=> \E i \in 1..m + 1 : u[i] = d
  <2>1. d \in S <=> \E i \in 1..m : t[i] = d
    BY DEF QueueFits, m
  <2>2. m + 1 \in 1..m + 1 /\ \A i \in 1..m : i \in 1..m + 1
    BY <1>1
  <2>3. \A i \in 1..m + 1 : i \in 1..m \/ i = m + 1
    BY <1>1
  <2> QED
    BY <1>2, <2>1, <2>2, <2>3
<1>7. \A d \in w : m + 1 >= 1 /\ u[1] = d
  <2> TAKE d \in w
  <2>1. m >= 1 /\ t[1] = d
    BY DEF QueueFits, m
  <2>2. 1 \in 1..m
    BY <1>1, <2>1
  <2> QED
    BY <1>1, <1>2, <2>1, <2>2
<1>8. n + 1 = m + 1 /\ n + 1 <= MaxPending
  BY <1>1
<1> QED
  BY <1>2, <1>5, <1>6, <1>7, <1>8 DEF QueueFits, u

\* The first of the calls gets its worker.
LEMMA QueueStarts ==
    ASSUME NEW t, NEW w, NEW n, NEW S, QueueFits(t, w, n, S),
           NEW c \in Ingestions, c \in S, Head(t) = c
    PROVE  QueueFits(t, w \cup {c}, n, S)
<1>1. PICK i \in 1..Len(t) : t[i] = c
  BY DEF QueueFits
<1>2. t \in Seq(Ingestions) /\ Len(t) \in Nat
  BY DEF QueueFits
<1>3. Len(t) >= 1
  BY <1>1, <1>2
<1>4. t[1] = c
  BY <1>2, <1>3
<1>5. \A d \in w \cup {c} : Len(t) >= 1 /\ t[1] = d
  BY <1>3, <1>4 DEF QueueFits
<1> QED
  BY <1>5 DEF QueueFits

LEMMA FeedRemoved ==
    ASSUME NEW S, NEW s \in Seq(S), NEW i \in DOMAIN s
    PROVE  /\ Feed!RemoveAt(s, i) \in Seq(S)
           /\ Len(Feed!RemoveAt(s, i)) = Len(s) - 1
           /\ \A n \in 1 .. Len(s) - 1 :
                 Feed!RemoveAt(s, i)[n] = IF n < i THEN s[n] ELSE s[n + 1]
<1>1. Feed!RemoveAt(s, i) = RemoveAt(s, i)
  BY DEF Feed!RemoveAt, RemoveAt
<1> QED
  BY <1>1, WithoutShape

LEMMA FirstIs ==
    ASSUME NEW t \in Seq(Ingestions), NEW c, NEW k \in 1..Len(t), t[k] = c,
           \A i, j \in 1..Len(t) : t[i] = t[j] => i = j
    PROVE  Feed!RemoveFirst(t, c) = Feed!RemoveAt(t, k)
<1> DEFINE I == {i \in 1..Len(t) : t[i] = c}
<1>1. I = {k}
  OBVIOUS
<1>2. Feed!Min(I) = k
  <2>1. Feed!Min({k}) = k
    <3>1. k \in Int
      OBVIOUS
    <3>2. \A y \in {k} : k <= y
      BY <3>1
    <3>3. \A x \in {k} : x = k
      OBVIOUS
    <3> QED
      BY <3>2, <3>3 DEF Feed!Min
  <2> QED
    BY <1>1, <2>1
<1>3. Feed!SelectInSeq(t, LAMBDA v : v = c) = k
  BY <1>1, <1>2 DEF Feed!SelectInSeq
<1>4. \E i \in 1..Len(t) : t[i] = c
  OBVIOUS
<1>5. Feed!RemoveFirst(t, c) = Feed!RemoveAt(t, k)
  BY <1>3, <1>4 DEF Feed!RemoveFirst
<1> QED
  BY <1>5

\* A call leaves the queue, and with it its worker.
LEMMA QueueLeaves ==
    ASSUME NEW t, NEW w, NEW n, NEW S, QueueFits(t, w, n, S), NEW c \in Ingestions, c \in S
    PROVE  QueueFits(Feed!RemoveFirst(t, c), w \ {c}, n - 1, S \ {c})
<1> DEFINE m == Len(t)
<1>1. t \in Seq(Ingestions) /\ n = m /\ m \in Nat /\ m <= MaxPending /\ MaxPending \in Nat
  BY FeedAssumption DEF QueueFits
<1>2. PICK k \in 1..m : t[k] = c
  BY DEF QueueFits
<1>3. \A i, j \in 1..m : t[i] = t[j] => i = j
  BY DEF QueueFits
<1> DEFINE u == Feed!RemoveFirst(t, c)
<1>4. /\ u \in Seq(Ingestions) /\ Len(u) = m - 1
      /\ \A i \in 1..m - 1 : u[i] = IF i < k THEN t[i] ELSE t[i + 1]
  <2>1. k \in DOMAIN t
    BY <1>1, <1>2
  <2>2. u = Feed!RemoveAt(t, k)
    BY <1>1, <1>2, <1>3, FirstIs
  <2>3. /\ Feed!RemoveAt(t, k) \in Seq(Ingestions) /\ Len(Feed!RemoveAt(t, k)) = Len(t) - 1
        /\ \A i \in 1..Len(t) - 1 : Feed!RemoveAt(t, k)[i] = IF i < k THEN t[i] ELSE t[i + 1]
    BY <1>1, <2>1, FeedRemoved
  <2> HIDE DEF u
  <2> QED
    BY <2>2, <2>3
<1> HIDE DEF u
<1>5. k \in Nat /\ k >= 1 /\ k <= m
  BY <1>1, <1>2
<1>6. \A d \in Ingestions : d \in S <=> \E i \in 1..m : t[i] = d
  BY DEF QueueFits
<1>7. \A d \in w : m >= 1 /\ t[1] = d
  BY DEF QueueFits
<1> HIDE DEF m
<1>8. \A i, j \in 1..m - 1 : u[i] = u[j] => i = j
  <2> SUFFICES ASSUME NEW i \in 1..m - 1, NEW j \in 1..m - 1, u[i] = u[j] PROVE i = j
    OBVIOUS
  <2> DEFINE x == IF i < k THEN i ELSE i + 1
             y == IF j < k THEN j ELSE j + 1
  <2>1. x \in 1..m /\ y \in 1..m
    BY <1>1, <1>5
  <2>2. u[i] = t[x] /\ u[j] = t[y]
    BY <1>4
  <2>3. x = y
    BY <1>3, <2>1, <2>2
  <2> QED
    BY <1>5, <2>3
<1>9. ASSUME NEW d \in Ingestions PROVE d \in S \ {c} <=> \E i \in 1..m - 1 : u[i] = d
  <2>1. ASSUME d \in S, d # c PROVE \E i \in 1..m - 1 : u[i] = d
    <3>1. PICK i \in 1..m : t[i] = d
      BY <1>6, <2>1
    <3>2. i # k
      BY <1>2, <2>1, <3>1
    <3>3. CASE i < k
      <4>1. i \in 1..m - 1
        BY <1>1, <1>5, <3>3
      <4> QED
        BY <1>4, <3>1, <3>3, <4>1
    <3>4. CASE i > k
      <4>1. i - 1 \in 1..m - 1 /\ ~(i - 1 < k) /\ (i - 1) + 1 = i
        BY <1>1, <1>5, <3>4
      <4> QED
        BY <1>4, <3>1, <4>1
    <3> QED
      BY <1>5, <3>2, <3>3, <3>4
  <2>2. ASSUME NEW i \in 1..m - 1, u[i] = d PROVE d \in S /\ d # c
    <3> DEFINE x == IF i < k THEN i ELSE i + 1
    <3>1. x \in 1..m /\ x # k
      BY <1>1, <1>5
    <3>2. t[x] = d
      BY <1>4, <2>2
    <3> HIDE DEF x
    <3>3. t[x] # t[k]
      BY <1>2, <1>3, <3>1
    <3> QED
      BY <1>2, <1>6, <3>1, <3>2, <3>3
  <2> QED
    BY <2>1, <2>2
<1>10. \A d \in w \ {c} : m - 1 >= 1 /\ u[1] = d
  <2> TAKE d \in w \ {c}
  <2>1. m >= 1 /\ t[1] = d /\ d # c
    BY <1>7
  <2>2. k # 1
    BY <1>2, <2>1
  <2>3. m - 1 >= 1 /\ 1 \in 1..m - 1 /\ 1 < k
    BY <1>1, <1>5, <2>2
  <2> QED
    BY <1>4, <2>1, <2>3
<1>11. n - 1 = m - 1 /\ n - 1 <= MaxPending
  BY <1>1
<1> QED
  BY <1>4, <1>8, <1>9, <1>10, <1>11 DEF QueueFits, u

LEMMA CountingWorkers == ASSUME NEW S PROVE Feed!Cardinality(S) = Cardinality(S)
  BY DEF Feed!Cardinality, Cardinality

Waiting == {c \in Ingestions : ingestion[c].at \in Queued}

LEMMA QueueIs ==
    ASSUME QueueFits(tail, workers, pending, Waiting)
    PROVE  Feed!OneWorker /\ tail \in Seq(Ingestions) /\ workers \subseteq Ingestions
           /\ pending \in 0..MaxPending
<1>1. /\ tail \in Seq(Ingestions) /\ Len(tail) \in Nat /\ pending = Len(tail)
      /\ pending <= MaxPending /\ MaxPending \in Nat
  BY FeedAssumption DEF QueueFits
<1>2. \A c \in workers : Len(tail) >= 1 /\ tail[1] = c
  BY DEF QueueFits
<1>3. \A c \in workers : c \in Ingestions /\ 1 \in DOMAIN tail
  BY <1>1, <1>2
<1>4. Feed!Cardinality(workers) <= 1
  <2>1. workers \subseteq {tail[1]}
    BY <1>2
  <2>2. IsFiniteSet({tail[1]}) /\ Cardinality({tail[1]}) = 1
    BY FS_Singleton
  <2>3. Cardinality(workers) <= Cardinality({tail[1]})
    BY <2>1, <2>2, FS_Subset
  <2> QED
    BY <2>2, <2>3, CountingWorkers
<1>5. Feed!Range(tail) = Waiting
  <2>1. DOMAIN tail = 1..Len(tail) /\ \A i \in 1..Len(tail) : tail[i] \in Ingestions
    BY <1>1
  <2>2. Feed!Range(tail) = {tail[i] : i \in 1..Len(tail)}
    BY <2>1 DEF Feed!Range
  <2>3. \A c \in Ingestions : c \in Waiting <=> \E i \in 1..Len(tail) : tail[i] = c
    BY DEF QueueFits
  <2>4. Waiting \subseteq Ingestions
    BY DEF Waiting
  <2> QED
    BY <2>1, <2>2, <2>3, <2>4
<1>6. workers \subseteq Feed!Range(tail)
  BY <1>2, <1>3 DEF Feed!Range
<1>7. Feed!OneWorker
  BY <1>1, <1>4, <1>5, <1>6 DEF Feed!OneWorker, Waiting, Queued
<1> QED
  BY <1>1, <1>3, <1>7

-----------------------------------------------------------------------------
(* The inductive invariant                                                   *)

FeedInv ==
    /\ policy \in [ocr : BOOLEAN, allowEmptyPdfPages : BOOLEAN, local : BOOLEAN]
    /\ ingestion \in [Ingestions -> Entry]
    /\ \A c \in Ingestions : Holds(ingestion[c], policy.allowEmptyPdfPages)
    /\ directory \subseteq Ingestions
    /\ QueueFits(tail, workers, pending, Waiting)
    /\ written # Feed!Fresh =>
          /\ written \in Entry /\ Whole(written, policy.allowEmptyPdfPages)
          /\ written.passages = Feed!Chunks(written.pages)

\* An ingestion moves, to where it may.
Moves(c, x) ==
    /\ x \in Entry /\ Holds(x, policy.allowEmptyPdfPages)
    /\ ingestion' = [ingestion EXCEPT ![c] = x]

LEMMA WaitingMoves ==
    ASSUME FeedInv, NEW c \in Ingestions, NEW x, Moves(c, x)
    PROVE  /\ x.at \in Queued => Waiting' = Waiting \cup {c}
           /\ x.at \notin Queued => Waiting' = Waiting \ {c}
           /\ c \in Waiting <=> ingestion[c].at \in Queued
<1>1. /\ ingestion \in [Ingestions -> Entry] /\ ingestion' = [ingestion EXCEPT ![c] = x]
  BY DEF FeedInv, Moves
<1>2. ingestion'[c] = x /\ \A d \in Ingestions : d # c => ingestion'[d] = ingestion[d]
  BY <1>1
<1>3. Waiting' = {d \in Ingestions : ingestion'[d].at \in Queued}
  BY DEF Waiting
<1>4. \A d \in Ingestions : d \in Waiting' <=> IF d = c THEN x.at \in Queued ELSE ingestion[d].at \in Queued
  BY <1>2, <1>3
<1>5. \A d \in Ingestions : d \in Waiting <=> ingestion[d].at \in Queued
  BY DEF Waiting
<1>6. Waiting \subseteq Ingestions /\ Waiting' \subseteq Ingestions
  BY DEF Waiting
<1> QED
  BY <1>4, <1>5, <1>6

LEMMA EntryMoves ==
    ASSUME FeedInv, NEW c \in Ingestions, NEW x, Moves(c, x), policy' = policy,
           directory' \subseteq Ingestions,
           QueueFits(tail, workers, pending, Waiting)',
           written' = written \/ (ingestion[c].at \in Indexed /\ written' = ingestion[c])
    PROVE  FeedInv'
<1> DEFINE allowed == policy.allowEmptyPdfPages
<1>1. /\ ingestion \in [Ingestions -> Entry] /\ ingestion' = [ingestion EXCEPT ![c] = x]
      /\ x \in Entry /\ Holds(x, allowed) /\ \A d \in Ingestions : Holds(ingestion[d], allowed)
  BY DEF FeedInv, Moves
<1>2. policy'.allowEmptyPdfPages = allowed
      /\ policy' \in [ocr : BOOLEAN, allowEmptyPdfPages : BOOLEAN, local : BOOLEAN]
  BY DEF FeedInv
<1> HIDE DEF allowed
<1>3. ingestion' \in [Ingestions -> Entry] /\ \A d \in Ingestions : Holds(ingestion'[d], allowed)
  BY <1>1
<1>4. ASSUME written' # Feed!Fresh
      PROVE  /\ written' \in Entry /\ Whole(written', allowed)
             /\ written'.passages = Feed!Chunks(written'.pages)
  <2>1. CASE written' = written
    BY <1>4, <2>1 DEF FeedInv, allowed
  <2>2. CASE ingestion[c].at \in Indexed /\ written' = ingestion[c]
    BY <1>1, <2>2 DEF Holds
  <2> QED
    BY <2>1, <2>2
<1>5. Feed!Fresh' = Feed!Fresh
  BY DEF Feed!Fresh
<1>6. (\A d \in Ingestions : Holds(ingestion[d], policy.allowEmptyPdfPages))'
  BY <1>2, <1>3
<1>7. (written # Feed!Fresh =>
          /\ written \in Entry /\ Whole(written, policy.allowEmptyPdfPages)
          /\ written.passages = Feed!Chunks(written.pages))'
  BY <1>2, <1>4, <1>5
<1> QED
  BY <1>2, <1>3, <1>6, <1>7 DEF FeedInv

\* Where the queue is not concerned.
LEMMA BesideQueue ==
    ASSUME FeedInv, NEW c \in Ingestions, NEW x, Moves(c, x), policy' = policy,
           directory' \subseteq Ingestions, UNCHANGED Feed!adapter,
           x.at \in Queued <=> ingestion[c].at \in Queued,
           written' = written \/ (ingestion[c].at \in Indexed /\ written' = ingestion[c])
    PROVE  FeedInv'
<1>1. Waiting' = Waiting
  BY WaitingMoves DEF Waiting
<1>2. tail' = tail /\ workers' = workers /\ pending' = pending
  BY DEF Feed!adapter
<1>3. QueueFits(tail, workers, pending, Waiting)
  BY DEF FeedInv
<1>4. QueueFits(tail', workers', pending', Waiting')
  BY <1>1, <1>2, <1>3
<1>5. QueueFits(tail, workers, pending, Waiting)'
  BY <1>4 DEF QueueFits
<1> QED
  BY <1>5, EntryMoves

LEMMA IngestionGoes ==
    ASSUME FeedInv, NEW c \in Ingestions, NEW place \in Indexed \cup {"failed"}, Feed!Goes(c, place),
           place \in Indexed => ingestion[c].at \in Indexed
    PROVE  Moves(c, Placed(ingestion[c], place)) /\ Placed(ingestion[c], place).at = place
<1>1. ingestion \in [Ingestions -> Entry] /\ ingestion[c] \in Entry
      /\ Holds(ingestion[c], policy.allowEmptyPdfPages)
  BY DEF FeedInv
<1>2. place \in FeedPlaces
  BY DEF FeedPlaces, Indexed
<1>3. ingestion' = [ingestion EXCEPT ![c] = Placed(ingestion[c], place)]
  BY <1>1 DEF Feed!Goes, Placed
<1>4. Placed(ingestion[c], place) \in Entry /\ Placed(ingestion[c], place).at = place
  BY <1>1, <1>2, PlacedEntry
<1>5. Holds(Placed(ingestion[c], place), policy.allowEmptyPdfPages)
  <2> DEFINE x == ingestion[c]
             allowed == policy.allowEmptyPdfPages
  <2>1. x \in Entry /\ Holds(x, allowed) /\ (place \in Indexed => x.at \in Indexed)
        /\ (place \in Indexed \/ place = "failed")
    BY <1>1
  <2> HIDE DEF x, allowed
  <2>2. Holds(Placed(x, place), allowed)
    BY <1>2, <2>1, PlacedHolds
  <2> QED
    BY <2>2 DEF x, allowed
<1> QED
  BY <1>3, <1>4, <1>5 DEF Moves

LEMMA IngestionEnds ==
    ASSUME FeedInv, NEW c \in Ingestions, Feed!Ends(c)
    PROVE  Moves(c, Feed!Ended) /\ Feed!Ended.at = "ended"
<1>1. ingestion' = [ingestion EXCEPT ![c] = Feed!Ended]
  BY DEF Feed!Ends
<1> QED
  BY <1>1, FreshEntry DEF Moves

-----------------------------------------------------------------------------
(* Preparation                                                               *)

LEMMA DocumentBegins ==
    ASSUME FeedInv, NEW c \in Ingestions, NEW d \in Documents, Feed!Begin(c, d)
    PROVE  FeedInv'
<1>0. /\ ingestion[c].at = "new" /\ policy' = policy /\ directory' \subseteq Ingestions
      /\ UNCHANGED Feed!adapter /\ written' = written
  BY DEF Feed!Begin, FeedInv
<1>1. CASE Feed!Ends(c)
  <2>1. Feed!Ended.at \notin Queued /\ "new" \notin Queued
    BY FreshEntry DEF Queued
  <2> QED
    BY <1>0, <1>1, <2>1, IngestionEnds, BesideQueue
<1>2. CASE ~Feed!Ends(c)
  <2> DEFINE at == IF d.type = "pdf" THEN "extracting" ELSE "prepared"
             pages == CASE d.type = "pdf" -> <<>>
                        [] d.type = "text" -> d.pages
                        [] OTHER -> Feed!Sections(d.pages[1])
             x0 == [Feed!Fresh EXCEPT !.at = at, !.document = d, !.pages = pages]
             none == <<>>
             x == [at |-> at, document |-> d, pages |-> pages, passages |-> none]
  <2>1. ingestion' = [ingestion EXCEPT ![c] = x0]
    BY <1>2 DEF Feed!Begin
  <2>2. x0 = x
    <3> HIDE DEF at, pages, none
    <3>1. Feed!Fresh = [at |-> "new", document |-> none, pages |-> none, passages |-> none]
      BY DEF Feed!Fresh, none
    <3> DEFINE f == Feed!Fresh
               g == [f EXCEPT !.at = at]
               h == [g EXCEPT !.document = d]
    <3>2. x0 = [h EXCEPT !.pages = pages]
      OBVIOUS
    <3>3. g = [at |-> at, document |-> none, pages |-> none, passages |-> none]
      BY <3>1
    <3> HIDE DEF g
    <3>4. h = [at |-> at, document |-> d, pages |-> none, passages |-> none]
      BY <3>3
    <3> HIDE DEF h, x0
    <3> QED
      BY <3>2, <3>4
  <2>3. d.pages \in Pages /\ d.type \in {"text", "markdown", "pdf"} /\ (d.type = "markdown" => Len(d.pages) = 1)
    BY DocumentsAre
  <2>4. /\ pages \in Pages
        /\ d.type # "pdf" => /\ Len(pages) >= Len(d.pages)
                             /\ Feed!FlattenSeq(pages) = Feed!FlattenSeq(d.pages)
    <3>1. CASE d.type = "pdf"
      <4>1. pages = <<>>
        BY <3>1
      <4>2. <<>> \in Pages
        BY DEF Pages
      <4> QED
        BY <3>1, <4>1, <4>2
    <3>2. CASE d.type = "text"
      <4>1. pages = d.pages /\ Len(d.pages) \in Nat
        BY <2>3, <3>2 DEF Pages
      <4> HIDE DEF pages
      <4> QED
        BY <2>3, <4>1
    <3>3. CASE d.type = "markdown"
      <4> DEFINE rows == d.pages[1]
                 L == Feed!Line
      <4>1. pages = Feed!Sections(rows)
        BY <3>3
      <4>2. rows \in Seq(L) /\ d.pages \in Seq(Seq(L)) /\ Len(d.pages) = 1
        BY <2>3, <3>3 DEF Pages
      <4>3. d.pages = <<rows>>
        BY <4>2
      <4> HIDE DEF pages, rows
      <4>4. Feed!FlattenSeq(d.pages) = rows
        <5> HIDE DEF L
        <5>1. Feed!FlattenSeq(<<rows>>) = rows
          BY <4>2, FlattenOne
        <5> QED
          BY <4>3, <5>1
      <4>5. /\ Feed!Sections(rows) \in Seq(Seq(Feed!Line)) /\ Len(Feed!Sections(rows)) >= 1
            /\ Feed!FlattenSeq(Feed!Sections(rows)) = rows
        BY <4>2, SectionsAreAll
      <4> QED
        BY <4>1, <4>2, <4>4, <4>5 DEF Pages
    <3> QED
      BY <2>3, <3>1, <3>2, <3>3
  <2> HIDE DEF pages, x0
  <2>5. /\ x.at = at /\ x.document = d /\ x.pages = pages /\ x.passages = none
    OBVIOUS
  <2>6. x \in Entry
    <3>1. none \in Seq(Fit) /\ at \in FeedPlaces /\ d \in Documents \cup {<<>>}
      BY DEF FeedPlaces
    <3> HIDE DEF none, at
    <3> QED
      BY <2>4, <3>1 DEF Entry
  <2>7. at \in {"extracting", "prepared"} /\ (at = "extracting" <=> d.type = "pdf")
    OBVIOUS
  <2> HIDE DEF x, at
  <2>8. ASSUME NEW allowed PROVE Holds(x, allowed)
    <3>1. x.at = "prepared" => Whole(x, allowed)
      BY <2>4, <2>5, <2>7 DEF Whole
    <3> QED
      BY <2>5, <2>7, <3>1 DEF Holds, Indexed
  <2>9. Moves(c, x)
    BY <2>1, <2>2, <2>6, <2>8 DEF Moves
  <2>10. x.at \notin Queued /\ ingestion[c].at \notin Queued
    BY <1>0, <2>5, <2>7 DEF Queued
  <2> QED
    BY <1>0, <2>9, <2>10, BesideQueue
<1> QED
  BY <1>1, <1>2

LEMMA StaysMoves ==
    ASSUME FeedInv, NEW c \in Ingestions, ingestion' = ingestion
    PROVE  Moves(c, ingestion[c])
<1>1. /\ ingestion \in [Ingestions -> Entry] /\ ingestion[c] \in Entry
      /\ Holds(ingestion[c], policy.allowEmptyPdfPages)
  BY DEF FeedInv
<1>2. ingestion' = [ingestion EXCEPT ![c] = ingestion[c]]
  BY <1>1
<1> QED
  BY <1>1, <1>2 DEF Moves

LEMMA DirectoryStep ==
    ASSUME FeedInv, NEW c \in Ingestions, Feed!MakeDirectory(c)
    PROVE  FeedInv'
<1>1. /\ ingestion' = ingestion /\ policy' = policy /\ UNCHANGED Feed!adapter /\ written' = written
      /\ directory' \subseteq Ingestions
  BY DEF Feed!MakeDirectory, FeedInv
<1>2. Moves(c, ingestion[c])
  BY <1>1, StaysMoves
<1> QED
  BY <1>1, <1>2, BesideQueue

\* An entry of a document whose pages are known.
Paged(x, pages, place) == [[x EXCEPT !.pages = pages] EXCEPT !.at = place]

LEMMA PagedEntry ==
    ASSUME NEW x \in Entry, NEW pages \in Pages, NEW place \in FeedPlaces,
           NEW y, y = Paged(x, pages, place)
    PROVE  /\ y \in Entry /\ y.at = place /\ y.document = x.document /\ y.pages = pages
           /\ y.passages = x.passages
<1> DEFINE D == Documents \cup {<<>>}
           P == Seq(Fit)
           h == [x EXCEPT !.pages = pages]
<1>1. Entry = [at : FeedPlaces, document : D, pages : Pages, passages : P]
  BY DEF Entry
<1> HIDE DEF D, P
<1>2. h \in Entry /\ h.document = x.document /\ h.pages = pages /\ h.passages = x.passages
  BY <1>1
<1>3. y = [h EXCEPT !.at = place]
  BY DEF Paged
<1> HIDE DEF h
<1> QED
  BY <1>1, <1>2, <1>3

LEMMA ExtractedStep ==
    ASSUME FeedInv, NEW c \in Ingestions, NEW answered \in BOOLEAN, Feed!Extracted(c, answered)
    PROVE  FeedInv'
<1> DEFINE x == ingestion[c]
           pages == x.document.pages
           none == Feed!Empty(pages) = {}
           ocr == policy.ocr
           allowed == policy.allowEmptyPdfPages
           place == IF none \/ ~ocr THEN "prepared" ELSE "recognizing"
           y == Paged(x, pages, place)
<1>0. /\ policy' = policy /\ UNCHANGED Feed!adapter /\ written' = written
      /\ directory' \subseteq Ingestions
  BY DEF Feed!Extracted, FeedInv
<1>1. x \in Entry /\ Holds(x, allowed) /\ ocr \in BOOLEAN /\ allowed \in BOOLEAN
      /\ ingestion \in [Ingestions -> Entry]
  BY DEF FeedInv
<1>2. CASE x.at # "extracting"
  <2>1. ingestion' = ingestion
    BY <1>2 DEF Feed!Extracted
  <2>2. Moves(c, x)
    BY <2>1, StaysMoves
  <2> QED
    BY <1>0, <2>2, BesideQueue
<1>3. CASE Feed!Ends(c) /\ x.at = "extracting"
  <2>1. Moves(c, Feed!Ended) /\ Feed!Ended.at = "ended"
    BY <1>3, IngestionEnds
  <2>2. "ended" \notin Queued /\ "extracting" \notin Queued
    BY DEF Queued
  <2> QED
    BY <1>0, <1>3, <2>1, <2>2, BesideQueue
<1>4. CASE x.at = "extracting" /\ ~Feed!Ends(c)
  <2>1. /\ none \/ ocr \/ allowed
        /\ ingestion' = [ingestion EXCEPT ![c] = y]
    <3>1. ingestion' = [ingestion EXCEPT
                  ![c] = IF none \/ ocr \/ allowed
                         THEN [@ EXCEPT !.pages = pages, !.at = place]
                         ELSE Feed!Ended]
      BY <1>4 DEF Feed!Extracted
    <3>2. ~(none \/ ocr \/ allowed) => Feed!Ends(c)
      <4> HIDE DEF none, ocr, allowed, place
      <4> QED
        BY <3>1 DEF Feed!Ends
    <3>3. (none \/ ocr \/ allowed) => ingestion' = [ingestion EXCEPT ![c] = y]
      <4> HIDE DEF none, ocr, allowed, place
      <4> QED
        BY <1>1, <3>1 DEF Paged
    <3> QED
      BY <1>4, <3>2, <3>3
  <2>2. /\ x.document \in Documents /\ x.document.type = "pdf" /\ pages \in Pages
        /\ Len(pages) \in Nat
    <3>1. x.document \in Documents /\ x.document.type = "pdf"
      BY <1>1, <1>4 DEF Holds
    <3>2. pages \in Pages
      BY <3>1, DocumentsAre
    <3> HIDE DEF x, pages
    <3>3. Len(pages) \in Nat
      BY <3>2 DEF Pages
    <3> QED
      BY <3>1, <3>2, <3>3
  <2>3. place \in {"prepared", "recognizing"} /\ place \in FeedPlaces
        /\ (place = "prepared" => none \/ ~ocr)
    BY DEF FeedPlaces
  <2> HIDE DEF x, place
  <2>4. y \in Entry /\ y.at = place /\ y.document = x.document /\ y.pages = pages
    BY <1>1, <2>2, <2>3, PagedEntry
  <2> HIDE DEF y
  <2>5. place = "prepared" => Whole(y, allowed)
    <3>1. place = "prepared" => (Feed!Empty(pages) # {} => allowed)
      BY <2>1, <2>3
    <3> HIDE DEF none, ocr, allowed
    <3> QED
      BY <2>2, <2>4, <3>1 DEF Whole
  <2>6. Holds(y, allowed)
    <3> HIDE DEF none, ocr, allowed
    <3> QED
      BY <2>2, <2>3, <2>4, <2>5 DEF Holds, Indexed
  <2>7. Moves(c, y)
    BY <2>1, <2>4, <2>6 DEF Moves
  <2>8. y.at \notin Queued /\ x.at \notin Queued
    BY <1>4, <2>3, <2>4 DEF Queued
  <2> QED
    BY <1>0, <2>7, <2>8, BesideQueue DEF x
<1> QED
  BY <1>2, <1>3, <1>4

LEMMA RecognizeStep ==
    ASSUME FeedInv, NEW c \in Ingestions, NEW found, Feed!Recognize(c, found)
    PROVE  FeedInv'
<1> DEFINE x == ingestion[c]
           pages == x.pages
           filled == [p \in DOMAIN pages |-> IF p \in found THEN Recognized ELSE pages[p]]
           allowed == policy.allowEmptyPdfPages
           place == "prepared"
           y == Paged(x, filled, place)
<1>0. /\ policy' = policy /\ UNCHANGED Feed!adapter /\ written' = written
      /\ directory' \subseteq Ingestions /\ x.at = "recognizing"
  BY DEF Feed!Recognize, FeedInv
<1>1. x \in Entry /\ Holds(x, allowed) /\ allowed \in BOOLEAN /\ ingestion \in [Ingestions -> Entry]
  BY DEF FeedInv
<1>2. CASE Feed!Ends(c)
  <2>1. Moves(c, Feed!Ended) /\ Feed!Ended.at = "ended"
    BY <1>2, IngestionEnds
  <2>2. "ended" \notin Queued /\ "recognizing" \notin Queued
    BY DEF Queued
  <2> QED
    BY <1>0, <2>1, <2>2, BesideQueue
<1>3. CASE ~Feed!Ends(c)
  <2>1. /\ Feed!Empty(filled) = {} \/ allowed
        /\ ingestion' = [ingestion EXCEPT ![c].at = "prepared", ![c].pages = filled]
    BY <1>3 DEF Feed!Recognize
  <2>2. ingestion' = [ingestion EXCEPT ![c] = y]
    <3> HIDE DEF filled
    <3>1. [[x EXCEPT !.at = place] EXCEPT !.pages = filled] = y
      BY <1>1 DEF Entry, Paged
    <3>2. ingestion' = [ingestion EXCEPT ![c] = [[x EXCEPT !.at = place] EXCEPT !.pages = filled]]
      BY <1>1, <2>1
    <3> HIDE DEF x, y
    <3> QED
      BY <3>1, <3>2
  <2>3. x.document \in Documents /\ x.document.type = "pdf" /\ pages = x.document.pages /\ pages \in Pages
    BY <1>0, <1>1 DEF Holds, Entry
  <2>4. filled \in Pages /\ Len(filled) = Len(pages) /\ Len(pages) \in Nat
    <3> DEFINE S == Seq(Feed!Line)
               n == Len(pages)
    <3>1. pages \in Seq(S) /\ Recognized \in S
      BY <2>3, DocumentsAre DEF Pages
    <3> HIDE DEF S, x
    <3>2. n \in Nat /\ DOMAIN pages = 1..n /\ \A p \in 1..n : pages[p] \in S
      BY <3>1
    <3>3. filled \in [1..n -> S]
      BY <3>1, <3>2
    <3>5. n \in Nat
      BY <3>2
    <3> HIDE DEF filled, n
    <3>4. filled \in Seq(S) /\ Len(filled) = n
      BY <3>3, <3>5, IsASeq, LenProperties
    <3> QED
      BY <3>2, <3>4 DEF n, S, Pages
  <2> HIDE DEF filled, x, place
  <2>5. y \in Entry /\ y.at = place /\ y.document = x.document /\ y.pages = filled
    <3>1. place \in FeedPlaces
      BY DEF FeedPlaces, place
    <3> QED
      BY <1>1, <2>4, <3>1, PagedEntry
  <2> HIDE DEF y
  <2>6. Whole(y, allowed)
    <3>1. Len(filled) >= Len(x.document.pages)
      BY <2>3, <2>4
    <3> HIDE DEF allowed
    <3> QED
      BY <2>1, <2>3, <2>5, <3>1 DEF Whole
  <2>7. Holds(y, allowed)
    <3> HIDE DEF allowed
    <3> QED
      BY <2>5, <2>6 DEF Holds, Indexed, place
  <2>8. Moves(c, y)
    BY <2>2, <2>5, <2>7 DEF Moves
  <2>9. y.at \notin Queued /\ x.at \notin Queued
    BY <1>0, <2>5 DEF Queued, place
  <2> QED
    BY <1>0, <2>8, <2>9, BesideQueue DEF x
<1> QED
  BY <1>2, <1>3

LEMMA PrepareStep ==
    ASSUME FeedInv, NEW c \in Ingestions, Feed!Prepare(c)
    PROVE  FeedInv'
<1> DEFINE x == ingestion[c]
           chunks == Feed!Chunks(x.pages)
           allowed == policy.allowEmptyPdfPages
           h == Placed(x, "indexing")
           y == [h EXCEPT !.passages = chunks]
<1>0. /\ policy' = policy /\ UNCHANGED Feed!adapter /\ written' = written
      /\ directory' \subseteq Ingestions /\ x.at = "prepared"
  BY DEF Feed!Prepare, FeedInv
<1>1. x \in Entry /\ Holds(x, allowed) /\ ingestion \in [Ingestions -> Entry]
  BY DEF FeedInv
<1>2. CASE Feed!Ends(c)
  <2>1. Moves(c, Feed!Ended) /\ Feed!Ended.at = "ended"
    BY <1>2, IngestionEnds
  <2>2. "ended" \notin Queued /\ "prepared" \notin Queued
    BY DEF Queued
  <2> QED
    BY <1>0, <2>1, <2>2, BesideQueue
<1>3. CASE ~Feed!Ends(c)
  <2>1. ingestion' = [ingestion EXCEPT ![c].at = "indexing", ![c].passages = chunks]
    BY <1>3 DEF Feed!Prepare
  <2>2. ingestion' = [ingestion EXCEPT ![c] = y]
    <3> HIDE DEF chunks
    <3> QED
      BY <1>1, <2>1 DEF Placed
  <2>3. Whole(x, allowed) /\ x.pages \in Pages
    BY <1>0, <1>1 DEF Holds, Entry
  <2>4. chunks \in Seq(Fit)
    <3> HIDE DEF x
    <3> QED
      BY <2>3, ChunksAre DEF Pages
  <2> HIDE DEF x, chunks
  <2>5. /\ h \in Entry /\ h.at = "indexing" /\ h.document = x.document /\ h.pages = x.pages
    BY <1>1, PlacedEntry DEF FeedPlaces
  <2> HIDE DEF h
  <2>6. /\ y \in Entry /\ y.at = "indexing" /\ y.document = x.document /\ y.pages = x.pages
        /\ y.passages = chunks
    <3> DEFINE D == Documents \cup {<<>>}
               P == Seq(Fit)
    <3>1. Entry = [at : FeedPlaces, document : D, pages : Pages, passages : P]
      BY DEF Entry
    <3>2. chunks \in P
      BY <2>4
    <3> HIDE DEF D, P
    <3> QED
      BY <2>5, <3>1, <3>2
  <2> HIDE DEF y
  <2>7. Holds(y, allowed)
    <3>1. Whole(y, allowed)
      BY <2>3, <2>6 DEF Whole
    <3>2. y.passages = Feed!Chunks(y.pages)
      BY <2>6 DEF chunks
    <3> QED
      BY <2>6, <3>1, <3>2 DEF Holds
  <2>8. Moves(c, y)
    BY <2>2, <2>6, <2>7 DEF Moves
  <2>9. y.at \notin Queued /\ x.at \notin Queued
    BY <1>0, <2>6 DEF Queued
  <2> QED
    BY <1>0, <2>8, <2>9, BesideQueue DEF x
<1> QED
  BY <1>2, <1>3

-----------------------------------------------------------------------------
(* The embedding adapters                                                    *)

LEMMA EnterStep ==
    ASSUME FeedInv, NEW c \in Ingestions, Feed!Enter(c)
    PROVE  FeedInv'
<1>0. /\ policy' = policy /\ written' = written /\ workers' = workers
      /\ directory' \subseteq Ingestions /\ ingestion[c].at = "indexing"
  BY DEF Feed!Enter, FeedInv
<1>1. QueueFits(tail, workers, pending, Waiting)
  BY DEF FeedInv
<1>2. CASE pending >= MaxPending
  <2>1. Feed!Ends(c) /\ UNCHANGED Feed!adapter
    BY <1>0, <1>2 DEF Feed!Enter, Feed!adapter
  <2>2. Moves(c, Feed!Ended) /\ Feed!Ended.at = "ended"
    BY <2>1, IngestionEnds
  <2>3. "ended" \notin Queued /\ "indexing" \notin Queued
    BY DEF Queued
  <2> QED
    BY <1>0, <2>1, <2>2, <2>3, BesideQueue
<1>3. CASE ~(pending >= MaxPending)
  <2>1. pending' = pending + 1 /\ tail' = Append(tail, c) /\ Feed!Goes(c, "waiting")
    BY <1>3 DEF Feed!Enter
  <2> DEFINE x == Placed(ingestion[c], "waiting")
  <2>2. Moves(c, x) /\ x.at = "waiting"
    BY <1>0, <2>1, IngestionGoes DEF Indexed
  <2> HIDE DEF x
  <2>3. "waiting" \in Queued /\ "indexing" \notin Queued
    BY DEF Queued
  <2>4. Waiting' = Waiting \cup {c} /\ c \notin Waiting
    BY <1>0, <2>2, <2>3, WaitingMoves
  <2>5. QueueFits(Append(tail, c), workers, pending + 1, Waiting \cup {c})
    BY <1>1, <1>3, <2>4, QueueJoins
  <2>6. QueueFits(tail', workers', pending', Waiting')
    BY <1>0, <2>1, <2>4, <2>5
  <2>7. QueueFits(tail, workers, pending, Waiting)'
    BY <2>6 DEF QueueFits
  <2> QED
    BY <1>0, <2>2, <2>7, EntryMoves
<1> QED
  BY <1>2, <1>3

LEMMA LaunchStep ==
    ASSUME FeedInv, NEW c \in Ingestions, Feed!Launch(c)
    PROVE  FeedInv'
<1>0. /\ policy' = policy /\ written' = written /\ pending' = pending /\ tail' = tail
      /\ directory' \subseteq Ingestions /\ ingestion[c].at = "waiting" /\ Head(tail) = c
  BY DEF Feed!Launch, FeedInv
<1>1. QueueFits(tail, workers, pending, Waiting)
  BY DEF FeedInv
<1>2. PICK place \in {"embedding", "failed"} :
         /\ Feed!Goes(c, place)
         /\ place = "embedding" => workers' = workers \cup {c}
         /\ place = "failed" => workers' = workers
  <2>1. CASE workers' = workers \cup {c} /\ Feed!Goes(c, "embedding")
    BY <2>1
  <2>2. CASE workers' = workers /\ Feed!Goes(c, "failed")
    BY <2>2
  <2> QED
    BY <2>1, <2>2 DEF Feed!Launch
<1> DEFINE x == Placed(ingestion[c], place)
<1>3. Moves(c, x) /\ x.at = place
  <2>1. place \in Indexed \cup {"failed"} /\ ingestion[c].at \in Indexed
    BY <1>0 DEF Indexed
  <2> QED
    BY <1>2, <2>1, IngestionGoes
<1> HIDE DEF x
<1>4. "waiting" \in Queued /\ place \in Queued
  BY DEF Queued
<1>5. c \in Waiting /\ Waiting' = Waiting
  <2>1. c \in Waiting /\ Waiting' = Waiting \cup {c}
    BY <1>0, <1>3, <1>4, WaitingMoves
  <2> HIDE DEF Waiting
  <2> QED
    BY <2>1
<1>6. QueueFits(tail, workers \cup {c}, pending, Waiting)
  BY <1>0, <1>1, <1>5, QueueStarts
<1>7. QueueFits(tail', workers', pending', Waiting')
  BY <1>0, <1>1, <1>2, <1>5, <1>6
<1>8. QueueFits(tail, workers, pending, Waiting)'
  BY <1>7 DEF QueueFits
<1> QED
  BY <1>0, <1>3, <1>8, EntryMoves

LEMMA TerminatedStep ==
    ASSUME FeedInv, NEW c \in Ingestions, Feed!Terminated(c)
    PROVE  FeedInv'
<1>0. /\ policy' = policy /\ directory' \subseteq Ingestions
      /\ workers' = workers \ {c} /\ pending' = pending - 1 /\ tail' = Feed!RemoveFirst(tail, c)
      /\ ingestion[c].at \in {"embedded", "failed"} /\ Feed!Ends(c)
      /\ written' = written \/ (ingestion[c].at \in Indexed /\ written' = ingestion[c])
  BY DEF Feed!Terminated, FeedInv, Indexed
<1>1. QueueFits(tail, workers, pending, Waiting)
  BY DEF FeedInv
<1>2. Moves(c, Feed!Ended) /\ Feed!Ended.at = "ended"
  BY <1>0, IngestionEnds
<1>3. "ended" \notin Queued /\ ingestion[c].at \in Queued
  BY <1>0 DEF Queued
<1>4. Waiting' = Waiting \ {c} /\ c \in Waiting
  BY <1>2, <1>3, WaitingMoves
<1>5. QueueFits(Feed!RemoveFirst(tail, c), workers \ {c}, pending - 1, Waiting \ {c})
  BY <1>1, <1>4, QueueLeaves
<1>6. QueueFits(tail', workers', pending', Waiting')
  BY <1>0, <1>4, <1>5
<1>7. QueueFits(tail, workers, pending, Waiting)'
  BY <1>6 DEF QueueFits
<1> QED
  BY <1>0, <1>2, <1>7, EntryMoves

LEMMA EmbeddedStep ==
    ASSUME FeedInv, NEW c \in Ingestions, Feed!Embedded(c)
    PROVE  FeedInv'
<1>0. /\ policy' = policy /\ written' = written /\ UNCHANGED Feed!adapter
      /\ directory' \subseteq Ingestions /\ ingestion[c].at = "embedding"
  BY DEF Feed!Embedded, FeedInv
<1>1. PICK place \in {"embedded", "failed"} : Feed!Goes(c, place)
  BY DEF Feed!Embedded
<1>2. place \in Indexed \cup {"failed"} /\ ingestion[c].at \in Indexed
      /\ place \in Queued /\ ingestion[c].at \in Queued
  BY <1>0 DEF Indexed, Queued
<1>3. Moves(c, Placed(ingestion[c], place)) /\ Placed(ingestion[c], place).at = place
  BY <1>1, <1>2, IngestionGoes
<1> QED
  BY <1>0, <1>2, <1>3, BesideQueue

LEMMA AdapterRequests ==
    ASSUME FeedInv, NEW c \in Ingestions, Feed!Request(c)
    PROVE  FeedInv'
<1>0. /\ policy' = policy /\ written' = written /\ UNCHANGED Feed!adapter
      /\ directory' \subseteq Ingestions /\ ingestion[c].at = "indexing"
  BY DEF Feed!Request, FeedInv
<1>1. "requested" \in Indexed /\ "indexing" \in Indexed /\ "requested" \notin Queued
      /\ "indexing" \notin Queued /\ "ended" \notin Queued
  BY DEF Indexed, Queued
<1>2. CASE Feed!Goes(c, "requested")
  <2>1. Moves(c, Placed(ingestion[c], "requested")) /\ Placed(ingestion[c], "requested").at = "requested"
    BY <1>0, <1>1, <1>2, IngestionGoes
  <2> QED
    BY <1>0, <1>1, <2>1, BesideQueue
<1>3. CASE Feed!Ends(c)
  <2>1. Moves(c, Feed!Ended) /\ Feed!Ended.at = "ended"
    BY <1>3, IngestionEnds
  <2> QED
    BY <1>0, <1>1, <2>1, BesideQueue
<1> QED
  BY <1>2, <1>3 DEF Feed!Request

LEMMA RespondStep ==
    ASSUME FeedInv, NEW c \in Ingestions, Feed!Respond(c)
    PROVE  FeedInv'
<1>0. /\ policy' = policy /\ UNCHANGED Feed!adapter /\ Feed!Ends(c)
      /\ directory' \subseteq Ingestions /\ ingestion[c].at = "requested"
      /\ written' = written \/ written' = ingestion[c]
  BY DEF Feed!Respond, FeedInv
<1>1. "requested" \in Indexed /\ "requested" \notin Queued /\ "ended" \notin Queued
  BY DEF Indexed, Queued
<1>2. Moves(c, Feed!Ended) /\ Feed!Ended.at = "ended"
  BY <1>0, IngestionEnds
<1> QED
  BY <1>0, <1>1, <1>2, BesideQueue

LEMMA FeedAborts ==
    ASSUME FeedInv, NEW c \in Ingestions, Feed!Abort(c)
    PROVE  FeedInv'
<1>0. /\ policy' = policy /\ written' = written /\ UNCHANGED Feed!adapter
      /\ directory' \subseteq Ingestions
  BY DEF Feed!Abort, FeedInv
<1>1. CASE /\ ingestion[c].at \in {"extracting", "recognizing", "prepared", "indexing", "requested"}
           /\ Feed!Ends(c)
  <2>1. Moves(c, Feed!Ended) /\ Feed!Ended.at = "ended"
    BY <1>1, IngestionEnds
  <2>2. ingestion[c].at \notin Queued /\ "ended" \notin Queued
    BY <1>1 DEF Queued
  <2> QED
    BY <1>0, <2>1, <2>2, BesideQueue
<1>2. CASE ingestion[c].at \in {"waiting", "embedding", "embedded"} /\ Feed!Goes(c, "failed")
  <2>1. "failed" \notin Indexed /\ "failed" \in Queued /\ ingestion[c].at \in Queued
    BY <1>2 DEF Indexed, Queued
  <2>2. Moves(c, Placed(ingestion[c], "failed")) /\ Placed(ingestion[c], "failed").at = "failed"
    BY <1>2, <2>1, IngestionGoes
  <2> QED
    BY <1>0, <2>1, <2>2, BesideQueue
<1> QED
  BY <1>1, <1>2 DEF Feed!Abort

LEMMA FeedNext == ASSUME FeedInv, Feed!Next PROVE FeedInv'
<1>1. PICK c \in Ingestions : Feed!Step(c) \/ Feed!Abort(c)
  BY DEF Feed!Next
<1>2. CASE \E document \in Documents : Feed!Begin(c, document)
  BY <1>2, DocumentBegins
<1>3. CASE \E answered \in BOOLEAN : Feed!Extracted(c, answered)
  BY <1>3, ExtractedStep
<1>4. CASE \E found \in SUBSET DOMAIN ingestion[c].pages : Feed!Recognize(c, found)
  BY <1>4, RecognizeStep
<1>5. CASE Feed!MakeDirectory(c) \/ Feed!Prepare(c) \/ Feed!Enter(c) \/ Feed!Launch(c)
  BY <1>5, DirectoryStep, PrepareStep, EnterStep, LaunchStep
<1>6. CASE Feed!Embedded(c) \/ Feed!Terminated(c) \/ Feed!Request(c) \/ Feed!Respond(c)
  BY <1>6, EmbeddedStep, TerminatedStep, AdapterRequests, RespondStep
<1>7. CASE Feed!Abort(c)
  BY <1>7, FeedAborts
<1> QED
  BY <1>1, <1>2, <1>3, <1>4, <1>5, <1>6, <1>7 DEF Feed!Step

LEMMA FeedRests == ASSUME FeedInv, UNCHANGED feedVars PROVE FeedInv'
<1>1. UNCHANGED <<policy, ingestion, directory, pending, tail, workers, written>>
  BY DEF feedVars
<1>2. Waiting' = Waiting
  BY <1>1 DEF Waiting
<1>3. QueueFits(tail, workers, pending, Waiting)
  BY DEF FeedInv
<1>4. QueueFits(tail', workers', pending', Waiting')
  BY <1>1, <1>2, <1>3
<1>5. QueueFits(tail, workers, pending, Waiting)'
  BY <1>4 DEF QueueFits
<1>6. Feed!Fresh' = Feed!Fresh
  BY DEF Feed!Fresh
<1> QED
  BY <1>1, <1>5, <1>6 DEF FeedInv

LEMMA FeedBegins == ASSUME Feed!Init PROVE FeedInv
<1>1. /\ policy \in [ocr : BOOLEAN, allowEmptyPdfPages : BOOLEAN, local : BOOLEAN]
      /\ ingestion = [c \in Ingestions |-> Feed!Fresh] /\ directory = {}
      /\ pending = 0 /\ tail = <<>> /\ workers = {} /\ written = Feed!Fresh
  BY DEF Feed!Init
<1>2. ingestion \in [Ingestions -> Entry]
      /\ \A c \in Ingestions : Holds(ingestion[c], policy.allowEmptyPdfPages)
  BY <1>1, FreshEntry
<1>3. Waiting = {}
  <2>1. \A c \in Ingestions : ingestion[c].at = "new"
    BY <1>1, FreshEntry
  <2> QED
    BY <2>1 DEF Waiting, Queued
<1>4. QueueFits(tail, workers, pending, Waiting)
  <2> DEFINE t == <<>>
  <2>1. t \in Seq(Ingestions) /\ Len(t) = 0
    OBVIOUS
  <2>2. tail = t
    BY <1>1
  <2> HIDE DEF t
  <2>3. \A i : i \notin 1..Len(t)
    BY <2>1
  <2>4. MaxPending \in Nat
    BY FeedAssumption
  <2> QED
    BY <1>1, <1>3, <2>1, <2>2, <2>3, <2>4 DEF QueueFits
<1> QED
  BY <1>1, <1>2, <1>4 DEF FeedInv

\* What is indexed is the text of the whole document.
LEMMA WholeIsIndexed ==
    ASSUME FeedInv
    PROVE  Feed!NothingPartial
<1> SUFFICES ASSUME written # Feed!Fresh
             PROVE  LET pages == written.pages
                        passages == written.passages
                    IN
                    /\ (Feed!Empty(pages) # {} /\ written.document.type = "pdf") => policy.allowEmptyPdfPages
                    /\ Len(pages) >= Len(written.document.pages)
                    /\ written.document.type # "pdf" =>
                          Feed!FlattenSeq(pages) = Feed!FlattenSeq(written.document.pages)
                    /\ \A i \in DOMAIN passages :
                          /\ Feed!Size(passages[i].parts) <= MaxBytes
                          /\ \A j \in 1 .. Len(passages[i].parts) - 1 :
                                passages[i].parts[j + 1].line = passages[i].parts[j].line + 1
                    /\ \A p \in DOMAIN pages : \A l \in DOMAIN pages[p] :
                          
                             Feed!InkOf(passages, p, l) = Feed!Ink(pages[p][l])
  BY DEF Feed!NothingPartial
<1>1. /\ written \in Entry /\ Whole(written, policy.allowEmptyPdfPages)
      /\ written.passages = Feed!Chunks(written.pages)
  BY DEF FeedInv
<1>2. /\ (Feed!Empty(written.pages) # {} /\ written.document.type = "pdf") => policy.allowEmptyPdfPages
      /\ Len(written.pages) >= Len(written.document.pages)
      /\ written.document.type # "pdf" =>
            Feed!FlattenSeq(written.pages) = Feed!FlattenSeq(written.document.pages)
  BY <1>1 DEF Whole
<1> DEFINE pages == written.pages
           passages == written.passages
<1>3. pages \in Pages
  BY <1>1 DEF Entry
<1>4. passages = Feed!Chunks(pages)
  BY <1>1
<1> HIDE DEF pages, passages
<1>5. /\ passages \in Seq(Fit)
      /\ \A p \in 1..Len(pages) : \A l \in 1..Len(pages[p]) :
            Feed!InkOf(passages, p, l) = Feed!Ink(pages[p][l])
  BY <1>3, <1>4, ChunksAre DEF Pages
<1>6. \A i \in DOMAIN passages :
          /\ Feed!Size(passages[i].parts) <= MaxBytes
          /\ \A j \in 1 .. Len(passages[i].parts) - 1 :
                passages[i].parts[j + 1].line = passages[i].parts[j].line + 1
  <2> TAKE i \in DOMAIN passages
  <2>1. passages[i] \in Fit
    BY <1>5
  <2> QED
    BY <2>1, FitIs
<1>7. \A p \in DOMAIN pages : \A l \in DOMAIN pages[p] :
          Feed!InkOf(passages, p, l) = Feed!Ink(pages[p][l])
  <2>1. DOMAIN pages = 1..Len(pages) /\ \A p \in 1..Len(pages) : DOMAIN pages[p] = 1..Len(pages[p])
    BY <1>3 DEF Pages
  <2> QED
    BY <1>5, <2>1
<1> QED
  BY <1>2, <1>6, <1>7 DEF pages, passages

\* Whatever an ingestion meets on its way, and whoever aborts it, what the index is
\* given has the text of the whole document, and one embedding worker runs at a time
\* (src/src/ingestion.ts, src/src/local-embeddings.ts).
THEOREM DocumentsAreWhole == ConversationsSpec => []NothingPartial
<1>1. ConversationsInit => FeedInv
  BY FeedBegins DEF ConversationsInit
<1>2. FeedInv /\ [ConversationsNext]_<<part, vars, contextVars, indexVars, feedVars,
                                       catalogVars, streamVars, nativeVars>> => FeedInv'
  BY FeedNext, FeedRests DEF ConversationsNext
<1>3. FeedInv => NothingPartial
  <2> SUFFICES ASSUME FeedInv PROVE NothingPartial
    OBVIOUS
  <2>1. Feed!OneWorker /\ tail \in Seq(Ingestions) /\ workers \subseteq Ingestions
        /\ pending \in 0..MaxPending
    BY QueueIs DEF FeedInv
  <2>2. Feed!TypeOK
    <3>1. \A d \in Documents : d.pages \in Seq(Seq(Feed!Line))
      BY DocumentsAre DEF Pages
    <3> QED
      BY <2>1, <3>1 DEF Feed!TypeOK, FeedInv
  <2> QED
    BY <2>1, <2>2, WholeIsIndexed DEF NothingPartial
<1> QED
  BY <1>1, <1>2, <1>3, PTL DEF ConversationsSpec

=============================================================================
