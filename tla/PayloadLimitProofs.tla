------------------------- MODULE PayloadLimitProofs -------------------------
(***************************************************************************)
(* Theorems about PayloadLimit: a body the application takes for complete  *)
(* is the one that was sent, and the limit is exact.                       *)
(***************************************************************************)
EXTENDS PayloadLimit, SequenceTheorems, FiniteSetTheorems, TLAPS

(* A received body goes on until its last message.                         *)
Unfinished == \A i \in DOMAIN sent : sent[i].more
Finished ==
  /\ sent # << >>
  /\ \A i \in DOMAIN sent : sent[i].more <=> i < Len(sent)

(* What was read and what is still kept make up what was sent.             *)
Split ==
  /\ Len(read) + Len(buffered) = Len(sent)
  /\ \A i \in DOMAIN read : read[i] = sent[i]
  /\ \A i \in DOMAIN buffered : buffered[i] = sent[Len(read) + i]

Kind ==
  /\ pc \in {"header", "receive"} => read = << >> /\ buffered = sent /\ Unfinished
  /\ pc = "app" => Split /\ Finished /\ Len(read) < Len(sent)
  /\ pc = "served" => read = sent /\ Finished /\ sent[Len(sent)] # Disconnect

Inv == TypeOK /\ Kind

LEMMA InvInit == Init => Inv
BY PayloadAssumption DEF Init, Inv, TypeOK, Kind, Unfinished

LEMMA InvNext == Inv /\ [Next]_vars => Inv'
<1> SUFFICES ASSUME Inv, [Next]_vars PROVE Inv'
    OBVIOUS
<1> USE PayloadAssumption DEF Inv, TypeOK, Messages, Chunks, Disconnect, EndOfBody
<1>1. CASE CheckHeader
  BY <1>1 DEF CheckHeader, Kind, Unfinished
<1>2. ASSUME NEW m \in Chunks, ReceiveChunk(m) PROVE Inv'
  <2>1. TypeOK'
    <3>1. m \in Messages /\ m.size \in Nat
      OBVIOUS
    <3>2. total' \in Nat /\ sent' \in Seq(Messages) /\ buffered' \in Seq(Messages)
      BY <1>2, <3>1 DEF ReceiveChunk, Kept
    <3>3. pc' \in {"receive", "app", "refused"}
      BY <1>2 DEF ReceiveChunk
    <3>4. QED
      BY <1>2, <3>2, <3>3 DEF ReceiveChunk
  <2>2. /\ sent' = Append(sent, m) /\ buffered' = sent' /\ read' = << >>
        /\ \A i \in DOMAIN sent : sent[i].more
    BY <1>2 DEF ReceiveChunk, Kept, Kind, Unfinished
  <2>3. \A i \in DOMAIN sent' : sent'[i].more <=> i < Len(sent') \/ m.more
    BY <2>2
  <2>4. pc' \in {"receive", "app", "refused"} /\ (pc' = "app" => ~m.more)
        /\ (pc' = "receive" => m.more)
    BY <1>2 DEF ReceiveChunk
  <2>5. Kind'
    BY <2>1, <2>2, <2>3, <2>4 DEF Kind, Unfinished, Finished, Split
  <2>6. QED
    BY <2>1, <2>5
<1>3. CASE ReceiveDisconnect
  <2>1. TypeOK'
    BY <1>3 DEF ReceiveDisconnect, Kept
  <2>2. /\ sent' = Append(sent, Disconnect) /\ buffered' = sent' /\ read' = << >>
        /\ \A i \in DOMAIN sent : sent[i].more
    BY <1>3 DEF ReceiveDisconnect, Kept, Kind, Unfinished
  <2>3. \A i \in DOMAIN sent' : sent'[i].more <=> i < Len(sent')
    BY <2>2
  <2>4. Kind'
    BY <1>3, <2>1, <2>2, <2>3 DEF ReceiveDisconnect, Kind, Finished, Split
  <2>5. QED
    BY <2>1, <2>4
<1>4. CASE AppReads
  <2>1. /\ buffered # << >> /\ Len(read) < Len(sent)
        /\ Head(buffered) = sent[Len(read) + 1]
        /\ Head(buffered) \in Messages
    BY <1>4 DEF AppReads, Kind, Split
  <2>2. PICK m \in Messages : /\ m = sent[Len(read) + 1]
                              /\ read' = Append(read, m) /\ buffered' = Tail(buffered)
                              /\ pc' = IF m = Disconnect THEN "aborted"
                                       ELSE IF m.more THEN "app" ELSE "served"
    BY <1>4, <2>1 DEF AppReads
  <2>3. sent' = sent /\ declared' = declared /\ total' = total
    BY <1>4 DEF AppReads
  <2>4. TypeOK'
    BY <2>1, <2>2, <2>3
  <2>5. Split'
    <3>1. Split
      BY <1>4 DEF AppReads, Kind
    <3>2. Len(read') + Len(buffered') = Len(sent')
      BY <2>1, <2>2, <2>3, <3>1 DEF Split
    <3>3. \A i \in DOMAIN read' : read'[i] = sent'[i]
      BY <2>1, <2>2, <2>3, <3>1 DEF Split
    <3>4. \A i \in DOMAIN buffered' : buffered'[i] = buffered[i + 1]
      BY <2>1, <2>2, HeadTailProperties
    <3>5. \A i \in DOMAIN buffered' : i + 1 \in DOMAIN buffered
      BY <2>1, <2>2, HeadTailProperties
    <3>6. Len(read') = Len(read) + 1
      BY <2>2
    <3>7. ASSUME NEW i \in DOMAIN buffered' PROVE buffered'[i] = sent'[Len(read') + i]
      <4>1. buffered'[i] = sent[Len(read) + (i + 1)]
        BY <3>1, <3>4, <3>5, <3>7 DEF Split
      <4>2. i \in Nat /\ Len(read) \in Nat
        BY <2>4, <3>7
      <4>3. QED
        BY <2>3, <3>6, <4>1, <4>2
    <3>8. QED
      BY <3>2, <3>3, <3>7 DEF Split
  <2>6. Finished /\ (m.more <=> Len(read) + 1 < Len(sent))
    BY <1>4, <2>1, <2>2 DEF AppReads, Kind, Finished
  <2>7. CASE pc' = "served"
    <3>1. Len(read') = Len(sent)
      BY <2>1, <2>2, <2>6, <2>7
    <3>2. read' = sent
      <4>1. read' \in Seq(Messages) /\ sent \in Seq(Messages)
        BY <2>4
      <4>2. \A i \in 1 .. Len(read') : read'[i] = sent[i]
        BY <2>3, <2>4, <2>5 DEF Split
      <4>3. QED
        BY <3>1, <4>1, <4>2, SeqEqual, Zenon
    <3>3. sent[Len(sent)] = m /\ m # Disconnect
      BY <2>1, <2>2, <2>6, <2>7
    <3>4. Finished'
      BY <2>3, <2>6 DEF Finished
    <3>5. Kind'
      BY <2>3, <2>7, <3>2, <3>3, <3>4 DEF Kind
    <3>6. QED
      BY <2>4, <3>5
  <2>8. CASE pc' # "served"
    BY <2>1, <2>2, <2>3, <2>4, <2>5, <2>6, <2>8 DEF Kind, Finished
  <2>9. QED
    BY <2>7, <2>8
<1>5. CASE UNCHANGED vars
  BY <1>5 DEF vars, Kind, Unfinished, Finished, Split
<1>6. QED
  BY <1>1, <1>2, <1>3, <1>4, <1>5 DEF Next

(* PayloadLimitMiddleware: whatever the sizes and the number of chunks,    *)
(* the application never takes a part of a body for the body.              *)
THEOREM BodiesAreComplete == Spec => []ServedBodiesAreComplete
<1>1. ASSUME Inv, pc = "served", NEW i \in DOMAIN sent PROVE sent[i] # Disconnect
  <2>1. sent \in Seq(Messages) /\ Finished /\ sent[Len(sent)] # Disconnect
    BY <1>1 DEF Inv, TypeOK, Kind
  <2>2. i = Len(sent) \/ sent[i].more
    BY <2>1 DEF Finished, Messages, Chunks, Disconnect, EndOfBody
  <2>3. Disconnect.more = FALSE
    BY DEF Disconnect
  <2>4. sent[i].more => sent[i] # Disconnect
    BY <2>3, Zenon
  <2>5. QED
    BY <2>1, <2>2, <2>4, Zenon
<1>2. Inv => ServedBodiesAreComplete
  BY <1>1 DEF Inv, Kind, ServedBodiesAreComplete
<1>3. QED
  BY <1>2, InvInit, InvNext, PTL DEF Spec

-----------------------------------------------------------------------------
(* The limit.  A message that is received adds its bytes to those of the   *)
(* messages before it.                                                     *)
LEMMA BytesAdd ==
  ASSUME NEW s \in Seq(Messages), NEW m \in Messages, IsFiniteSet(BytesOf(s))
  PROVE  /\ IsFiniteSet(BytesOf(Append(s, m)))
         /\ Bytes(Append(s, m)) = Bytes(s) + m.size
         /\ Bytes(s) \in Nat
<1> DEFINE n == Len(s) + 1
           block == {n} \X (1..m.size)
<1>1. m.size \in Nat
  <2>1. CASE m \in Chunks
    BY <2>1, PayloadAssumption DEF Chunks
  <2>2. CASE m \in {Disconnect, EndOfBody}
    BY <2>2 DEF Disconnect, EndOfBody
  <2> QED
    BY <2>1, <2>2 DEF Messages
<1>2. /\ DOMAIN Append(s, m) = DOMAIN s \cup {n} /\ n \notin DOMAIN s
      /\ Append(s, m)[n] = m
      /\ \A i \in DOMAIN s : Append(s, m)[i] = s[i]
  OBVIOUS
<1>3. BytesOf(Append(s, m)) = BytesOf(s) \cup block
  BY <1>2 DEF BytesOf
<1>4. BytesOf(s) \cap block = {}
  BY <1>2 DEF BytesOf
<1>5. IsFiniteSet(block) /\ Cardinality(block) = m.size
  <2>1. IsFiniteSet({n}) /\ Cardinality({n}) = 1
    BY FS_Singleton, Zenon
  <2>2. IsFiniteSet(1..m.size) /\ Cardinality(1..m.size) = m.size
    <3> DEFINE k == m.size
    <3>1. k \in Nat
      BY <1>1
    <3> HIDE DEF k
    <3>2. IsFiniteSet(1..k) /\ Cardinality(1..k) = k
      BY <3>1, FS_Interval
    <3> QED
      BY <3>2 DEF k
  <2>3. IsFiniteSet(block) /\ Cardinality(block) = 1 * m.size
    BY <2>1, <2>2, FS_Product, Zenon
  <2> QED
    BY <1>1, <2>3
<1> HIDE DEF block
<1>6. /\ IsFiniteSet(BytesOf(s) \cup block)
      /\ Cardinality(BytesOf(s) \cup block)
           = Cardinality(BytesOf(s)) + Cardinality(block) - Cardinality({})
  BY <1>4, <1>5, FS_Union
<1>7. Cardinality({}) = 0
  BY FS_EmptySet
<1>8. Bytes(s) \in Nat
  BY FS_CardinalityType DEF Bytes
<1>9. Bytes(Append(s, m)) = Bytes(s) + m.size - 0
  BY <1>3, <1>5, <1>6, <1>7 DEF Bytes
<1> QED
  BY <1>1, <1>3, <1>6, <1>8, <1>9

(* The count is that of the bytes received, and it and the header are      *)
(* within the limit until the request is refused.                          *)
TooLarge == declared # None /\ declared > Limit

Count ==
  /\ IsFiniteSet(BytesOf(sent))
  /\ total = Bytes(sent)
  /\ pc = "header" => total = 0
  /\ pc \notin {"header", "refused"} => ~TooLarge /\ total <= Limit
  /\ pc = "refused" => TooLarge \/ total > Limit

LEMMA CountInit == Init => Count
<1>1. BytesOf(<< >>) = {}
  BY DEF BytesOf
<1> QED
  BY <1>1, FS_EmptySet DEF Init, Count, Bytes

LEMMA CountNext ==
  ASSUME Inv, Count, [Next]_vars
  PROVE  Count'
<1>1. CASE CheckHeader
  BY <1>1, PayloadAssumption DEF CheckHeader, TooMuch, Inv, TypeOK, Count, TooLarge
<1>2. ASSUME NEW m \in Chunks, ReceiveChunk(m) PROVE Count'
  <2>1. /\ pc = "receive" /\ sent' = Append(sent, m) /\ total' = total + m.size
        /\ UNCHANGED declared
        /\ pc' = IF total' > Limit THEN "refused" ELSE IF m.more THEN "receive" ELSE "app"
    BY <1>2 DEF ReceiveChunk, TooMuch
  <2>2. m \in Messages /\ sent \in Seq(Messages)
    BY DEF Messages, Inv, TypeOK
  <2>3. IsFiniteSet(BytesOf(sent')) /\ total' = Bytes(sent')
    BY <2>1, <2>2, BytesAdd DEF Count
  <2>4. total' \in Nat /\ Limit \in Nat
    <3>1. m.size \in Nat
      BY PayloadAssumption DEF Chunks
    <3> QED
      BY <2>1, <3>1, PayloadAssumption DEF Inv, TypeOK
  <2>5. CASE total' > Limit
    BY <2>1, <2>3, <2>5 DEF Count
  <2>6. CASE ~(total' > Limit)
    BY <2>1, <2>3, <2>4, <2>6 DEF Count, TooLarge
  <2> QED
    BY <2>5, <2>6
<1>3. CASE ReceiveDisconnect
  <2>1. Disconnect \in Messages /\ Disconnect.size = 0 /\ sent \in Seq(Messages)
    BY DEF Messages, Disconnect, Inv, TypeOK
  <2>2. IsFiniteSet(BytesOf(sent')) /\ Bytes(sent') = Bytes(sent) + 0 /\ Bytes(sent) \in Nat
    BY <1>3, <2>1, BytesAdd DEF ReceiveDisconnect, Count
  <2>3. total' = Bytes(sent')
    BY <1>3, <2>2 DEF ReceiveDisconnect, Count
  <2> QED
    BY <1>3, <2>2, <2>3 DEF ReceiveDisconnect, Count, TooLarge
<1>4. CASE AppReads
  <2>1. pc = "app" /\ pc' \in {"aborted", "app", "served"}
        /\ UNCHANGED <<declared, sent, total>>
    BY <1>4 DEF AppReads
  <2> QED
    BY <2>1 DEF Count, TooLarge
<1>5. CASE UNCHANGED vars
  BY <1>5 DEF vars, Count, TooLarge
<1> QED
  BY <1>1, <1>2, <1>3, <1>4, <1>5 DEF Next

(* A request is refused exactly when its header or its body exceeds the    *)
(* limit, for every limit, every size and every way to split a body.       *)
THEOREM RefusedExactlyAboveTheLimit == Spec => []LimitIsExact
<1>1. Inv /\ Count => LimitIsExact
  <2> SUFFICES ASSUME Inv, Count PROVE LimitIsExact
    OBVIOUS
  <2>1. total \in Nat /\ Limit \in Nat
    BY PayloadAssumption DEF Inv, TypeOK
  <2> QED
    BY <2>1 DEF Count, TooLarge, LimitIsExact
<1> QED
  BY <1>1, InvInit, InvNext, CountInit, CountNext, PTL DEF Spec
=============================================================================
