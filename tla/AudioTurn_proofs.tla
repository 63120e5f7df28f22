------------------------- MODULE AudioTurn_proofs --------------------------
(***************************************************************************)
(* Theorems about audio turns, for any number of turns, chunks and sizes,  *)
(* any limit of the buffer, and whatever the rate limiter turns away: what *)
(* the buffer holds is the audio of one turn, in order and complete, or    *)
(* else an error accounts for it, or a turn whose audio_end did not reach  *)
(* the handler.                                                            *)
(***************************************************************************)
EXTENDS AudioTurn, SequenceTheorems, TLAPS

\* Some chunk is of an earlier turn.
Leftover(chunks) == \E k \in 1..Len(chunks) : chunks[k].turn # turn

\* The turns of the chunks that were sent, of those that are kept, and of those that were
\* transcribed.
Numbered ==
    /\ \A k \in 1..Len(spoken) : spoken[k].turn = turn /\ spoken[k].index = k - 1
    /\ \A k \in 1..Len(buffer.chunks) : buffer.chunks[k].turn \in 1..turn
    /\ \A t \in transcripts :
           /\ t.turn \in 1..turn
           /\ \A k \in 1..Len(t.chunks) : t.chunks[k].turn \in 1..t.turn

\* A buffer is complete while it is transcribed, and kept beyond the end of its turn
\* only if no audio_end of it reached the handler.
Phases ==
    /\ ~buffer.exists => buffer.chunks = <<>>
    /\ pc = "receive" => ~buffer.complete
    /\ handled \subseteq 1..turn
    /\ turn \in handled => pc # "receive" \/ buffer.chunks = <<>>
    /\ turn \in handled => ended
    /\ \A k \in 1..Len(buffer.chunks) : buffer.chunks[k].turn \notin handled \ {turn}

\* Without an error, the buffer has all that was spoken in the turn.
Faithful == pc # "closed" /\ spoken # <<>> => buffer.chunks = spoken \/ turn \in warned

\* The buffer has a part of the turn, from its first chunk on, or is mixed with leftovers.
Unmixed == IsPrefix(buffer.chunks, spoken) \/ Leftover(buffer.chunks)

\* The inductive invariant.
IInv ==
    /\ TypeOK /\ BufferInOrder /\ Numbered /\ Phases /\ Faithful /\ Unmixed
    /\ NeverSilentlyWrong /\ MixedOnlyUnended

-----------------------------------------------------------------------------
\* A prefix, element by element.
LEMMA PrefixPointwise ==
    ASSUME NEW S, NEW s \in Seq(S), NEW t \in Seq(S)
    PROVE  IsPrefix(s, t) <=> Len(s) <= Len(t) /\ \A k \in 1..Len(s) : s[k] = t[k]
<1>1. ASSUME Len(s) <= Len(t)
      PROVE  /\ SubSeq(s, 1, Len(s)) \in Seq(S) /\ Len(SubSeq(s, 1, Len(s))) = Len(s)
             /\ \A k \in 1..Len(s) : SubSeq(s, 1, Len(s))[k] = s[k]
             /\ SubSeq(t, 1, Len(s)) \in Seq(S) /\ Len(SubSeq(t, 1, Len(s))) = Len(s)
             /\ \A k \in 1..Len(s) : SubSeq(t, 1, Len(s))[k] = t[k]
  BY <1>1
<1>2. ASSUME Len(s) <= Len(t), \A k \in 1..Len(s) : s[k] = t[k]
      PROVE  SubSeq(s, 1, Len(s)) = SubSeq(t, 1, Len(s))
  BY <1>1, <1>2, SeqEqual
<1>3. ASSUME IsPrefix(s, t)
      PROVE  Len(s) <= Len(t) /\ \A k \in 1..Len(s) : s[k] = t[k]
  BY <1>1, <1>3 DEF IsPrefix
<1> QED BY <1>2, <1>3 DEF IsPrefix

\* Prefixes of empty, equal and longer sequences.
LEMMA PrefixFacts ==
    ASSUME NEW S, NEW s \in Seq(S), NEW t \in Seq(S), NEW e \in S
    PROVE  /\ IsPrefix(<<>>, t) /\ IsPrefix(t, t)
           /\ IsPrefix(s, t) => IsPrefix(s, Append(t, e))
           /\ IsPrefix(s, t) /\ Len(s) = Len(t) => s = t
<1>1. IsPrefix(t, t)
  BY PrefixPointwise
<1>2. IsPrefix(<<>>, t)
  <2>1. <<>> \in Seq(S) /\ Len(<<>>) = 0 /\ Len(t) \in Nat
    OBVIOUS
  <2>2. SubSeq(<<>>, 1, 0) = <<>> /\ SubSeq(t, 1, 0) = <<>>
    BY SubSeqEmpty
  <2> QED BY <2>1, <2>2 DEF IsPrefix
<1>3. ASSUME IsPrefix(s, t) PROVE IsPrefix(s, Append(t, e))
  <2>1. /\ Append(t, e) \in Seq(S) /\ Len(Append(t, e)) = Len(t) + 1 /\ Len(t) \in Nat
        /\ \A k \in 1..Len(t) : Append(t, e)[k] = t[k]
    OBVIOUS
  <2>2. Len(s) <= Len(t) /\ \A k \in 1..Len(s) : s[k] = t[k]
    BY <1>3, PrefixPointwise
  <2>3. Len(s) <= Len(Append(t, e)) /\ \A k \in 1..Len(s) : s[k] = Append(t, e)[k]
    BY <2>1, <2>2
  <2> QED BY <2>1, <2>3, PrefixPointwise
<1>4. ASSUME IsPrefix(s, t), Len(s) = Len(t) PROVE s = t
  BY <1>4, PrefixPointwise, SeqEqual
<1> QED BY <1>1, <1>2, <1>3, <1>4

\* The types of what a chunk and a buffer consist of.
LEMMA FieldTypes ==
    /\ \A chunk \in Chunks : /\ chunk.turn \in 1..MaxTurns /\ chunk.index \in Nat
                              /\ chunk.mime \in Mimes /\ chunk.size \in Nat
    /\ \A b \in Buffers : /\ b.chunks \in Seq(Chunks) /\ Len(b.chunks) \in Nat
                           /\ b.mime \in Mimes /\ b.sequence \in Nat
                           /\ b.size \in Nat /\ b.size <= MaxBufferBytes
<1>1. \A chunk \in Chunks : /\ chunk.turn \in 1..MaxTurns /\ chunk.index \in Nat
                             /\ chunk.mime \in Mimes /\ chunk.size \in Nat
  <2> TAKE chunk \in Chunks
  <2>1. /\ chunk.turn \in 1..MaxTurns /\ chunk.mime \in Mimes
        /\ chunk.index \in 0..(MaxChunksPerTurn - 1) /\ chunk.size \in ChunkSizes
    BY DEF Chunks
  <2>2. chunk.index \in Nat
    BY <2>1, AudioAssumption
  <2>3. chunk.size \in Nat
    BY <2>1, AudioAssumption
  <2> QED BY <2>1, <2>2, <2>3
<1>2. \A b \in Buffers : /\ b.chunks \in Seq(Chunks) /\ b.mime \in Mimes
                          /\ b.sequence \in Nat /\ b.size \in 0..MaxBufferBytes
  BY DEF Buffers
<1> QED BY <1>1, <1>2, AudioAssumption

\* append_chunk: a chunk that is accepted keeps the buffer in order and within its limit.
LEMMA AppendedSound ==
    ASSUME NEW b \in Buffers, InOrder(b), NEW chunk \in Chunks, Accepts(b, chunk)
    PROVE  Appended(b, chunk) \in Buffers /\ InOrder(Appended(b, chunk))
<1> DEFINE c == Appended(b, chunk)
           n == Len(b.chunks)
<1>1. /\ b.chunks \in Seq(Chunks) /\ n \in Nat /\ b.size \in Nat /\ b.sequence = n
      /\ chunk.size \in Nat /\ chunk.index = n /\ chunk.mime \in Mimes
      /\ b.size + chunk.size <= MaxBufferBytes
  BY FieldTypes DEF InOrder, Accepts, Fits
<1>2. /\ c.chunks = Append(b.chunks, chunk) /\ c.mime = chunk.mime
      /\ c.size = b.size + chunk.size /\ c.sequence = n + 1
      /\ c.complete = b.complete /\ c.exists = b.exists
  BY <1>1 DEF Appended, Buffers
<1>3. c \in Buffers
  <2>1. Append(b.chunks, chunk) \in Seq(Chunks)
    BY <1>1
  <2>2. /\ n + 1 \in Nat
        /\ b.size + chunk.size \in 0..MaxBufferBytes
    BY <1>1, AudioAssumption
  <2> QED BY <1>1, <2>1, <2>2 DEF Appended, Buffers
<1>4. /\ Len(c.chunks) = n + 1
      /\ c.chunks[n + 1] = chunk
      /\ \A k \in 1..n : c.chunks[k] = b.chunks[k]
  BY <1>1, <1>2
<1>5. \A k \in 1..(n + 1) : c.chunks[k].index = k - 1
  BY <1>1, <1>4 DEF InOrder
<1>6. \A k \in 1..(n + 1) : c.chunks[k].mime \in {"wav", c.mime}
  BY <1>1, <1>2, <1>4 DEF InOrder, Accepts
<1>7. SizeIsTotal(c)
  <2>1. PICK total \in [0..n -> 0..b.size] :
           /\ total[0] = 0 /\ total[n] = b.size
           /\ \A k \in 1..n : total[k] = total[k - 1] + b.chunks[k].size
    BY DEF InOrder, SizeIsTotal
  <2> DEFINE more == [k \in 0..(n + 1) |-> IF k = n + 1 THEN c.size ELSE total[k]]
  <2>2. more \in [0..(n + 1) -> 0..c.size]
    BY <1>1, <1>2
  <2>3. more[0] = 0 /\ more[n + 1] = c.size
    BY <1>1, <2>1
  <2>4. ASSUME NEW k \in 1..(n + 1) PROVE more[k] = more[k - 1] + c.chunks[k].size
    BY <1>1, <1>2, <1>4, <2>1, <2>4
  <2> HIDE DEF more
  <2> QED BY <1>4, <2>2, <2>3, <2>4 DEF SizeIsTotal
<1> QED BY <1>1, <1>2, <1>3, <1>4, <1>5, <1>6, <1>7 DEF InOrder

\* An empty buffer is in order.
LEMMA NoBufferSound ==
    /\ NoBuffer \in Buffers /\ InOrder(NoBuffer)
    /\ NewBuffer \in Buffers /\ InOrder(NewBuffer) /\ NewBuffer.chunks = <<>>
<1>1. ASSUME NEW b \in Buffers, b.chunks = <<>>, b.size = 0, b.sequence = 0
      PROVE  InOrder(b)
  <2>1. SizeIsTotal(b)
    <3> DEFINE zero == [k \in 0..0 |-> 0]
    <3>1. zero \in [0..0 -> 0..0] /\ zero[0] = 0
      OBVIOUS
    <3> HIDE DEF zero
    <3> QED BY <1>1, <3>1 DEF SizeIsTotal
  <2> QED BY <1>1, <2>1 DEF InOrder
<1>2. NoBuffer \in Buffers /\ NewBuffer \in Buffers
  <2>1. <<>> \in Seq(Chunks) /\ 0 \in 0..MaxBufferBytes
    BY EmptySeq, AudioAssumption
  <2> QED BY <2>1 DEF NoBuffer, NewBuffer, Buffers, Mimes
<1> QED BY <1>1, <1>2 DEF NoBuffer, NewBuffer

\* The initial state satisfies the invariant.
LEMMA InitInv == Init => IInv
<1> SUFFICES ASSUME Init PROVE IInv
  OBVIOUS
<1>1. buffer = NoBuffer /\ buffer.chunks = <<>> /\ spoken = <<>>
  BY DEF Init, NoBuffer
<1>2. TypeOK
  <2>1. spoken \in Seq(Chunks) /\ Len(spoken) = 0 /\ 0 <= MaxChunksPerTurn
    BY <1>1, EmptySeq, AudioAssumption
  <2>2. turn \in 1..MaxTurns
    BY AudioAssumption DEF Init
  <2>3. buffer \in Buffers
    BY <1>1, NoBufferSound
  <2> QED BY <2>1, <2>2, <2>3 DEF Init, TypeOK
<1>3. BufferInOrder
  BY <1>1, NoBufferSound DEF BufferInOrder
<1>4. IsPrefix(buffer.chunks, spoken)
  <2>1. IsPrefix(<<>>, <<>>)
    BY SubSeqEmpty DEF IsPrefix
  <2> QED BY <1>1, <2>1
<1>5. ~buffer.complete
  BY <1>1 DEF NoBuffer
<1> QED
  BY <1>1, <1>2, <1>3, <1>4, <1>5 DEF Init, NoBuffer, IInv, Numbered, Phases, Faithful,
                          Unmixed, NeverSilentlyWrong, MixedOnlyUnended

\* A chunk is appended only where the buffer has all of the turn, or leftovers.
LEMMA SendChunkInv ==
    ASSUME IInv, NEW chunk \in Chunks, SendChunk(chunk)
    PROVE  IInv'
<1> DEFINE b == IF buffer.exists THEN buffer ELSE NewBuffer
<1>1. /\ pc = "receive" /\ pc' = "receive" /\ ~ended
      /\ turn \in 1..MaxTurns /\ chunk.turn = turn /\ chunk.index = Len(spoken)
      /\ spoken \in Seq(Chunks) /\ spoken' = Append(spoken, chunk)
      /\ Len(spoken) < MaxChunksPerTurn /\ Len(spoken) \in Nat
      /\ warned' \in {warned, warned \cup {turn}}
      /\ UNCHANGED <<turn, ended, handled, transcripts, answers>>
  BY DEF SendChunk, SendError, IInv, TypeOK
<1>2. /\ spoken' \in Seq(Chunks) /\ Len(spoken') = Len(spoken) + 1
      /\ spoken'[Len(spoken) + 1] = chunk
      /\ \A k \in 1..Len(spoken) : spoken'[k] = spoken[k]
  BY <1>1
<1>3. /\ b \in Buffers /\ InOrder(b) /\ b.exists /\ ~b.complete
      /\ \A k \in 1..Len(b.chunks) : /\ b.chunks[k].turn \in 1..turn
                                     /\ b.chunks[k].turn \notin handled \ {turn}
      /\ turn \notin handled /\ handled \subseteq 1..turn
      /\ spoken # <<>> => b.chunks = spoken \/ turn \in warned
      /\ IsPrefix(b.chunks, spoken) \/ Leftover(b.chunks)
  <2>1. CASE buffer.exists
    BY <1>1, <2>1 DEF IInv, TypeOK, BufferInOrder, Numbered, Phases, Faithful, Unmixed
  <2>2. CASE ~buffer.exists
    <3>1. b.chunks = <<>> /\ buffer.chunks = <<>> /\ b \in Buffers /\ InOrder(b)
      BY <2>2, NoBufferSound DEF IInv, Phases
    <3>2. b.exists /\ ~b.complete
      BY <2>2 DEF NewBuffer, NoBuffer
    <3>3. IsPrefix(<<>>, spoken)
      BY <1>1, PrefixFacts
    <3>4. spoken # <<>> => spoken = <<>> \/ turn \in warned
      BY <1>1, <3>1 DEF IInv, Faithful
    <3>5. turn \notin handled /\ handled \subseteq 1..turn
      BY <1>1 DEF IInv, Phases
    <3> HIDE DEF b
    <3> QED BY <3>1, <3>2, <3>3, <3>4, <3>5
  <2> QED BY <2>1, <2>2
<1> HIDE DEF b
<1>4. /\ spoken' \in Seq(Chunks) /\ Len(spoken') <= MaxChunksPerTurn
      /\ warned \subseteq warned' /\ warned' \subseteq 1..MaxTurns
  BY <1>1, <1>2, AudioAssumption DEF IInv, TypeOK
<1>5. NeverSilentlyWrong' /\ MixedOnlyUnended'
  BY <1>1, <1>4 DEF IInv, NeverSilentlyWrong, MixedOnlyUnended
<1>6. \A k \in 1..Len(spoken') : spoken'[k].turn = turn /\ spoken'[k].index = k - 1
  BY <1>1, <1>2 DEF IInv, Numbered
<1>7. CASE Accepts(b, chunk) /\ buffer' = Appended(b, chunk)
  <2>1. Appended(b, chunk) \in Buffers /\ InOrder(Appended(b, chunk))
    BY <1>3, <1>7, AppendedSound
  <2>2. /\ buffer'.chunks = Append(b.chunks, chunk)
        /\ buffer'.exists /\ ~buffer'.complete
    BY <1>3, <1>7 DEF Appended, Buffers
  <2>3. b.chunks \in Seq(Chunks) /\ Len(b.chunks) = Len(spoken)
    BY <1>1, <1>3, <1>7, FieldTypes DEF InOrder, Accepts
  <2>4. /\ Len(buffer'.chunks) = Len(b.chunks) + 1
        /\ buffer'.chunks[Len(b.chunks) + 1] = chunk
        /\ \A k \in 1..Len(b.chunks) : buffer'.chunks[k] = b.chunks[k]
    <3> DEFINE c == Append(b.chunks, chunk)
    <3>1. /\ Len(c) = Len(b.chunks) + 1 /\ c[Len(b.chunks) + 1] = chunk
          /\ \A k \in 1..Len(b.chunks) : c[k] = b.chunks[k]
      BY <2>3
    <3>2. buffer'.chunks = c
      BY <2>2
    <3> HIDE DEF c
    <3> QED BY <3>1, <3>2
  <2>5. TypeOK' /\ BufferInOrder'
    BY <1>1, <1>7, <1>4, <2>1 DEF IInv, TypeOK, BufferInOrder
  <2>6. Numbered' /\ Phases'
    <3>1. ASSUME NEW k \in 1..Len(buffer'.chunks)
          PROVE  /\ buffer'.chunks[k].turn \in 1..turn
                 /\ buffer'.chunks[k].turn \notin handled \ {turn}
      <4>1. CASE k = Len(b.chunks) + 1
        BY <1>1, <2>4, <4>1
      <4>2. CASE k # Len(b.chunks) + 1
        <5>1. k \in 1..Len(b.chunks)
          BY <1>1, <2>3, <2>4, <4>2
        <5> QED BY <1>3, <2>4, <5>1
      <4> QED BY <4>1, <4>2
    <3>2. Numbered'
      BY <1>1, <1>6, <3>1 DEF IInv, Numbered
    <3>3. Phases'
      BY <1>1, <1>3, <2>2, <3>1 DEF Phases
    <3> QED BY <3>2, <3>3
  <2>8. Faithful'
    BY <1>1, <1>3, <2>2, <2>3, EmptySeq DEF Faithful
  <2>9. Unmixed'
    <3>1. CASE IsPrefix(b.chunks, spoken)
      <4>1. b.chunks = spoken
        BY <1>1, <2>3, <3>1, PrefixFacts
      <4>2. buffer'.chunks = spoken' /\ IsPrefix(spoken', spoken')
        BY <1>1, <1>2, <2>2, <4>1, PrefixFacts
      <4> QED BY <4>2 DEF Unmixed
    <3>2. CASE Leftover(b.chunks)
      BY <1>1, <2>3, <2>4, <3>2 DEF Unmixed, Leftover
    <3> QED BY <1>3, <3>1, <3>2
  <2> QED BY <1>5, <2>5, <2>6, <2>8, <2>9 DEF IInv
<1>8. CASE buffer' \in {b, buffer} /\ turn \in warned'
  <2>1. TypeOK' /\ BufferInOrder'
    BY <1>1, <1>3, <1>8, <1>4 DEF IInv, TypeOK, BufferInOrder
  <2>2. Numbered' /\ Phases' /\ Faithful'
    BY <1>1, <1>3, <1>6, <1>8 DEF IInv, Numbered, Phases, Faithful
  <2>3. /\ buffer'.chunks \in Seq(Chunks)
        /\ IsPrefix(buffer'.chunks, spoken) \/ Leftover(buffer'.chunks)
    BY <1>3, <1>8, FieldTypes DEF IInv, TypeOK, Unmixed
  <2>4. Unmixed'
    BY <1>1, <2>3, PrefixFacts DEF Unmixed, Leftover
  <2> QED BY <1>5, <2>1, <2>2, <2>4 DEF IInv
<1> QED BY <1>1, <1>7, <1>8 DEF SendChunk, SendError, b

\* That the present turn is handled mixes no transcript of an earlier turn.
LEMMA HandledNow ==
    ASSUME IInv, handled' \in {handled, handled \cup {turn}}, transcripts' = transcripts
    PROVE  MixedOnlyUnended'
<1> SUFFICES ASSUME NEW t \in transcripts, NEW k \in 1..Len(t.chunks)
             PROVE  t.chunks[k].turn \notin handled' \ {t.turn}
  BY DEF IInv, MixedOnlyUnended
<1>1. t.chunks[k].turn \notin handled \ {t.turn}
  BY DEF IInv, MixedOnlyUnended
<1>2. t.turn \in 1..turn /\ t.chunks[k].turn \in 1..t.turn /\ turn \in Nat
  BY DEF IInv, TypeOK, Numbered
<1>3. t.chunks[k].turn = turn => t.turn = turn
  BY <1>2
<1> QED BY <1>1, <1>3

\* An audio_end that is turned away or finds nothing is answered by an error.
LEMMA EndInv ==
    ASSUME IInv, EndLimited \/ FinalizeFails
    PROVE  IInv'
<1>1. /\ turn \in 1..MaxTurns /\ warned' = warned \cup {turn}
      /\ \/ handled' = handled
         \/ handled' = handled \cup {turn} /\ buffer.chunks = <<>>
      /\ pc = "receive" /\ ended' = TRUE
      /\ UNCHANGED <<pc, turn, spoken, buffer, transcripts, answers>>
  <2>1. turn \in 1..MaxTurns /\ (pc = "receive" => ~buffer.complete)
    BY DEF IInv, TypeOK, Phases
  <2> QED BY <2>1 DEF EndLimited, FinalizeFails, SendEnd, SendError
<1>2. handled' \subseteq 1..turn /\ handled' \ {turn} = handled \ {turn}
  <2>1. handled \subseteq 1..turn /\ turn \in 1..turn
    BY <1>1, AudioAssumption DEF IInv, Phases
  <2> QED BY <1>1, <2>1
<1>3. TypeOK' /\ BufferInOrder'
  BY <1>1 DEF IInv, TypeOK, BufferInOrder
<1>4. Numbered' /\ Faithful'
  BY <1>1 DEF IInv, Numbered, Faithful
<1>5. Phases'
  BY <1>1, <1>2 DEF IInv, Phases
<1>6. Unmixed'
  BY <1>1 DEF IInv, Unmixed, Leftover
<1>7. NeverSilentlyWrong' /\ MixedOnlyUnended'
  BY <1>1, HandledNow DEF IInv, NeverSilentlyWrong
<1> QED BY <1>3, <1>4, <1>5, <1>6, <1>7 DEF IInv

\* What is transcribed is what was spoken, unless there was an error or a lost end.
LEMMA FinalizeInv == IInv /\ Finalize => IInv'
<1> SUFFICES ASSUME IInv, Finalize PROVE IInv'
  OBVIOUS
<1> DEFINE t == [turn |-> turn, chunks |-> buffer.chunks, spoken |-> spoken]
<1>1. /\ pc = "receive" /\ pc' = "transcribing" /\ ended' = TRUE
      /\ buffer.chunks # <<>> /\ spoken # <<>>
      /\ buffer' = [buffer EXCEPT !.complete = TRUE]
      /\ transcripts' = transcripts \cup {t}
      /\ handled' = handled \cup {turn}
      /\ UNCHANGED <<turn, spoken, answers, warned>>
  BY DEF Finalize, SendEnd, IInv, Phases
<1>2. /\ buffer' \in Buffers /\ buffer'.chunks = buffer.chunks /\ buffer'.size = buffer.size
      /\ buffer'.mime = buffer.mime /\ buffer'.sequence = buffer.sequence
      /\ buffer'.exists = buffer.exists
  BY <1>1 DEF IInv, TypeOK, Buffers
<1>3. t \in [turn : 1..MaxTurns, chunks : Seq(Chunks), spoken : Seq(Chunks)]
  BY FieldTypes DEF IInv, TypeOK
<1>4. TypeOK'
  <2>1. handled' \subseteq 1..MaxTurns
    BY <1>1 DEF IInv, TypeOK
  <2> HIDE DEF t
  <2> QED BY <1>1, <1>2, <1>3, <2>1 DEF IInv, TypeOK
<1>5. BufferInOrder'
  BY <1>2 DEF IInv, BufferInOrder, InOrder, SizeIsTotal
<1>6. t.turn \in 1..turn /\ \A k \in 1..Len(t.chunks) : t.chunks[k].turn \in 1..t.turn
  BY <1>3 DEF IInv, TypeOK, Numbered
<1>7. Numbered' /\ Faithful' /\ Unmixed'
  <2> HIDE DEF t
  <2> QED BY <1>1, <1>2, <1>6 DEF IInv, Numbered, Faithful, Unmixed, Leftover
<1>8. Phases'
  <2>1. handled' \subseteq 1..turn /\ handled' \ {turn} = handled \ {turn}
    BY <1>1, <1>6 DEF IInv, Phases
  <2> QED BY <1>1, <1>2, <2>1 DEF IInv, Phases
<1>9. NeverSilentlyWrong'
  BY <1>1 DEF IInv, NeverSilentlyWrong, Faithful
<1>10. MixedOnlyUnended'
  <2>1. \A u \in transcripts :
            /\ \A k \in 1..Len(u.chunks) : u.chunks[k].turn \notin handled' \ {u.turn}
            /\ \/ IsPrefix(u.chunks, u.spoken)
               \/ \E k \in 1..Len(u.chunks) : u.chunks[k].turn # u.turn
    <3> TAKE u \in transcripts
    <3>1. /\ \A k \in 1..Len(u.chunks) : u.chunks[k].turn \notin handled \ {u.turn}
          /\ \/ IsPrefix(u.chunks, u.spoken)
             \/ \E k \in 1..Len(u.chunks) : u.chunks[k].turn # u.turn
      BY DEF IInv, MixedOnlyUnended
    <3>2. /\ u.turn \in 1..turn /\ turn \in Nat
          /\ \A k \in 1..Len(u.chunks) : u.chunks[k].turn \in 1..u.turn
      BY DEF IInv, TypeOK, Numbered
    <3>3. \A k \in 1..Len(u.chunks) : u.chunks[k].turn = turn => u.turn = turn
      BY <3>2
    <3> QED BY <1>1, <3>1, <3>3
  <2>2. \A k \in 1..Len(t.chunks) : t.chunks[k].turn \notin handled' \ {t.turn}
    BY <1>1 DEF IInv, Phases
  <2>3. \/ IsPrefix(t.chunks, t.spoken)
        \/ \E k \in 1..Len(t.chunks) : t.chunks[k].turn # t.turn
    BY DEF IInv, Unmixed, Leftover
  <2> HIDE DEF t
  <2> QED BY <1>1, <2>1, <2>2, <2>3 DEF MixedOnlyUnended
<1> QED BY <1>4, <1>5, <1>7, <1>8, <1>9, <1>10 DEF IInv

\* What cleanup_buffer leaves is in order and mixes nothing.
LEMMA CleanUpSound ==
    ASSUME IInv, buffer' = NoBuffer, spoken' \in Seq(Chunks)
    PROVE  /\ buffer' \in Buffers /\ BufferInOrder' /\ Unmixed'
           /\ buffer'.chunks = <<>> /\ Len(buffer'.chunks) = 0 /\ ~buffer'.complete
<1>1. NoBuffer.chunks = <<>> /\ ~NoBuffer.complete /\ Len(<<>>) = 0
  BY DEF NoBuffer
<1>2. Unmixed'
  <2>1. /\ SubSeq(<<>>, 1, 0) = <<>> /\ SubSeq(spoken', 1, 0) = <<>>
        /\ Len(spoken') \in Nat
    BY SubSeqEmpty
  <2> QED BY <1>1, <2>1 DEF Unmixed, IsPrefix
<1> QED BY <1>1, <1>2, NoBufferSound DEF BufferInOrder

\* The answer to a transcription cleans the buffer up.
LEMMA AnswerInv ==
    ASSUME IInv, Transcribed \/ TranscriptionFails
    PROVE  IInv'
<1>1. /\ turn \in 1..MaxTurns /\ warned' = warned \cup {turn}
      /\ pc' = "receive" /\ buffer' = NoBuffer
      /\ UNCHANGED <<turn, spoken, ended, handled, transcripts>>
  BY DEF Transcribed, TranscriptionFails, SendError, CleanUp, IInv, TypeOK
<1>2. answers' \subseteq [turn : 1..MaxTurns, transcribed : BOOLEAN,
                           answer : {"text", "error"}]
  <2> DEFINE a(success) == [turn |-> turn, transcribed |-> success, answer |-> "error"]
             A == [turn : 1..MaxTurns, transcribed : BOOLEAN, answer : {"text", "error"}]
  <2>1. a(TRUE) \in A /\ a(FALSE) \in A /\ answers \subseteq A
    BY <1>1 DEF IInv, TypeOK
  <2>2. answers' \in {answers \cup {a(TRUE)}, answers \cup {a(FALSE)}}
    BY DEF Transcribed, TranscriptionFails, Answer
  <2> HIDE DEF a
  <2> QED BY <2>1, <2>2
<1>3. /\ buffer' \in Buffers /\ BufferInOrder' /\ Unmixed'
      /\ buffer'.chunks = <<>> /\ Len(buffer'.chunks) = 0 /\ ~buffer'.complete
  BY <1>1, CleanUpSound DEF IInv, TypeOK
<1>4. TypeOK'
  BY <1>1, <1>2, <1>3 DEF IInv, TypeOK
<1>5. Numbered' /\ Phases' /\ Faithful'
  BY <1>1, <1>3 DEF IInv, Numbered, Phases, Faithful
<1>6. NeverSilentlyWrong' /\ MixedOnlyUnended'
  BY <1>1 DEF IInv, NeverSilentlyWrong, MixedOnlyUnended
<1> QED BY <1>3, <1>4, <1>5, <1>6 DEF IInv

\* Audio that is still there when a turn begins is of a turn whose end never reached the
\* handler.
LEMMA NextTurnInv == IInv /\ NextTurn => IInv'
<1> SUFFICES ASSUME IInv, NextTurn PROVE IInv'
  OBVIOUS
<1>1. /\ pc = "receive" /\ turn < MaxTurns /\ turn' = turn + 1
      /\ spoken' = <<>> /\ ended' = FALSE
      /\ UNCHANGED <<pc, buffer, warned, handled, transcripts, answers>>
  BY DEF NextTurn, StartTurn
<1>2. turn \in Nat /\ turn' \in 1..MaxTurns
  BY <1>1, AudioAssumption DEF IInv, TypeOK
<1>3. TypeOK' /\ BufferInOrder'
  <2>1. spoken' \in Seq(Chunks) /\ Len(spoken') <= MaxChunksPerTurn
    BY <1>1, AudioAssumption, EmptySeq
  <2> QED BY <1>1, <1>2, <2>1 DEF IInv, TypeOK, BufferInOrder
<1>4. Numbered' /\ Faithful'
  BY <1>1, <1>2 DEF IInv, Numbered, Faithful
<1>5. Unmixed' /\ Phases'
  <2>1. buffer.chunks \in Seq(Chunks) /\ Len(buffer.chunks) \in Nat
    BY FieldTypes DEF IInv, TypeOK
  <2>2. \A k \in 1..Len(buffer.chunks) : /\ buffer.chunks[k].turn \notin handled
                                           /\ buffer.chunks[k].turn # turn'
    <3> TAKE k \in 1..Len(buffer.chunks)
    <3>1. buffer.chunks # <<>>
      BY <2>1
    <3>2. turn \notin handled
      BY <1>1, <3>1 DEF IInv, Phases
    <3> QED BY <1>1, <1>2, <3>2 DEF IInv, Numbered, Phases
  <2>3. Unmixed'
    <3>1. CASE buffer.chunks = <<>>
      BY <1>1, <3>1, SubSeqEmpty DEF Unmixed, IsPrefix
    <3>2. CASE buffer.chunks # <<>>
      <4>1. 1 \in 1..Len(buffer.chunks)
        BY <2>1, <3>2, EmptySeq
      <4> QED BY <1>1, <2>2, <4>1 DEF Unmixed, Leftover
    <3> QED BY <3>1, <3>2
  <2>4. Phases'
    <3>1. handled \subseteq 1..turn' /\ turn' \notin handled
      BY <1>1, <1>2 DEF IInv, Phases
    <3> QED BY <1>1, <2>2, <3>1 DEF IInv, Phases
  <2> QED BY <2>3, <2>4
<1>6. NeverSilentlyWrong' /\ MixedOnlyUnended'
  BY <1>1 DEF IInv, NeverSilentlyWrong, MixedOnlyUnended
<1> QED BY <1>3, <1>4, <1>5, <1>6 DEF IInv

\* A closed connection takes its buffer along.
LEMMA ConnectionInv ==
    ASSUME IInv, Disconnect \/ Reconnect
    PROVE  IInv'
<1>1. /\ buffer' = NoBuffer /\ spoken' \in Seq(Chunks)
      /\ \/ pc' = "closed" /\ UNCHANGED <<turn, spoken, ended>>
         \/ /\ pc' = "receive" /\ ended' = FALSE
            /\ turn < MaxTurns /\ turn' = turn + 1 /\ spoken' = <<>>
      /\ UNCHANGED <<warned, handled, transcripts, answers>>
  BY EmptySeq DEF Disconnect, Reconnect, StartTurn, CleanUp, IInv, TypeOK
<1>2. /\ buffer' \in Buffers /\ BufferInOrder' /\ Unmixed'
      /\ buffer'.chunks = <<>> /\ Len(buffer'.chunks) = 0 /\ ~buffer'.complete
  BY <1>1, CleanUpSound
<1>3. turn' \in 1..MaxTurns /\ Len(spoken') <= MaxChunksPerTurn
  BY <1>1, AudioAssumption, EmptySeq DEF IInv, TypeOK
<1>4. TypeOK'
  BY <1>1, <1>2, <1>3 DEF IInv, TypeOK
<1>5. Numbered' /\ Phases'
  <2>1. turn \in Nat /\ (turn' = turn \/ turn' = turn + 1)
    BY <1>1 DEF IInv, TypeOK
  <2>2. Numbered'
    BY <1>1, <1>2, <2>1, EmptySeq DEF IInv, Numbered
  <2>3. Phases'
    BY <1>1, <1>2, <2>1 DEF IInv, Phases
  <2> QED BY <2>2, <2>3
<1>6. Faithful'
  BY <1>1 DEF Faithful
<1>7. NeverSilentlyWrong' /\ MixedOnlyUnended'
  BY <1>1 DEF IInv, NeverSilentlyWrong, MixedOnlyUnended
<1> QED BY <1>2, <1>4, <1>5, <1>6, <1>7 DEF IInv

\* Every step preserves the invariant.
LEMMA StepInv == IInv /\ [Next]_vars => IInv'
<1> SUFFICES ASSUME IInv, [Next]_vars PROVE IInv'
  OBVIOUS
<1>1. CASE UNCHANGED vars
  BY <1>1 DEF vars, IInv, TypeOK, BufferInOrder, Numbered, Phases, Faithful, Unmixed,
              Leftover, NeverSilentlyWrong, MixedOnlyUnended
<1> QED BY <1>1, SendChunkInv, EndInv, FinalizeInv, AnswerInv, NextTurnInv,
           ConnectionInv DEF Next

\* The invariant holds in every reachable state.
THEOREM Invariance == Spec => []IInv
<1> QED BY InitInv, StepInv, PTL DEF Spec

\* The variables have their types; no buffer exceeds MAX_AUDIO_BUFFER_BYTES.
THEOREM TypeCorrect == Spec => []TypeOK
<1>1. IInv => TypeOK
  BY DEF IInv
<1> QED BY <1>1, Invariance, PTL

\* A buffer holds consecutive chunks from number 0 on, and its size and next number
\* are theirs.
THEOREM InOrderCorrect == Spec => []BufferInOrder
<1>1. IInv => BufferInOrder
  BY DEF IInv
<1> QED BY <1>1, Invariance, PTL

\* What AudioEndHandler has transcribed is all that the client spoke in the turn, unless
\* the client was sent an error in that turn.
THEOREM NeverSilent == Spec => []NeverSilentlyWrong
<1>1. IInv => NeverSilentlyWrong
  BY DEF IInv
<1> QED BY <1>1, Invariance, PTL

\* AudioBufferService mixes the audio of two turns only if no audio_end of the earlier
\* one reached its handler.
THEOREM MixedByUnended == Spec => []MixedOnlyUnended
<1>1. IInv => MixedOnlyUnended
  BY DEF IInv
<1> QED BY <1>1, Invariance, PTL
=============================================================================
