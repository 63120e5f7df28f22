----------------------------- MODULE AudioTurn -----------------------------
(***************************************************************************)
(* Audio turns on a WebSocket connection: the receive loop                 *)
(* (app/api/websocket_endpoints.py), which may turn any message away       *)
(* because of the rate limit, the chunk and end handlers                   *)
(* (app/websocket/handlers.py) and the buffer they share                   *)
(* (app/websocket/audio_buffer_service.py).  The loop handles one message  *)
(* at a time; the client does not wait for answers, numbers the chunks of  *)
(* every turn from 0, sends none after the turn's audio_end, and may give  *)
(* a recording up without one.                                             *)
(***************************************************************************)
EXTENDS Naturals, Sequences, SequencesExt

CONSTANTS
    MaxTurns,          \* bound: turns the client speaks
    MaxChunksPerTurn,  \* bound: chunks it sends in one turn
    ChunkSizes,
    MaxBufferBytes,    \* MAX_AUDIO_BUFFER_BYTES
    MaxAudioChunks,    \* MAX_AUDIO_CHUNKS
    Limited            \* messages the rate limiter may turn away

ASSUME AudioAssumption ==
    /\ MaxTurns \in Nat \ {0} /\ MaxChunksPerTurn \in Nat
    /\ ChunkSizes \subseteq Nat \ {0} /\ MaxBufferBytes \in Nat
    /\ MaxAudioChunks \in Nat \ {0}
    /\ Limited \subseteq {"chunk", "end"}

VARIABLES
    pc,           \* the receive loop
    turn,         \* the turn the client is speaking
    spoken,       \* the chunks it has sent in this turn
    ended,        \* whether it has sent audio_end for it
    buffer,       \* the AudioBufferState of the connection
    warned,       \* history: turns in which the client was sent an error
    handled,      \* history: turns of which an audio_end reached its handler
    transcripts,  \* history: the audio given to the transcription service,
                  \* with the turn that was ended and what was spoken in it
    answers       \* history: how turns were answered, and whether the
                  \* transcription had succeeded

vars == <<pc, turn, spoken, ended, buffer, warned, handled, transcripts,
          answers>>

Mimes == {"wav", "webm"}
Chunks == [turn : 1..MaxTurns, index : 0..(MaxChunksPerTurn - 1),
           mime : Mimes, size : ChunkSizes]

\* AudioBufferState, and whether the service has one for the connection.
Buffers == [chunks : Seq(Chunks), mime : Mimes, sequence : Nat, size : 0..MaxBufferBytes,
            complete : BOOLEAN, exists : BOOLEAN]

NoBuffer == [chunks |-> <<>>, mime |-> "wav", sequence |-> 0, size |-> 0,
             complete |-> FALSE, exists |-> FALSE]
\* AudioBufferState()
NewBuffer == [NoBuffer EXCEPT !.exists = TRUE]

\* Types and bounds: no buffer grows beyond MAX_AUDIO_BUFFER_BYTES.
TypeOK ==
    /\ pc \in {"receive", "transcribing", "closed"}
    /\ turn \in 1..MaxTurns
    /\ spoken \in Seq(Chunks) /\ Len(spoken) <= MaxChunksPerTurn
    /\ buffer \in Buffers
    /\ ended \in BOOLEAN
    /\ warned \subseteq 1..MaxTurns /\ handled \subseteq 1..MaxTurns
    /\ answers \subseteq [turn : 1..MaxTurns, transcribed : BOOLEAN,
                          answer : {"text", "error"}]
    /\ transcripts \subseteq [turn : 1..MaxTurns, chunks : Seq(Chunks), spoken : Seq(Chunks)]

Init ==
    /\ pc = "receive"
    /\ turn = 1
    /\ spoken = <<>>
    /\ buffer = NoBuffer
    /\ warned = {}
    /\ handled = {}
    /\ transcripts = {}
    /\ ended = FALSE
    /\ answers = {}

-----------------------------------------------------------------------------
SendError == warned' = warned \cup {turn}
Answer(transcribed, answer) ==
    answers' = answers \cup
                 {[turn |-> turn, transcribed |-> transcribed, answer |-> answer]}

\* Mutant of Fits: off by one chunk.
FitsAny(b, chunk) == b.size <= MaxBufferBytes

Fits(b, chunk) == b.size + chunk.size <= MaxBufferBytes

\* Mutant of Accepts: the sequence number is not looked at.
AcceptsAnyOrder(b, chunk) ==
    /\ Fits(b, chunk)
    /\ b.mime = "wav" \/ b.mime = chunk.mime

\* append_chunk of the service and of the state.  The type of a buffer that has
\* no audio yet is the same as that of a WAV buffer.
Accepts(b, chunk) ==
    /\ Fits(b, chunk)
    /\ chunk.index = b.sequence
    /\ b.mime = "wav" \/ b.mime = chunk.mime

Appended(b, chunk) ==
    [b EXCEPT !.chunks = Append(@, chunk), !.mime = chunk.mime,
              !.size = @ + chunk.size, !.sequence = @ + 1]

\* validate_message is called without a count of chunks, so validate_audio_chunk
\* compares its default, 0, with the limit.
ChunkCountValid == 0 < MaxAudioChunks

\* The client speaks; the loop and the handler deal with the chunk, or the rate
\* limiter turns it away.
SendChunk(chunk) ==
    /\ pc = "receive"
    /\ ~ended
    /\ Len(spoken) < MaxChunksPerTurn
    /\ chunk.turn = turn /\ chunk.index = Len(spoken)
    /\ spoken' = Append(spoken, chunk)
    /\ LET b == IF buffer.exists THEN buffer ELSE NewBuffer IN
       \/ "chunk" \in Limited /\ SendError /\ UNCHANGED <<pc, buffer>>
       \/ /\ ChunkCountValid
          /\ IF Accepts(b, chunk)
             THEN buffer' = Appended(b, chunk) /\ UNCHANGED warned
             ELSE buffer' = b /\ SendError
          /\ UNCHANGED pc
    /\ UNCHANGED <<turn, ended, handled, transcripts, answers>>

\* The client sends audio_end, and may send it again if the answer is an error.  A turn
\* begins with its first chunk: an audio_end before that is one of the turn before, if
\* there is a buffer to end.
SendEnd ==
    /\ pc = "receive"
    /\ spoken # <<>> \/ ~buffer.exists
    /\ ended' = TRUE
    /\ UNCHANGED <<turn, spoken, answers>>

EndLimited ==
    /\ SendEnd
    /\ "end" \in Limited
    /\ SendError
    /\ UNCHANGED <<pc, buffer, handled, transcripts>>

\* finalize_buffer: there is no buffer, or nothing in it.
FinalizeFails ==
    /\ SendEnd
    /\ buffer.complete \/ buffer.chunks = <<>>
    /\ SendError
    /\ handled' = handled \cup {turn}
    /\ UNCHANGED <<pc, buffer, transcripts>>

\* AudioEndHandler finalizes the buffer and calls the transcription service.
Finalize ==
    /\ SendEnd
    /\ ~buffer.complete /\ buffer.chunks # <<>>
    /\ pc' = "transcribing"
    /\ buffer' = [buffer EXCEPT !.complete = TRUE]
    /\ transcripts' = transcripts \cup
                        {[turn |-> turn, chunks |-> buffer.chunks, spoken |-> spoken]}
    /\ handled' = handled \cup {turn}
    /\ UNCHANGED warned

\* Mutant of CleanUp: the buffer is marked as open again and not emptied.
CleanUpReopens == buffer' = [buffer EXCEPT !.complete = FALSE, !.sequence = 0]

CleanUp == buffer' = NoBuffer

\* The transcript never becomes a text message: IncomingMessage is a union type,
\* and calling it raises a TypeError, which is answered like a failed transcription.
Transcribed ==
    /\ pc = "transcribing"
    /\ pc' = "receive"
    /\ Answer(TRUE, "error") /\ SendError
    /\ CleanUp
    /\ UNCHANGED <<turn, spoken, ended, handled, transcripts>>

\* transcribe_audio raises: a type it does not support, a request that fails, an error
\* status, or no text.
TranscriptionFails ==
    /\ pc = "transcribing"
    /\ pc' = "receive"
    /\ Answer(FALSE, "error") /\ SendError
    /\ CleanUp
    /\ UNCHANGED <<turn, spoken, ended, handled, transcripts>>

StartTurn ==
    /\ turn < MaxTurns
    /\ turn' = turn + 1
    /\ spoken' = <<>>
    /\ ended' = FALSE
    /\ UNCHANGED <<warned, handled, transcripts, answers>>

\* The client starts another turn on the connection, whatever has become of the last,
\* which it may not have ended.  Nothing on the server takes note of it.
NextTurn ==
    /\ pc = "receive"
    /\ StartTurn
    /\ UNCHANGED <<pc, buffer>>

\* WebSocketDisconnect in the receive loop, or a message that fails validation.
Disconnect ==
    /\ pc = "receive"
    /\ pc' = "closed"
    /\ CleanUp
    /\ UNCHANGED <<turn, spoken, ended, warned, handled, transcripts, answers>>

\* A new connection has an identifier and a buffer of its own.
Reconnect ==
    /\ pc = "closed"
    /\ pc' = "receive"
    /\ StartTurn
    /\ buffer' = NoBuffer

Next ==
    \/ \E chunk \in Chunks : SendChunk(chunk)
    \/ EndLimited \/ FinalizeFails \/ Finalize
    \/ Transcribed \/ TranscriptionFails
    \/ NextTurn \/ Disconnect \/ Reconnect

Spec == Init /\ [][Next]_vars

-----------------------------------------------------------------------------
\* The size of b is the last of the running totals of the sizes of its chunks.
SizeIsTotal(b) ==
    LET n == Len(b.chunks) IN
    \E total \in [0..n -> 0..b.size] :
        /\ total[0] = 0 /\ total[n] = b.size
        /\ \A k \in 1..n : total[k] = total[k - 1] + b.chunks[k].size

InOrder(b) ==
    /\ b.sequence = Len(b.chunks)
    /\ \A k \in 1..Len(b.chunks) : b.chunks[k].index = k - 1
    /\ SizeIsTotal(b)
    /\ \A k \in 1..Len(b.chunks) : b.chunks[k].mime \in {"wav", b.mime}

\* A buffer holds consecutive chunks from number 0 on, whatever was turned away
\* or rejected in between, its size and next number are theirs, and the type no
\* longer changes once it is not WAV.
BufferInOrder == InOrder(buffer)

\* Audio that differs from what the client spoke in the turn is never transcribed
\* unless the client has been sent an error in that turn.
NeverSilentlyWrong ==
    \A t \in transcripts : t.chunks = t.spoken \/ t.turn \in warned

\* Audio of an earlier turn is transcribed with that of a later one ("Audio turns don't
\* mix", says AudioBufferService) only if no audio_end of the earlier one reached the
\* handler: the rate limiter turned it away, or the client gave the recording up.  What
\* is transcribed without such leftovers is the turn from its first chunk on.
MixedOnlyUnended ==
    \A t \in transcripts :
        /\ \A k \in 1..Len(t.chunks) : t.chunks[k].turn \notin handled \ {t.turn}
        /\ \/ IsPrefix(t.chunks, t.spoken)
           \/ \E k \in 1..Len(t.chunks) : t.chunks[k].turn # t.turn

\* "Process as text message" (AudioEndHandler.handle): a transcript is answered
\* as a text message would be.
TranscriptIsProcessed == \A a \in answers : a.transcribed => a.answer = "text"
=============================================================================
