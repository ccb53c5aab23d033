---------------------------- MODULE VoiceStreams ----------------------------
(***************************************************************************)
(* The Twilio Voice adapter (glc/channels/catalogue/twilio_voice).  One    *)
(* adapter serves every call: a call rings by a webhook, its answer opens  *)
(* a media stream that carries the caller's number back, and the frames of *)
(* all streams meet in two dictionaries keyed by streamSid.  What one      *)
(* stream's socket brings is handled in order; a transcription is awaited, *)
(* and the frames of the other streams come in between.                    *)
(***************************************************************************)
EXTENDS Integers, Sequences

CONSTANTS Streams, Caller, \* media streams, and who called on each
          BufferCap,       \* max_buffer_bytes, in frames
          MaxFrames        \* bound: frames of a stream

ASSUME VoiceAssumption ==
  BufferCap \in Nat \ {0} /\ MaxFrames \in Nat /\ "unnamed" \notin Streams

VARIABLES buffer_audio,    \* the adapter's configuration
          line,            \* where a call is
          parameter,       \* the caller in the TwiML that answered the call
          stream_callers, stream_buffers,
          speaking,        \* audio of a stream's socket that is being transcribed
          said,            \* history: a stream's frames, TRUE if they named it
          heard            \* history: the frames in the envelopes of a stream's
                           \* socket, each with the caller it was ascribed to

voiceVars == <<buffer_audio, line, parameter, stream_callers, stream_buffers, speaking,
               said, heard>>

NoOne == "no one"
Unnamed == "unnamed"           \* the key of frames without a streamSid
Keys == Streams \cup {Unnamed}
Silence == [who |-> NoOne, frames |-> <<>>]

VoiceInit ==
  /\ buffer_audio \in BOOLEAN
  /\ line = [s \in Streams |-> "new"] /\ parameter = [s \in Streams |-> NoOne]
  /\ stream_callers = [k \in Keys |-> NoOne]
  /\ stream_buffers = [k \in Keys |-> <<>>]
  /\ speaking = [s \in Streams |-> Silence]
  /\ said = [s \in Streams |-> <<>>] /\ heard = [s \in Streams |-> <<>>]

(* The call webhook; its envelope has the caller and no text.              *)
Rings(s) ==
  /\ line[s] = "new" /\ line' = [line EXCEPT ![s] = "ringing"]
  /\ UNCHANGED <<buffer_audio, parameter, stream_callers, stream_buffers, speaking, said, heard>>

(* send, paired or not: the TwiML names whom the reply is for, the caller. *)
TwimlCaller(s) == Caller[s]

CallAnswered(s) ==
  /\ line[s] = "ringing" /\ line' = [line EXCEPT ![s] = "connected"]
  /\ parameter' = [parameter EXCEPT ![s] = TwimlCaller(s)]
  /\ UNCHANGED <<buffer_audio, stream_callers, stream_buffers, speaking, said, heard>>

(* The start frame echoes the parameter.                                   *)
StreamStart(s) ==
  /\ line[s] = "connected" /\ line' = [line EXCEPT ![s] = "open"]
  /\ stream_callers' = [stream_callers EXCEPT ![s] = parameter[s]]
  /\ UNCHANGED <<buffer_audio, parameter, stream_buffers, speaking, said, heard>>

(* Mutant: one caller for the adapter, the one whose stream began last.    *)
LastCaller(k) ==
  IF \E s \in Streams : stream_callers[s] # NoOne
  THEN stream_callers[CHOOSE s \in Streams : stream_callers[s] # NoOne] ELSE NoOne

(* The registry is read when the audio is taken, before it is transcribed. *)
CallerOf(k) == stream_callers[k]

(* mulaw_to_wav, the artifact, and the transcription of frames under k.    *)
Transcribes(s, k, frames) ==
  speaking' = [speaking EXCEPT ![s] = [who |-> CallerOf(k), frames |-> frames]]

(* One frame per transcription.                                            *)
MediaFrame(s, k, frame) ==
  /\ ~buffer_audio
  /\ Transcribes(s, k, <<frame>>)
  /\ line' = [line EXCEPT ![s] = "transcribing"]
  /\ UNCHANGED stream_buffers

(* A frame joins its key's buffer; one that fills it takes it along.       *)
BufferedFrame(s, k, frame) ==
  LET audio == Append(stream_buffers[k], frame) IN
  /\ buffer_audio
  /\ IF Len(audio) < BufferCap
     THEN /\ stream_buffers' = [stream_buffers EXCEPT ![k] = audio]
          /\ UNCHANGED <<speaking, line>>
     ELSE /\ stream_buffers' = [stream_buffers EXCEPT ![k] = <<>>]
          /\ Transcribes(s, k, audio)
          /\ line' = [line EXCEPT ![s] = "transcribing"]

Media(s) ==
  /\ line[s] = "open" /\ Len(said[s]) < MaxFrames
  /\ \E named \in BOOLEAN :
       LET k == IF named THEN s ELSE Unnamed
           frame == [of |-> s, n |-> Len(said[s]) + 1, named |-> named]
       IN /\ said' = [said EXCEPT ![s] = Append(@, named)]
          /\ MediaFrame(s, k, frame) \/ BufferedFrame(s, k, frame)
  /\ UNCHANGED <<buffer_audio, parameter, stream_callers, heard>>

(* The stop frame: what is buffered is transcribed before the caller is    *)
(* forgotten; without any, both entries go at once.                        *)
StopFlushes(s) ==
  /\ line[s] = "open" /\ buffer_audio /\ stream_buffers[s] # <<>>
  /\ Transcribes(s, s, stream_buffers[s])
  /\ stream_buffers' = [stream_buffers EXCEPT ![s] = <<>>]
  /\ line' = [line EXCEPT ![s] = "stopping"]
  /\ UNCHANGED <<buffer_audio, parameter, stream_callers, said, heard>>

StopForgets(s) ==
  /\ line[s] = "open" /\ ~(buffer_audio /\ stream_buffers[s] # <<>>)
  /\ stream_buffers' = [stream_buffers EXCEPT ![s] = <<>>]
  /\ stream_callers' = [stream_callers EXCEPT ![s] = NoOne]
  /\ line' = [line EXCEPT ![s] = "closed"]
  /\ UNCHANGED <<buffer_audio, parameter, speaking, said, heard>>

(* The envelope, with a transcript or the reason why there is none.  After *)
(* a stop, the caller is evicted.                                          *)
Transcribed(s) ==
  LET audio == speaking[s] IN
  /\ line[s] \in {"transcribing", "stopping"}
  /\ heard' = [heard EXCEPT ![s] =
       @ \o [i \in DOMAIN audio.frames |-> [frame |-> audio.frames[i], who |-> audio.who]]]
  /\ speaking' = [speaking EXCEPT ![s] = Silence]
  /\ IF line[s] = "stopping"
     THEN /\ stream_callers' = [stream_callers EXCEPT ![s] = NoOne]
          /\ line' = [line EXCEPT ![s] = "closed"]
     ELSE /\ line' = [line EXCEPT ![s] = "open"]
          /\ UNCHANGED stream_callers
  /\ UNCHANGED <<buffer_audio, parameter, stream_buffers, said>>

(* The stream ends without a stop frame.                                   *)
HangsUp(s) ==
  /\ line[s] = "open" /\ line' = [line EXCEPT ![s] = "lost"]
  /\ UNCHANGED <<buffer_audio, parameter, stream_callers, stream_buffers, speaking, said, heard>>

VoiceNext ==
  \E s \in Streams : \/ Rings(s) \/ CallAnswered(s) \/ StreamStart(s) \/ Media(s)
                     \/ StopFlushes(s) \/ StopForgets(s) \/ Transcribed(s) \/ HangsUp(s)

----------------------------------------------------------------------------
(* No envelope ascribes to a caller what came on another one's stream.     *)
NoMixedVoices ==
  \A s \in Streams : \A i \in DOMAIN heard[s] :
    heard[s][i].who \in {NoOne, Caller[heard[s][i].frame.of]}

(* Where the envelopes of t's socket have frames that named s.             *)
NamedFrames(s, t) == {i \in DOMAIN heard[t] : heard[t][i].frame.of = s /\ heard[t][i].frame.named}

(* Of a stream that stopped, every frame that named it was heard once, in  *)
(* order and as its caller's, and nothing of it is kept.                   *)
StoppedIsHeard ==
  \A s \in Streams : line[s] = "closed" =>
    /\ stream_callers[s] = NoOne /\ stream_buffers[s] = <<>>
    /\ \A i \in NamedFrames(s, s) : heard[s][i].who = Caller[s]
    /\ \A i, j \in NamedFrames(s, s) : i < j => heard[s][i].frame.n < heard[s][j].frame.n
    /\ {heard[s][i].frame.n : i \in NamedFrames(s, s)} = {n \in DOMAIN said[s] : said[s][n]}
    /\ \A t \in Streams \ {s} : NamedFrames(s, t) = {}

(***************************************************************************)
(* Whatever the streams of other calls do while a transcription is         *)
(* awaited, speech is its caller's: frames are neither mixed, lost,        *)
(* repeated nor reordered, and a stopped stream leaves nothing behind.     *)
(***************************************************************************)
SpeechIsItsCallers == NoMixedVoices /\ StoppedIsHeard
=============================================================================
