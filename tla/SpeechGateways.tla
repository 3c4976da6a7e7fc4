--------------------------- MODULE SpeechGateways ---------------------------
(***************************************************************************)
(* The two gateways of speech, threads over one model each.                *)
(*                                                                         *)
(* The speech recognition gateway (lumina_next/stt_gateway.py): a thread   *)
(* per request over one recognizer, which is bound to a language when it   *)
(* is made and replaced, under the lock, when a request asks for another.  *)
(* Whether the recognizer is there is asked before the lock is taken.      *)
(*                                                                         *)
(* A clip is the sounds between its silences; a sound that is a voice need *)
(* not be words.  The recognizer and the voice detector are external: they *)
(* are what they do to such clips.  The decoding of audio files and the    *)
(* cleaning of a text are the flaws they may find and nothing more.        *)
(***************************************************************************)
EXTENDS Integers, Sequences, FiniteSets, SequencesExt, FiniteSetsExt, Absent

CONSTANTS
    Callers,           \* the handler threads
    Recordings,        \* the requests: their flaws, language (None: not given) and clip
    HomeLanguage,      \* settings.language
    Coalesces,         \* LUMINA_STT_COALESCE_SEGMENTS
    ShortSpeech,       \* 0.35 s of speech: less, and the whole clip is decoded
    MaxPiece, MaxMerged  \* COALESCE_MAX_PIECE_SAMPLES, COALESCE_MAX_MERGED_SAMPLES

VARIABLES
    recognizer,        \* _recognizer: the language it is bound to
    activeLanguage,    \* _active_language
    sttBroken,         \* whether _error is set
    sttLock,           \* _lock: who holds it
    hearing               \* what each caller is at

sttVars == <<recognizer, activeLanguage, sttBroken, sttLock, hearing>>

IdleCall == [at |-> "idle", take |-> None, late |-> FALSE, prior |-> None, left |-> <<>>,
             texts |-> <<>>, status |-> 0, text |-> <<>>]

-----------------------------------------------------------------------------
(* Waveforms and texts: sequences of sounds, of decoded words              *)

\* The checks of do_POST, parse_multipart, decode_audio and decode_wav in their order.
RequestChecks ==
    << <<"no_length", 411>>, <<"empty_body", 400>>, <<"large_body", 413>>, <<"truncated", 400>>,
       <<"no_file", 400>>, <<"bad_format", 400>>, <<"empty_audio", 400>>, <<"large_audio", 413>>,
       <<"other_rate", 415>>, <<"too_long", 413>>, <<"undecodable", 415>>, <<"bad_language", 400>> >>

Refusals(take) == SelectSeq(RequestChecks, LAMBDA check : check[1] \in take.flaws)
LanguageOf(take) == IF take.language = None THEN HomeLanguage ELSE take.language

Length(wave) == FoldLeft(LAMBDA sum, sound : sum + sound.length, 0, wave)

\* The voice detector: each voice between two silences is a segment; a faint word is none.
SpeechSegments(clip) ==
    LET voices == SelectSeq(clip, LAMBDA sound : sound.voice)
    IN [i \in DOMAIN voices |-> <<voices[i]>>]

\* coalesce_speech_segments: short pieces are joined up to a length.
Merges(held, piece) ==
    Length(held) =< MaxPiece /\ Length(piece) =< MaxPiece /\ Length(held) + Length(piece) =< MaxMerged
Coalesced(segments) ==
    FoldLeft(LAMBDA out, piece : IF out # <<>> /\ Merges(Last(out), piece)
                                   THEN Front(out) \o <<Last(out) \o piece>>
                                   ELSE Append(out, piece),
             <<>>, segments)

\* What transcribe hands to the recognizer.
Pieces(clip) ==
    LET segments == SpeechSegments(clip)
    IN CASE Length(FlattenSeq(segments)) < ShortSpeech -> <<clip>>
         [] Coalesces -> Coalesced(segments)
         [] OTHER -> segments

\* The recognizer: the words of a waveform, told in the language it is bound to.
Decoded(language, wave) ==
    LET spoken == SelectSeq(wave, LAMBDA sound : sound.word # "")
    IN [i \in DOMAIN spoken |-> [word |-> spoken[i].word, told |-> language, japanese |-> spoken[i].japanese]]

\* join_transcript_segments: a new line between two Japanese texts, else a space.
IsJapanese(text) == \E i \in DOMAIN text : text[i].japanese
Boundary(text, next) ==
    [word |-> IF IsJapanese(text) /\ IsJapanese(next) THEN "\n" ELSE " ", told |-> None, japanese |-> FALSE]
JoinedUp(texts) ==
    FoldLeftDomain(LAMBDA text, i : (IF i = 1 THEN <<>> ELSE Append(text, Boundary(texts[i - 1], texts[i]))) \o texts[i],
                   <<>>, texts)
WordsOf(text) == SelectSeq(text, LAMBDA token : token.told # None)

-----------------------------------------------------------------------------
(* A request                                                               *)

Keep == UNCHANGED <<recognizer, activeLanguage, sttBroken>>
CallGoes(c, place) == hearing' = [hearing EXCEPT ![c].at = place]
CallEnds(c, status) ==
    hearing' = [hearing EXCEPT ![c].at = "answered", ![c].status = status, ![c].left = <<>>]
LetGo(c, status) == CallEnds(c, status) /\ sttLock' = None

Post(c) ==
    /\ hearing[c].at \in {"idle", "answered"}
    /\ \E take \in Recordings :
          hearing' = [hearing EXCEPT ![c] = [IdleCall EXCEPT
             !.take = take, !.at = IF Refusals(take) = <<>> THEN "accepted" ELSE "answered",
             !.status = IF Refusals(take) = <<>> THEN 0 ELSE Head(Refusals(take))[2]]]
    /\ UNCHANGED sttLock /\ Keep

\* The checks of transcribe, before the lock.
AskRuntime(c) ==
    /\ hearing[c].at = "accepted"
    /\ CASE sttBroken \/ recognizer = None -> CallEnds(c, 503)
         [] hearing[c].take.clip = <<>> -> CallEnds(c, 400)
         [] OTHER -> CallGoes(c, "queued")
    /\ UNCHANGED sttLock /\ Keep

\* The deadline is counted from before the lock.
DeadlinePasses(c) ==
    /\ hearing[c].at \in {"queued", "selecting", "creating", "restoring", "cutting", "decoding"} /\ ~hearing[c].late
    /\ hearing' = [hearing EXCEPT ![c].late = TRUE]
    /\ UNCHANGED sttLock /\ Keep

TakeLock(c) ==
    /\ hearing[c].at = "queued" /\ sttLock = None
    /\ sttLock' = c
    /\ CallGoes(c, "selecting") /\ Keep

\* _select_language_locked: the resident recognizer is dropped before another is made.
SelectLanguage(c) ==
    /\ hearing[c].at = "selecting"
    /\ IF recognizer # None /\ LanguageOf(hearing[c].take) = activeLanguage
         THEN CallGoes(c, "cutting") /\ Keep
         ELSE /\ hearing' = [hearing EXCEPT ![c].at = "creating", ![c].prior = activeLanguage]
              /\ recognizer' = None /\ activeLanguage' = None
              /\ UNCHANGED sttBroken
    /\ UNCHANGED sttLock

Bound(language) == recognizer' = language /\ activeLanguage' = language /\ sttBroken' = FALSE

CreateRequested(c) ==
    /\ hearing[c].at = "creating"
    /\ Bound(LanguageOf(hearing[c].take)) /\ CallGoes(c, "cutting")
    /\ UNCHANGED sttLock

CreateFails(c) ==
    /\ hearing[c].at = "creating"
    /\ IF hearing[c].prior # None
         THEN CallGoes(c, "restoring") /\ UNCHANGED <<sttLock, sttBroken>>
         ELSE LetGo(c, 503) /\ sttBroken' = TRUE
    /\ UNCHANGED <<recognizer, activeLanguage>>

RestorePrior(c) ==
    /\ hearing[c].at = "restoring"
    /\ Bound(hearing[c].prior) /\ LetGo(c, 503)

RestoreFails(c) ==
    /\ hearing[c].at = "restoring"
    /\ recognizer' = None /\ activeLanguage' = None /\ sttBroken' = TRUE
    /\ LetGo(c, 503)

\* The recognizer never runs over a clip without speech.
CutSpeech(c) ==
    /\ hearing[c].at = "cutting"
    /\ IF SpeechSegments(hearing[c].take.clip) = <<>>
         THEN LetGo(c, 422)
         ELSE /\ hearing' = [hearing EXCEPT ![c].at = "decoding", ![c].left = Pieces(hearing[c].take.clip)]
              /\ UNCHANGED sttLock
    /\ Keep

DecodePiece(c) ==
    /\ hearing[c].at = "decoding" /\ hearing[c].left # <<>>
    /\ IF hearing[c].late
         THEN LetGo(c, 504)
         ELSE LET text == Decoded(recognizer, Head(hearing[c].left))
              IN /\ hearing' = [hearing EXCEPT ![c].left = Tail(@),
                                                ![c].texts = IF text = <<>> THEN @ ELSE Append(@, text)]
                 /\ UNCHANGED sttLock
    /\ Keep

Transcribe(c) ==
    /\ hearing[c].at = "decoding" /\ hearing[c].left = <<>>
    /\ LET text == JoinedUp(hearing[c].texts)
       IN hearing' = [hearing EXCEPT ![c].at = "answered", ![c].text = text,
                                     ![c].status = IF text = <<>> THEN 422 ELSE 200]
    /\ sttLock' = None
    /\ Keep

-----------------------------------------------------------------------------
\* SenseVoiceRuntime.__init__: _load bound the recognizer to the language of the settings, or failed.
TranscriptionInit ==
    /\ recognizer = HomeLanguage /\ activeLanguage = HomeLanguage /\ sttBroken = FALSE
    /\ sttLock = None
    /\ hearing = [c \in Callers |-> IdleCall]

TranscriptionNext ==
    \E c \in Callers :
       \/ Post(c) \/ AskRuntime(c) \/ DeadlinePasses(c) \/ TakeLock(c)
       \/ SelectLanguage(c) \/ CreateRequested(c) \/ CreateFails(c) \/ RestorePrior(c) \/ RestoreFails(c)
       \/ CutSpeech(c) \/ DecodePiece(c) \/ Transcribe(c)

TranscriptionSpec == TranscriptionInit /\ [][TranscriptionNext]_sttVars

-----------------------------------------------------------------------------
Holding == {"selecting", "creating", "restoring", "cutting", "decoding"}

\* The lock is held by the one caller that is inside it.
TranscriptionTypeOK ==
    /\ activeLanguage = recognizer /\ sttBroken \in BOOLEAN
    /\ \A c \in Callers : (sttLock = c) <=> (hearing[c].at \in Holding)

\* A caller that is told that the runtime is healthy finds a recognizer when nobody is inside:
\* a failed change of language puts back the language there was, or says that it is broken.
HealthyMeansLoaded == sttLock = None => (sttBroken <=> recognizer = None)

\* transcribe: the words of an answer were all told by a recognizer of the language that was
\* asked for, whichever languages other callers asked for meanwhile.
ToldAsAsked ==
    \A c \in Callers : \A i \in DOMAIN hearing[c].texts : \A j \in DOMAIN hearing[c].texts[i] :
       hearing[c].texts[i][j].told = LanguageOf(hearing[c].take)

\* transcribe: every word that a voice said is in the answer, once and in order, however the
\* speech was cut and joined, nothing that was not said is, and nobody is told that nothing was
\* said when words were.
NothingIsUnheard ==
    \A c \in Callers : hearing[c].at = "answered" /\ hearing[c].status \in {200, 422} =>
       LET clip == hearing[c].take.clip
       IN WordsOf(hearing[c].text) \in {Decoded(LanguageOf(hearing[c].take), said) :
                                       said \in {clip, FlattenSeq(SpeechSegments(clip))}}

-----------------------------------------------------------------------------
(***************************************************************************)
(* The speech synthesis gateway (lumina_next/kokoro_tts_gateway.py): a     *)
(* thread per request over one model, loaded by the first that needs it.   *)
(* A text is cut into chunks and a lock is held for each chunk alone, so   *)
(* the chunks of two requests interleave.  A whole answer is refused when  *)
(* the model changes its sample rate; a stream sends each chunk at once.   *)
(*                                                                         *)
(* A text is a sequence of characters of four kinds.  The model is         *)
(* external: it answers a rate, raises, or returns what cannot be used.    *)
(* Samples, mouth shapes and headers are left out.                         *)
(***************************************************************************)
CONSTANTS
    Speakers,         \* the handler threads
    Orders,           \* the requests: kind ("whole", "stream" or "health"), text; the text may be None: not valid
    ChunkChars,       \* settings.chunk_chars
    LeastCut,         \* 20: an earlier mark is no place to cut
    SampleRates       \* what the model may return

\* None is no thread and no outcome, and the settings name a language.
ASSUME SpeechAssumption == None \notin Callers \cup Speakers \cup {HomeLanguage, "ok"}

VARIABLES
    voiceFiles,       \* whether the model's files exist
    voiceModel,       \* whether _model is set
    loads,            \* how many models were made
    ttsError,         \* whether _error is set
    loadLock, synthesisLock,  \* who holds _load_lock and _synthesis_lock
    speech            \* what each thread is at

ttsVars == <<voiceFiles, voiceModel, loads, ttsError, loadLock, synthesisLock, speech>>

IdleSpeech == [at |-> "idle", order |-> None, chunks |-> <<>>, sent |-> <<>>, outcome |-> None]

-----------------------------------------------------------------------------
(* split_text_chunks                                                       *)

FullStop == "."
SoftMark == ","
Blank == " "

Stripped(text) ==
    LET inked == {i \in DOMAIN text : text[i] # Blank}
    IN IF inked = {} THEN <<>> ELSE SubSeq(text, Min(inked), Max(inked))

\* strip and split: one blank between words.
Normalized(text) ==
    LET bare == Stripped(text)
    IN FoldLeft(LAMBDA out, char : IF char = Blank /\ Last(out) = Blank THEN out ELSE Append(out, char), <<>>, bare)

\* A sentence ends after each stop.
Sentences(text) ==
    LET cut == FoldLeft(LAMBDA out, char : IF out = <<>> \/ Last(Last(out)) = FullStop
                                             THEN Append(out, <<char>>)
                                             ELSE Front(out) \o <<Append(Last(out), char)>>,
                        <<>>, text)
    IN SelectSeq([i \in DOMAIN cut |-> Stripped(cut[i])], LAMBDA sentence : sentence # <<>>)

\* How many characters are cut off a sentence that is too long: up to and with its last soft
\* mark, or up to its last blank, looked for among the first ChunkChars + 1.
CutAt(sentence) ==
    LET marks == {i \in 1..(ChunkChars + 1) : sentence[i] \in {SoftMark, Blank}}
        last == IF marks # {} /\ Max(marks) - 1 >= LeastCut THEN Max(marks) ELSE ChunkChars + 1
    IN IF sentence[last] = SoftMark THEN last ELSE last - 1

CutSentence(sentence) ==
    LET cut == FoldLeft(LAMBDA s, i : IF Len(s.rest) > ChunkChars
                                        THEN LET end == CutAt(s.rest)
                                             IN [pieces |-> Append(s.pieces, Stripped(SubSeq(s.rest, 1, end))),
                                                 rest |-> Stripped(SubSeq(s.rest, end + 1, Len(s.rest)))]
                                        ELSE s,
                        [pieces |-> <<>>, rest |-> sentence], sentence)
    IN SelectSeq(Append(cut.pieces, cut.rest), LAMBDA piece : piece # <<>>)

SplitTextChunks(text) ==
    FlattenSeq([i \in DOMAIN Sentences(Normalized(text)) |-> CutSentence(Sentences(Normalized(text))[i])])

-----------------------------------------------------------------------------
(* A request                                                               *)

Engine == <<voiceFiles, voiceModel, loads, ttsError>>
Locks == <<loadLock, synthesisLock>>
SpeakingGoes(c, place) == speech' = [speech EXCEPT ![c].at = place]
SpeakingEnds(c, outcome) == speech' = [speech EXCEPT ![c].at = "ended", ![c].outcome = outcome]

\* _request_text refuses what is no text and what is blank.
HasText(order) == order.text # None /\ Stripped(order.text) # <<>>

\* _request_text and _synthesis_options; the first event of a stream.
Order(c) ==
    /\ speech[c].at \in {"idle", "ended"}
    /\ \E order \in Orders :
          speech' = [speech EXCEPT ![c] =
             IF HasText(order)
               THEN [IdleSpeech EXCEPT !.at = "loading", !.order = order, !.chunks = SplitTextChunks(order.text)]
               ELSE [IdleSpeech EXCEPT !.at = "ended", !.order = order, !.outcome = "invalid"]]
    /\ UNCHANGED Engine /\ UNCHANGED Locks

\* What follows when the model is there, and when it is not.
HasModel(c) ==
    IF speech[c].order.kind = "health" THEN SpeakingEnds(c, "ok") ELSE SpeakingGoes(c, "queued")
HasNoModel(c) == SpeakingEnds(c, "unavailable")

\* _load: without the lock when the model is there.
FindModel(c) ==
    /\ speech[c].at = "loading" /\ voiceModel
    /\ HasModel(c)
    /\ UNCHANGED Engine /\ UNCHANGED Locks

TakeLoadLock(c) ==
    /\ speech[c].at = "locking" /\ loadLock = None
    /\ loadLock' = c
    /\ SpeakingGoes(c, "making")
    /\ UNCHANGED Engine /\ UNCHANGED synthesisLock

MissModel(c) ==
    /\ speech[c].at = "loading" /\ ~voiceModel
    /\ SpeakingGoes(c, "locking")
    /\ UNCHANGED Engine /\ UNCHANGED Locks

\* Under the lock the model is looked for again, then made, which may fail.
MakeModel(c) ==
    /\ speech[c].at = "making"
    /\ \/ voiceModel /\ HasModel(c) /\ UNCHANGED Engine
       \/ /\ ~voiceModel /\ voiceFiles
          /\ voiceModel' = TRUE /\ loads' = loads + 1 /\ ttsError' = FALSE
          /\ HasModel(c) /\ UNCHANGED voiceFiles
       \/ /\ ~voiceModel
          /\ ttsError' = TRUE
          /\ HasNoModel(c) /\ UNCHANGED <<voiceFiles, voiceModel, loads>>
    /\ loadLock' = None
    /\ UNCHANGED synthesisLock

TakeSynthesisLock(c) ==
    /\ speech[c].at = "queued" /\ synthesisLock = None
    /\ synthesisLock' = c
    /\ SpeakingGoes(c, "speaking")
    /\ UNCHANGED Engine /\ UNCHANGED loadLock

\* The next chunk is asked for until there is none.
Sounds(c, rate) ==
    LET sent == Append(speech[c].sent, [text |-> speech[c].chunks[Len(speech[c].sent) + 1], rate |-> rate])
    IN IF speech[c].order.kind = "whole" /\ \E i \in DOMAIN sent : sent[i].rate # rate
         THEN SpeakingEnds(c, "unavailable")
         ELSE IF Len(sent) = Len(speech[c].chunks)
         THEN speech' = [speech EXCEPT ![c].at = "ended", ![c].sent = sent, ![c].outcome = "ok"]
         ELSE speech' = [speech EXCEPT ![c].at = "loading", ![c].sent = sent]

\* synthesize: what the model raises is kept in _error; what cannot be used is not.
SynthesizeChunk(c) ==
    /\ speech[c].at = "speaking"
    /\ \/ (\E rate \in SampleRates : Sounds(c, rate)) /\ UNCHANGED ttsError
       \/ HasNoModel(c) /\ ttsError' = TRUE
       \/ HasNoModel(c) /\ UNCHANGED ttsError
    /\ synthesisLock' = None
    /\ UNCHANGED <<voiceFiles, voiceModel, loads, loadLock>>

\* The listener of a stream is gone when the next event is written.
HangUp(c) ==
    /\ speech[c].at = "loading" /\ speech[c].order.kind = "stream"
    /\ SpeakingEnds(c, "gone")
    /\ UNCHANGED Engine /\ UNCHANGED Locks

\* The operator puts the files there.
Install ==
    /\ ~voiceFiles
    /\ voiceFiles' = TRUE
    /\ UNCHANGED <<voiceModel, loads, ttsError, speech>> /\ UNCHANGED Locks

-----------------------------------------------------------------------------
SynthesisInit ==
    /\ voiceFiles = FALSE /\ voiceModel = FALSE /\ loads = 0 /\ ttsError = FALSE
    /\ loadLock = None /\ synthesisLock = None
    /\ speech = [c \in Speakers |-> IdleSpeech]

SynthesisNext ==
    \/ Install
    \/ \E c \in Speakers :
          \/ Order(c) \/ FindModel(c) \/ MissModel(c) \/ TakeLoadLock(c) \/ MakeModel(c)
          \/ TakeSynthesisLock(c) \/ SynthesizeChunk(c) \/ HangUp(c)

SynthesisSpec == SynthesisInit /\ [][SynthesisNext]_ttsVars

-----------------------------------------------------------------------------
\* Each lock is held by the one thread that is inside it.
SynthesisTypeOK ==
    /\ <<voiceFiles, voiceModel, ttsError>> \in BOOLEAN \X BOOLEAN \X BOOLEAN
    /\ \A c \in Speakers : /\ (loadLock = c) <=> (speech[c].at = "making")
                           /\ (synthesisLock = c) <=> (speech[c].at = "speaking")

\* _load: however many need it at once, the model is made once, from files that exist.
OneVoiceIsMade == loads = (IF voiceModel THEN 1 ELSE 0) /\ (voiceModel => voiceFiles)

\* split_text_chunks: nothing of the text but blanks is lost, no chunk is empty or goes on
\* after a stop, and none is longer than the limit but by the mark it ends with.
Inked(text) == SelectSeq(text, LAMBDA char : char # Blank)
ChunksKeepTheText ==
    \A c \in Speakers : speech[c].at # "idle" /\ speech[c].order.text # None =>
       LET chunks == speech[c].chunks
       IN /\ Inked(FlattenSeq(chunks)) = Inked(speech[c].order.text)
          /\ \A i \in DOMAIN chunks :
                /\ chunks[i] # <<>> /\ FullStop \notin {chunks[i][j] : j \in 1..(Len(chunks[i]) - 1)}
                /\ Len(chunks[i]) =< ChunkChars + (IF Last(chunks[i]) = SoftMark THEN 1 ELSE 0)

\* synthesize_payload, iter_stream_payload: what a thread has said is its own text from the
\* beginning, in order, whatever other threads say meanwhile; an answer that is ok says all of
\* it, and a whole one at one rate.
SpokenWhole ==
    \A c \in Speakers :
       LET s == speech[c] IN
       /\ \A i \in DOMAIN s.sent : s.sent[i].text = s.chunks[i]
       /\ s.outcome = "ok" /\ s.order.kind # "health" =>
             /\ Len(s.sent) = Len(s.chunks)
             /\ s.order.kind = "whole" => Cardinality({s.sent[i].rate : i \in DOMAIN s.sent}) = 1
=============================================================================
