----------------------------- MODULE PullStream -----------------------------
(***************************************************************************)
(* The ReadableStream that guarded-ai.ts of the Vercel connector returns   *)
(* from toDataStream: the platform calls pull when somebody reads or the   *)
(* queue has room, and the handler reads the provider's stream.  A pull    *)
(* that fulfils is followed by another only when the stream asked for one  *)
(* in the meantime, which is when it was read from or enqueued to.         *)
(***************************************************************************)
EXTENDS Naturals

CONSTANT MaxUpstream      \* bound: chunks of the provider's stream

ASSUME PullAssumption == MaxUpstream \in Nat

VARIABLES
  handler,         \* which pull handler
  upstream,        \* chunks the provider will still send
  keeps,           \* chunks the handler has read and not enqueued
  enqueued,        \* chunks enqueued and not read yet
  reading,         \* a read of the application waits
  pulling,         \* the handler runs
  pullAgain,       \* the stream wants another pull after this one
  closed           \* closed or errored

pullVars == <<handler, upstream, keeps, enqueued, reading, pulling, pullAgain, closed>>

PullInit ==
  /\ handler \in {"incremental", "gated", "buffer"} /\ upstream \in 0..MaxUpstream
  /\ keeps = 0 /\ enqueued = 0
  /\ reading = FALSE /\ pulling = TRUE /\ pullAgain = FALSE /\ closed = FALSE
-----------------------------------------------------------------------------
(* The platform's side: WHATWG ReadableStreamDefaultController.             *)

(* CallPullIfNeeded, with the default high-water mark of one chunk.         *)
CallPull(wanted) ==
  IF ~wanted THEN UNCHANGED <<pulling, pullAgain>>
  ELSE IF pulling THEN pullAgain' = TRUE /\ UNCHANGED pulling
  ELSE pulling' = TRUE /\ UNCHANGED pullAgain

(* The application reads, one read at a time.                               *)
Read ==
  /\ ~reading /\ ~(closed /\ enqueued = 0)
  /\ IF enqueued > 0
     THEN enqueued' = enqueued - 1 /\ UNCHANGED reading /\ CallPull(~closed /\ enqueued' = 0)
     ELSE reading' = TRUE /\ UNCHANGED enqueued /\ CallPull(~closed)
  /\ UNCHANGED <<handler, upstream, keeps, closed>>

(* n chunks are enqueued, the first for a waiting read, and the handler's   *)
(* promise fulfils: an enqueue that leaves room asks for another pull.      *)
FulfilWith(n) ==
  LET left == IF reading THEN enqueued + n - 1 ELSE enqueued + n IN
  /\ enqueued' = left /\ reading' = FALSE
  /\ pulling' = (left = 0) /\ pullAgain' = FALSE
  /\ UNCHANGED closed

(* It fulfils without an enqueue: only a read since it began counts.        *)
FulfilEmpty ==
  /\ pulling' = (pullAgain /\ (reading \/ enqueued = 0)) /\ pullAgain' = FALSE
  /\ UNCHANGED <<enqueued, reading, closed>>

Settles ==
  /\ closed' = TRUE /\ reading' = FALSE
  /\ pulling' = FALSE /\ pullAgain' = FALSE

(* n chunks are enqueued and the stream is closed; what is queued can still *)
(* be read.                                                                 *)
CloseWith(n) ==
  /\ Settles
  /\ enqueued' = IF reading /\ n > 0 THEN enqueued + n - 1 ELSE enqueued + n

(* The handler's promise rejects, which empties the queue.                  *)
Rejects == Settles /\ enqueued' = 0
-----------------------------------------------------------------------------
(* The handlers.                                                            *)

(* incremental: a chunk is enqueued, or refused with an error.              *)
PullIncremental ==
  /\ handler = "incremental"
  /\ \/ /\ upstream > 0 /\ upstream' = upstream - 1
        /\ FulfilWith(1)
     \/ /\ upstream > 0 /\ upstream' = upstream - 1 /\ Rejects
     \/ /\ upstream = 0 /\ UNCHANGED upstream
        /\ \E notice \in {0, 1} : CloseWith(notice)
  /\ UNCHANGED keeps

(* Mutant: a pull that fulfils when the gate holds the chunk.               *)
PullGatedOnce ==
  /\ handler = "gated"
  /\ \/ /\ upstream > 0 /\ upstream' = upstream - 1
        /\ \/ keeps' = keeps + 1 /\ FulfilEmpty
           \/ FulfilWith(keeps + 1) /\ keeps' = 0
           \/ CloseWith(1) /\ keeps' = 0
           \/ Rejects /\ keeps' = 0
     \/ /\ upstream = 0 /\ UNCHANGED upstream
        /\ \E n \in {1, keeps} : CloseWith(n)
        /\ keeps' = 0

(* gated: it reads on until the gate releases something, refuses or ends.   *)
PullGated ==
  /\ handler = "gated"
  /\ \/ /\ upstream > 0 /\ upstream' = upstream - 1
        /\ \/ keeps' = keeps + 1 /\ UNCHANGED <<enqueued, reading, pulling, pullAgain, closed>>
           \/ FulfilWith(keeps + 1) /\ keeps' = 0
           \/ CloseWith(1) /\ keeps' = 0
           \/ Rejects /\ keeps' = 0
     \/ /\ upstream = 0 /\ UNCHANGED upstream
        /\ \E n \in {1, keeps} : CloseWith(n)
        /\ keeps' = 0

(* buffer: a chunk is kept; all are enqueued, or a notice, at the end.      *)
PullBuffer ==
  /\ handler = "buffer"
  /\ \/ /\ upstream > 0 /\ upstream' = upstream - 1
        /\ \/ keeps' = keeps + 1 /\ FulfilEmpty
           \/ Rejects /\ keeps' = 0
     \/ /\ upstream = 0 /\ UNCHANGED upstream
        /\ \E n \in {1, keeps} : CloseWith(n)
        /\ keeps' = 0

Pull ==
  /\ pulling
  /\ PullIncremental \/ PullGated \/ PullBuffer
  /\ UNCHANGED handler

PullNext == Read \/ Pull

PullSpec == PullInit /\ [][PullNext]_pullVars
-----------------------------------------------------------------------------
(* While a read waits, a pull is on its way: the incremental handler and    *)
(* the gated one enqueue or close with every pull that fulfils.             *)
ReaderIsServed == reading /\ handler # "buffer" => pulling

(* guarded-ai.ts:324-328: "Each pull MUST enqueue >= 1 chunk or close", or  *)
(* a consumer with a single read outstanding waits for ever.                *)
EveryReaderIsServed == reading => pulling
=============================================================================
