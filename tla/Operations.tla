----------------------------- MODULE Operations -----------------------------
(***************************************************************************)
(* The health check and the shutdown of the API process around its one     *)
(* Redis client.  The client connects with its first command, retries for  *)
(* ever, and keeps what it cannot send: maxRetriesPerRequest is null, so a *)
(* ping that lost its race against the timer stays queued behind it.       *)
(*                                                                         *)
(* ioredis is external.  While offline it resolves a quit at once if it    *)
(* has nothing queued, and queues it otherwise; a connection that is lost  *)
(* after a quit was sent is not opened again.                              *)
(***************************************************************************)
EXTENDS SequencesExt

CONSTANT Checks   \* the health checks ever requested (a bound)

VARIABLES
    link,        \* the client: wait (lazyConnect), offline, ready, end
    queued,      \* its offline queue, in order: pings, by check, and the quit
    sent,        \* commands sent and not answered, in order
    database,    \* per check: none, up or down
    redis,       \* per check: the race's outcome: none, up or down
    checkPc,     \* per check: idle, racing, done
    phase,       \* the process: running, closing, ended
    quit,        \* RedisService.onModuleDestroy: none, waiting, settled, rejected
    disconnected \* PrismaService.onModuleDestroy has fulfilled

checkVars == <<database, redis, checkPc>>
shutdownVars == <<phase, quit, disconnected>>
vars == <<link, queued, sent, checkVars, shutdownVars>>

Quit == "quit"

-----------------------------------------------------------------------------
(* GET /health.                                                            *)

\* HealthController.check starts both; RedisService.ping starts ping and timer.
Check(k) ==
    /\ phase # "ended"
    /\ checkPc[k] = "idle"
    /\ checkPc' = [checkPc EXCEPT ![k] = "racing"]
    /\ sent' = IF link = "ready" THEN Append(sent, k) ELSE sent
    /\ queued' = IF link \in {"wait", "offline"} THEN Append(queued, k) ELSE queued
    /\ link' = IF link = "wait" THEN "offline" ELSE link
    /\ redis' = IF link = "end" THEN [redis EXCEPT ![k] = "down"] ELSE redis
    /\ UNCHANGED <<database, shutdownVars>>

\* SELECT 1 answers, or fails.
CheckDatabase(k) ==
    /\ checkPc[k] = "racing"
    /\ database[k] = "none"
    /\ \E outcome \in {"up", "down"} : database' = [database EXCEPT ![k] = outcome]
    /\ UNCHANGED <<link, queued, sent, redis, checkPc, shutdownVars>>

\* Mutation of Timeout: the timer goes off beside a bare ping.
TimeoutBesideBarePing(k) ==
    /\ checkPc[k] = "racing"
    /\ redis[k] = "none"
    /\ UNCHANGED vars

\* The timer wins the race.  The ping stays where it is.
Timeout(k) ==
    /\ checkPc[k] = "racing"
    /\ redis[k] = "none"
    /\ redis' = [redis EXCEPT ![k] = "down"]
    /\ UNCHANGED <<link, queued, sent, database, checkPc, shutdownVars>>

\* PONG: it wins, or comes too late and is dropped.
Pong(k) ==
    /\ link = "ready"
    /\ sent # <<>>
    /\ Head(sent) = k
    /\ sent' = Tail(sent)
    /\ redis' = IF redis[k] = "none" THEN [redis EXCEPT ![k] = "up"] ELSE redis
    /\ UNCHANGED <<link, queued, database, checkPc, shutdownVars>>

\* Promise.all has both.
Answer(k) ==
    /\ checkPc[k] = "racing"
    /\ database[k] # "none"
    /\ redis[k] # "none"
    /\ checkPc' = [checkPc EXCEPT ![k] = "done"]
    /\ UNCHANGED <<link, queued, sent, database, redis, shutdownVars>>

-----------------------------------------------------------------------------
(* The client's connection.                                                *)

\* What was queued goes out.
Connect ==
    /\ link = "offline"
    /\ link' = "ready"
    /\ sent' = queued
    /\ queued' = <<>>
    /\ UNCHANGED <<checkVars, shutdownVars>>

\* Mutation of QuitRejected: nobody catches it.
QuitRejectedUncaught == "rejected"

\* quit().catch(() => undefined).
QuitRejected == "settled"

\* Pings that are still racing when their commands are rejected.
Reject(commands) ==
    redis' = [k \in Checks |->
                 IF k \in ToSet(commands) /\ redis[k] = "none" THEN "down" ELSE redis[k]]

\* The connection is lost: what was sent is queued again; after a quit
\* everything outstanding is rejected instead.
LoseConnection ==
    /\ link = "ready"
    /\ IF Quit \in ToSet(sent)
       THEN link' = "end" /\ quit' = QuitRejected /\ Reject(sent) /\ UNCHANGED queued
       ELSE link' = "offline" /\ queued' = sent /\ UNCHANGED <<redis, quit>>
    /\ sent' = <<>>
    /\ UNCHANGED <<database, checkPc, phase, disconnected>>

-----------------------------------------------------------------------------
(* Shutdown: the hooks of one module after those of another, in an order   *)
(* that is Nest's, while requests are still accepted.                      *)

\* SIGTERM or SIGINT.
Shutdown ==
    /\ phase = "running"
    /\ phase' = "closing"
    /\ UNCHANGED <<link, queued, sent, checkVars, quit, disconnected>>

\* RedisService.onModuleDestroy.
SendQuit ==
    /\ phase = "closing"
    /\ quit = "none"
    /\ IF link = "ready"
       THEN sent' = Append(sent, Quit) /\ quit' = "waiting" /\ UNCHANGED <<link, queued>>
       ELSE IF queued = <<>>
       THEN link' = "end" /\ quit' = "settled" /\ UNCHANGED <<queued, sent>>
       ELSE queued' = Append(queued, Quit) /\ quit' = "waiting" /\ UNCHANGED <<link, sent>>
    /\ UNCHANGED <<checkVars, phase, disconnected>>

\* Redis has answered everything sent before the quit, and closes; what was sent
\* after it is rejected.
QuitAnswered ==
    /\ link = "ready"
    /\ sent # <<>>
    /\ Head(sent) = Quit
    /\ link' = "end"
    /\ quit' = "settled"
    /\ sent' = <<>>
    /\ Reject(Tail(sent))
    /\ UNCHANGED <<queued, database, checkPc, phase, disconnected>>

\* PrismaService.onModuleDestroy: $disconnect().
DisconnectDatabase ==
    /\ phase = "closing"
    /\ quit # "waiting"
    /\ ~disconnected
    /\ disconnected' = TRUE
    /\ UNCHANGED <<link, queued, sent, checkVars, phase, quit>>

\* Every hook has fulfilled.  Then the server closes, and waits for its requests.
Exit ==
    /\ phase = "closing"
    /\ quit = "settled"
    /\ disconnected
    /\ phase' = "ended"
    /\ UNCHANGED <<link, queued, sent, checkVars, quit, disconnected>>

-----------------------------------------------------------------------------
Init ==
    /\ link = "wait"
    /\ queued = <<>>
    /\ sent = <<>>
    /\ database = [k \in Checks |-> "none"]
    /\ redis = [k \in Checks |-> "none"]
    /\ checkPc = [k \in Checks |-> "idle"]
    /\ phase = "running"
    /\ quit = "none"
    /\ disconnected = FALSE

Settle(k) == CheckDatabase(k) \/ Timeout(k) \/ Answer(k)

Next ==
    \/ \E k \in Checks : Check(k) \/ Settle(k) \/ Pong(k)
    \/ Connect \/ LoseConnection
    \/ Shutdown \/ SendQuit \/ QuitAnswered \/ DisconnectDatabase \/ Exit

\* What becomes of the oldest command sent.
Served == (\E k \in Checks : Pong(k)) \/ QuitAnswered \/ (sent # <<>> /\ LoseConnection)

\* Timers go off, the database answers or fails, and a connected Redis answers or
\* is lost.  Nothing says that an unreachable Redis ever comes back.
Fairness ==
    /\ \A k \in Checks : WF_vars(Settle(k))
    /\ WF_vars(Served)
    /\ WF_vars(SendQuit \/ DisconnectDatabase \/ Exit)

Spec == Init /\ [][Next]_vars /\ Fairness

-----------------------------------------------------------------------------
(* Properties.                                                             *)

\* Every health check is answered, whatever becomes of Redis and of the process:
\* a ping that hangs in the offline queue holds nobody up.
EveryCheckEnds == \A k \in Checks : checkPc[k] = "racing" ~> checkPc[k] = "done"

\* A shutdown ends, with Redis or without it, unless its quit was queued behind a
\* ping that an earlier health check left with the offline client.
OnlyBacklogDelaysShutdown ==
    (quit # "none" /\ Quit \notin ToSet(queued)) ~> phase = "ended"

=============================================================================
