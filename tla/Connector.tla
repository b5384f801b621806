------------------------------- MODULE Connector -------------------------------
(***************************************************************************)
(* The Telegram connector: ACPManager (telegram_acp/acp.py), one transport *)
(* to an agent shared by all chats, and the handlers of main.py that use   *)
(* it.  A coroutine runs until its next real await.  What is said in a     *)
(* prompt, and the queue its chunks go through, are left out.              *)
(***************************************************************************)
EXTENDS Naturals, Sequences

CONSTANTS
  Chat,
  Message,       \* the messages users write, each handled by one coroutine
  MaxSessions,   \* bound: sessions the agent opens
  Nil

VARIABLES
  task,          \* "none", "opening", "greeting", "serving", "done": _run
  up,            \* the agent's process, or the stream from the gateway, is alive
  stopped,       \* the _stop event
  polling,       \* post_init is over: the bot takes messages
  sessions,      \* [Chat -> Nat]: _sessions, 0 for no entry
  issued,        \* the sessions the agent has opened
  locks,         \* [Chat -> Seq(Message)]: _locks, who has one and who awaits it
  pc,            \* [Message -> Stage]: where the handler of a message is
  chat,          \* [Message -> Chat or Nil]: the chat it was written in
  sid            \* [Message -> Nat]: the session it is prompted in

vars == <<task, up, stopped, polling, sessions, issued, locks, pc, chat, sid>>

Stage ==
  {"idle", "start", "started", "lock", "session", "prompt", "reply",
   "sorry", "over"}

TypeOK ==
  /\ task \in {"none", "opening", "greeting", "serving", "done"}
  /\ up \in BOOLEAN
  /\ stopped \in BOOLEAN
  /\ polling \in BOOLEAN
  /\ sessions \in [Chat -> 0 .. MaxSessions]
  /\ issued \in 0 .. MaxSessions
  /\ locks \in [Chat -> Seq(Message)]
  /\ pc \in [Message -> Stage]
  /\ chat \in [Message -> Chat \cup {Nil}]
  /\ sid \in [Message -> 0 .. MaxSessions]

Init ==
  /\ task = "none"
  /\ up = FALSE
  /\ stopped = FALSE
  /\ polling = FALSE
  /\ sessions = [c \in Chat |-> 0]
  /\ issued = 0
  /\ locks = [c \in Chat |-> << >>]
  /\ pc = [m \in Message |-> "idle"]
  /\ chat = [m \in Message |-> Nil]
  /\ sid = [m \in Message |-> 0]

handlerVars == <<locks, pc, chat, sid>>

(* _conn, which _run sets on its way. *)
HasConn == task \in {"greeting", "serving"}

(* _ready is set: whoever waits for it goes on. *)
Ready ==
  pc' = [m \in Message |-> IF pc[m] = "start" THEN "started" ELSE pc[m]]

-----------------------------------------------------------------------------
(* The transport.                                                          *)

(* post_init starts the manager before there is any message. *)
Start ==
  /\ task = "none"
  /\ task' = "opening"
  /\ UNCHANGED <<up, stopped, polling, sessions, issued, handlerVars>>

(* post_init is over when the manager is ready; if it has no connection,   *)
(* the bot does not run.                                                   *)
StartsPolling ==
  /\ task = "serving" /\ ~polling
  /\ polling' = TRUE
  /\ UNCHANGED <<task, up, stopped, sessions, issued, handlerVars>>

(* The process is spawned, or the connection made and its stream opened.   *)
RunOpens ==
  /\ task = "opening"
  /\ up' = TRUE
  /\ task' = "greeting"
  /\ UNCHANGED <<stopped, polling, sessions, issued, handlerVars>>

(* The agent has answered initialize. *)
RunReady ==
  /\ task = "greeting" /\ up
  /\ task' = "serving"
  /\ Ready
  /\ UNCHANGED <<up, stopped, polling, sessions, issued, locks, chat, sid>>

(* An error before that is the end of _run, and so is stop: it waits, or   *)
(* cancels the task.  The transport is closed on the way.                  *)
RunEnds ==
  /\ \/ task \in {"opening", "greeting"}
     \/ task = "serving" /\ stopped
  /\ task' = "done"
  /\ up' = FALSE
  /\ Ready
  /\ UNCHANGED <<stopped, polling, sessions, issued, locks, chat, sid>>

(* The process exits, or _pump_stream feeds the end of the stream. *)
TransportDies ==
  /\ up
  /\ up' = FALSE
  /\ UNCHANGED <<task, stopped, polling, sessions, issued, handlerVars>>

(* A message may still come after it, and starts the transport again.      *)
Stop ==
  /\ polling /\ ~stopped
  /\ stopped' = TRUE
  /\ UNCHANGED <<task, up, polling, sessions, issued, handlerVars>>

IsAlive == task \notin {"none", "done"}

(* _ensure_connection, on behalf of m: with no transport it starts one and *)
(* waits until it is ready.                                                *)
EnsureConnection(m, c) ==
  \/ /\ IsAlive
     /\ pc' = [pc EXCEPT ![m] = "lock"]
     /\ locks' = [locks EXCEPT ![c] = Append(@, m)]
     /\ UNCHANGED <<task, stopped, sessions>>
  \/ /\ ~IsAlive
     /\ stopped' = FALSE
     /\ sessions' = [d \in Chat |-> 0]
     /\ task' = "opening"
     /\ pc' = [pc EXCEPT ![m] = "start"]
     /\ UNCHANGED locks

-----------------------------------------------------------------------------
(* The handler of a message.                                               *)

MessageArrives(m, c) ==
  /\ polling /\ pc[m] = "idle"
  /\ chat' = [chat EXCEPT ![m] = c]
  /\ EnsureConnection(m, c)
  /\ UNCHANGED <<up, polling, issued, sid>>

Started(m) ==
  /\ pc[m] = "started"
  /\ \/ /\ HasConn
        /\ pc' = [pc EXCEPT ![m] = "lock"]
        /\ locks' = [locks EXCEPT ![chat[m]] = Append(@, m)]
     \/ /\ ~HasConn
        /\ pc' = [pc EXCEPT ![m] = "sorry"]
        /\ UNCHANGED locks
  /\ UNCHANGED <<task, up, stopped, polling, sessions, issued, chat, sid>>

HasLock(m) == locks[chat[m]] # << >> /\ Head(locks[chat[m]]) = m

Unlock(m) == locks' = [locks EXCEPT ![chat[m]] = Tail(@)]

(* The prompt is over with an error. *)
Fails(m) ==
  /\ pc' = [pc EXCEPT ![m] = "sorry"]
  /\ Unlock(m)
  /\ UNCHANGED <<task, up, stopped, polling, sessions, issued, chat, sid>>

(* The chat has a session, or one is asked for on the connection there is. *)
GetSession(m) ==
  /\ pc[m] = "lock" /\ HasLock(m)
  /\ \/ /\ sessions[chat[m]] # 0
        /\ sid' = [sid EXCEPT ![m] = sessions[chat[m]]]
        /\ pc' = [pc EXCEPT ![m] = "prompt"]
        /\ UNCHANGED <<task, up, stopped, polling, sessions, issued, locks, chat>>
     \/ /\ sessions[chat[m]] = 0 /\ HasConn
        /\ pc' = [pc EXCEPT ![m] = "session"]
        /\ UNCHANGED <<task, up, stopped, polling, sessions, issued, locks, chat,
                       sid>>
     \/ /\ sessions[chat[m]] = 0 /\ ~HasConn
        /\ Fails(m)

(* new_session is answered, and set_session_mode after it. *)
SessionOpens(m) ==
  /\ pc[m] = "session" /\ up /\ HasConn /\ issued < MaxSessions
  /\ issued' = issued + 1
  /\ sessions' = [sessions EXCEPT ![chat[m]] = issued']
  /\ sid' = [sid EXCEPT ![m] = issued']
  /\ pc' = [pc EXCEPT ![m] = "prompt"]
  /\ UNCHANGED <<task, up, stopped, polling, locks, chat>>

(* A request fails, for a reason of the agent's or as its transport does.  *)
RequestFails(m) ==
  /\ pc[m] \in {"session", "prompt"}
  /\ Fails(m)

(* The turn is over; an answer without text is not sent. *)
PromptAnswered(m) ==
  /\ pc[m] = "prompt" /\ up /\ HasConn
  /\ Unlock(m)
  /\ \E s \in {"reply", "over"} : pc' = [pc EXCEPT ![m] = s]
  /\ UNCHANGED <<task, up, stopped, polling, sessions, issued, chat, sid>>

(* The chat gets the answer, or Telegram refuses it. *)
Replied(m) ==
  /\ pc[m] = "reply"
  /\ \E s \in {"over", "sorry"} : pc' = [pc EXCEPT ![m] = s]
  /\ UNCHANGED <<task, up, stopped, polling, sessions, issued, locks, chat, sid>>

(* The chat is told that something went wrong, and only then its session,  *)
(* whichever it is by now, is dropped.                                     *)
Apologized(m) ==
  /\ pc[m] = "sorry"
  /\ pc' = [pc EXCEPT ![m] = "over"]
  /\ \/ sessions' = [sessions EXCEPT ![chat[m]] = 0]
     \/ UNCHANGED sessions
  /\ UNCHANGED <<task, up, stopped, polling, issued, locks, chat, sid>>

(* The command /reset. *)
Reset(c) ==
  /\ polling
  /\ sessions' = [sessions EXCEPT ![c] = 0]
  /\ UNCHANGED <<task, up, stopped, polling, issued, handlerVars>>

-----------------------------------------------------------------------------

Next ==
  \/ Start \/ StartsPolling \/ RunOpens \/ RunReady \/ RunEnds
  \/ TransportDies \/ Stop
  \/ \E c \in Chat : Reset(c) \/ \E m \in Message : MessageArrives(m, c)
  \/ \E m \in Message :
       \/ Started(m) \/ GetSession(m) \/ SessionOpens(m) \/ RequestFails(m)
       \/ PromptAnswered(m) \/ Replied(m) \/ Apologized(m)

Spec == Init /\ [][Next]_vars

-----------------------------------------------------------------------------

(* acp.py, _ensure_connection: "Reconnect the ACP transport if it died."   *)
(* A message that is written when the transport has died opens another.    *)
(* But _run awaits nothing except _stop, so the task that stands for the   *)
(* transport outlives it, and every later prompt goes to the dead one.     *)
ReconnectsWhenDead ==
  [][\A m \in Message :
       pc[m] = "idle" /\ pc'[m] # "idle" /\ task = "serving" /\ ~up /\ ~stopped
         => task' = "opening"]_vars

================================================================================
