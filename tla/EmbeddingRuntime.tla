-------------------------- MODULE EmbeddingRuntime --------------------------
(***************************************************************************)
(* The private embedding process (embeddingruntime): Start stages pinned   *)
(* files in a session directory, starts a child on a loopback port it had  *)
(* chosen and released, and hands the runtime out once that very child has *)
(* proved itself.  A supervisor and its owner may both close it; the       *)
(* child may die, and other programs may take the port, at any time.       *)
(***************************************************************************)
EXTENDS Naturals

CONSTANTS Impostors    \* how another listener on the port may answer

VARIABLES starter,     \* Start: where it is
          installed,   \* whether the files at the installed paths are the pinned ones
          session,     \* the session directory: absent, or what is staged in it
          child,       \* the process: none, running, stopping, dead or reaped
          bound,       \* whether the child's stderr announced its bind
          port,        \* who listens on the port
          owner,       \* ctx: live, late (the startup budget is spent) or done
          closing,     \* Close: the once, and how far it is
          supervisor   \* the goroutine that waits for a reason to close

runtimeVars == <<starter, installed, session, child, bound, port, owner, closing, supervisor>>

Alive == child \in {"running", "stopping", "dead"}     \* child.alive: not reaped yet

-----------------------------------------------------------------------------
(* Start. *)

\* Mutant of Fail: the clean-up sees no child, as if it were shadowed.
FailShadowed == starter' = "removing"

\* Its deferred clean-up: stop what was started, then remove the session.
Fail == starter' = IF child = "none" THEN "removing" ELSE "stopping"

\* The digest file is read before anything is created.
ReadDigest ==
  /\ starter = "begun"
  /\ \/ starter' = "staging" /\ session' = "empty"
     \/ starter' = "failed" /\ UNCHANGED session
  /\ UNCHANGED <<installed, child, bound, port, owner, closing, supervisor>>

\* Copy and hash in one pass: what is staged is what was hashed.
Stage ==
  /\ starter = "staging"
  /\ session' = IF installed THEN "pinned" ELSE "other"
  /\ IF installed /\ owner = "live" THEN starter' = "staged" ELSE Fail
  /\ UNCHANGED <<installed, child, bound, port, owner, closing, supervisor>>

\* Listen on port 0, note the port and release it.
ChoosePort ==
  /\ starter = "staged"
  /\ IF owner = "live" THEN starter' = "chosen" /\ port' = "free" ELSE Fail /\ UNCHANGED port
  /\ UNCHANGED <<installed, session, child, bound, owner, closing, supervisor>>

StartChild ==
  /\ starter = "chosen"
  /\ \/ child' = "running" /\ starter' = "waiting"
     \/ UNCHANGED child /\ Fail
  /\ UNCHANGED <<installed, session, bound, port, owner, closing, supervisor>>

\* waitEmbeddingReady: the bind proof, before any request is sent.
AwaitBind ==
  /\ starter = "waiting"
  /\ \/ bound /\ starter' = "asking"
     \/ (owner # "live" \/ child = "reaped") /\ Fail
  /\ UNCHANGED <<installed, session, child, bound, port, owner, closing, supervisor>>

\* What answers the request for the models: with the key, and without it.
Answers == port = "child" /\ child = "running"
ShowsAlias == Answers \/ port = "echo"
RefusesAnonymous == Answers \/ port = "guard"

AskWithKey ==
  /\ starter = "asking"
  /\ \/ owner = "live" /\ Alive /\ ShowsAlias /\ starter' = "challenging"
     \/ (owner # "live" \/ ~Alive) /\ Fail
  /\ UNCHANGED <<installed, session, child, bound, port, owner, closing, supervisor>>

AskWithoutKey ==
  /\ starter = "challenging"
  /\ starter' = IF owner = "live" /\ RefusesAnonymous /\ Alive THEN "accepted" ELSE "asking"
  /\ UNCHANGED <<installed, session, child, bound, port, owner, closing, supervisor>>

HandOut ==
  /\ starter = "accepted"
  /\ starter' = "up" /\ supervisor' = "watching"
  /\ UNCHANGED <<installed, session, child, bound, port, owner, closing>>

\* The deferred stop and removal of a Start that fails.
StartStops ==
  /\ starter = "stopping" /\ child = "reaped"
  /\ starter' = "removing"
  /\ UNCHANGED <<installed, session, child, bound, port, owner, closing, supervisor>>

StartRemoves ==
  /\ starter = "removing"
  /\ starter' = "failed" /\ session' = "absent"
  /\ UNCHANGED <<installed, child, bound, port, owner, closing, supervisor>>

-----------------------------------------------------------------------------
(* Close, once; a second caller waits for the first. *)

Close ==
  /\ starter = "up" /\ closing = "no"
  /\ closing' = "stopping"
  /\ UNCHANGED <<starter, installed, session, child, bound, port, owner, supervisor>>

\* The supervisor closes when ctx ends or the child is reaped.
Supervise ==
  /\ supervisor = "watching"
  /\ \/ (owner = "done" \/ child = "reaped") /\ closing' = IF closing = "no" THEN "stopping" ELSE closing
     \/ closing = "closed" /\ UNCHANGED closing
  /\ supervisor' = "gone"
  /\ UNCHANGED <<starter, installed, session, child, bound, port, owner>>

CloseStopped ==
  /\ closing = "stopping" /\ child = "reaped"
  /\ closing' = "removing"
  /\ UNCHANGED <<starter, installed, session, child, bound, port, owner, supervisor>>

\* The embedder's connections and the session go; a removal that fails is
\* reported, and closed is closed all the same.
CloseRemoves ==
  /\ closing = "removing"
  /\ closing' = "closed"
  /\ session' \in {"absent", session}
  /\ UNCHANGED <<starter, installed, child, bound, port, owner, supervisor>>

-----------------------------------------------------------------------------
(* The child and its surroundings. *)

\* stop: terminate, and kill after two seconds; the child may ignore the first.
Terminate ==
  /\ child = "running"
  /\ starter = "stopping" \/ closing = "stopping"
  /\ child' = "stopping"
  /\ UNCHANGED <<starter, installed, session, bound, port, owner, closing, supervisor>>

Kill ==
  /\ child = "stopping"
  /\ child' = "dead" /\ port' = IF port = "child" THEN "free" ELSE port
  /\ UNCHANGED <<starter, installed, session, bound, owner, closing, supervisor>>

\* The child binds the port exclusively and says so, or cannot and ends.
Bind ==
  /\ child \in {"running", "stopping"} /\ ~bound /\ port # "child"
  /\ IF port = "free"
     THEN port' = "child" /\ bound' = TRUE /\ UNCHANGED child
     ELSE child' = "dead" /\ UNCHANGED <<port, bound>>
  /\ UNCHANGED <<starter, installed, session, owner, closing, supervisor>>

Die ==
  /\ child \in {"running", "stopping"}
  /\ child' = "dead" /\ port' = IF port = "child" THEN "free" ELSE port
  /\ UNCHANGED <<starter, installed, session, bound, owner, closing, supervisor>>

Reap ==
  /\ child = "dead"
  /\ child' = "reaped"
  /\ UNCHANGED <<starter, installed, session, bound, port, owner, closing, supervisor>>

TakePort ==
  /\ port = "free"
  /\ port' \in Impostors
  /\ UNCHANGED <<starter, installed, session, child, bound, owner, closing, supervisor>>

ReleasePort ==
  /\ port \in Impostors
  /\ port' = "free"
  /\ UNCHANGED <<starter, installed, session, child, bound, owner, closing, supervisor>>

\* The deployment replaces the installed files.
Reinstall ==
  /\ installed' = ~installed
  /\ UNCHANGED <<starter, session, child, bound, port, owner, closing, supervisor>>

\* The startup budget, which ends with Start, and SIGTERM to the registry.
EndContext ==
  /\ \/ owner = "live" /\ starter \notin {"up", "failed"} /\ owner' = "late"
     \/ owner # "done" /\ owner' = "done"
  /\ UNCHANGED <<starter, installed, session, child, bound, port, closing, supervisor>>

-----------------------------------------------------------------------------

RuntimeInit ==
  /\ starter = "begun" /\ installed \in BOOLEAN /\ session = "absent"
  /\ child = "none" /\ bound = FALSE /\ port = "none"
  /\ owner = "live" /\ closing = "no" /\ supervisor = "none"

Starting ==
  \/ ReadDigest \/ Stage \/ ChoosePort \/ StartChild \/ AwaitBind \/ AskWithKey
  \/ AskWithoutKey \/ HandOut \/ StartStops \/ StartRemoves
Stopping == Terminate \/ Kill \/ Reap \/ CloseStopped \/ CloseRemoves

RuntimeNext ==
  \/ Starting \/ Stopping \/ Close \/ Supervise
  \/ Bind \/ Die \/ TakePort \/ ReleasePort \/ Reinstall \/ EndContext

\* Go runs a goroutine that can run: Start, the supervisor, a stop under way,
\* and the wait that reaps; nothing makes the child bind, die or answer.
RuntimeFairness ==
  /\ WF_runtimeVars(Starting)
  /\ WF_runtimeVars(Supervise)
  /\ WF_runtimeVars(Stopping)

RuntimeSpec == RuntimeInit /\ [][RuntimeNext]_runtimeVars /\ RuntimeFairness

-----------------------------------------------------------------------------

Running == child \in {"running", "stopping"}
Ended == starter = "failed" \/ closing = "closed"

\* What Start and Close promise by the time they return.
EndsClean == Ended => ~Running /\ child # "dead" /\ (starter = "failed" => session = "absent")

\* However Start, Close, the supervisor and the child's own end meet: after a
\* failed Start and after Close nothing runs; a session is removed only under
\* no process; what runs is what was hashed; and a runtime handed out had
\* bound its port itself (Start, Close, stop, stageEmbeddingFile,
\* waitEmbeddingReady).
RuntimesAreClean ==
  [][EndsClean' /\ (Running' => session' = "pinned") /\ (starter' = "up" => bound')]_runtimeVars

\* Moreover, when the context ends or the child dies, Start fails or the
\* runtime gets closed (Start, Close, and the supervising goroutine).
RuntimesEndClean ==
  /\ RuntimesAreClean
  /\ (starter # "begun" /\ (owner = "done" \/ child = "dead")) ~> Ended

=============================================================================
