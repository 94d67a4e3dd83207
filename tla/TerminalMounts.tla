---------------------------- MODULE TerminalMounts ----------------------------
(***************************************************************************)
(* The renderers of one session's terminal view: the mount effect of       *)
(* TerminalViewHost over DefaultTerminalViewBridge.                        *)
(*                                                                         *)
(* A host is one run of the effect; its mount, its renderer and its data   *)
(* plane have its number.  The next host starts when the last one was      *)
(* cleaned up.  Mounts of the session wait in line for each other; an      *)
(* unmount does not wait in line.  The renderer (TerminalRendererAdapter)  *)
(* and the plane's first detach may take time, and may fail; what settles  *)
(* at once is one step.                                                    *)
(***************************************************************************)
EXTENDS Integers, FiniteSets

CONSTANTS
  MaxHosts,      \* bound of the model: runs of the mount effect
  SlowRenderer   \* TRUE when the renderer takes time, as its interface allows;
                 \* Restty mounts, attaches and is destroyed before anything else moves

VARIABLES
  host,        \* the host that runs now, 0 before the first
  cancelled,   \* hosts that were cleaned up
  stage,       \* where the continuation of a host is
  renderer,    \* the renderer of a host
  mounts,      \* the entry of the session in `mounts`, 0 if there is none
  attachedTo,  \* mounts whose state holds a data plane
  detached,    \* hosts whose data plane was detached
  unmounts,    \* unmounts under way
  held,        \* <<host, kind>> of the subscriptions the effect holds
  released     \* how often each of them was released

vars == <<host, cancelled, stage, renderer, mounts, attachedTo, detached, unmounts, held, released>>

Hosts == 1 .. MaxHosts
Kinds == {"status", "outcome"}
Stages == {"none", "queued", "unmounting", "mounting", "attaching", "mounted", "failed", "fenced"}
InLine == {"queued", "unmounting", "mounting"}   \* its mount operation has not settled
Callers == {"mount", "fence", "catch", "cleanup"}
Unmounts == [mount : Hosts, by : Callers, for : Hosts, at : {"detach", "destroy"}, failed : BOOLEAN]

Init ==
  /\ host = 0 /\ mounts = 0
  /\ cancelled = {} /\ attachedTo = {} /\ detached = {} /\ unmounts = {} /\ held = {}
  /\ stage = [h \in Hosts |-> "none"]
  /\ renderer = [h \in Hosts |-> "none"]
  /\ released = [s \in Hosts \X Kinds |-> 0]

-----------------------------------------------------------------------------
(* unmount and detach.                                                     *)

\* unmount: the state is the entry the map has now; a mount named by the caller
\* must be that entry.
FindsAny(m) == mounts # 0   \* mutant: the mount id is not compared
Finds(m) == mounts # 0 /\ m \in {0, mounts}

\* The plane answers a second detach at once: it is detached already.
WaitsForPlane(m) == m \in attachedTo /\ m \notin detached

\* unmount up to its first wait.  The renderer is destroyed as soon as the plane
\* let go, and the call to destroy is made at once.
BeginUnmount(m, by, h) ==
  LET waits == WaitsForPlane(m)
  IN /\ unmounts' = unmounts \cup {[mount |-> m, by |-> by, for |-> h, failed |-> FALSE,
                                    at |-> IF waits THEN "detach" ELSE "destroy"]}
     /\ detached' = IF m \in attachedTo THEN detached \cup {m} ELSE detached
     /\ attachedTo' = IF waits THEN attachedTo ELSE attachedTo \ {m}
     /\ renderer' = IF waits THEN renderer ELSE [renderer EXCEPT ![m] = "destroyed"]

Unmount(m, by, h) ==
  IF Finds(m) THEN BeginUnmount(mounts, by, h)
  ELSE UNCHANGED <<unmounts, detached, attachedTo, renderer>>

\* The mount an unmount destroys is the one it found at its start.
TargetNow(u) == IF mounts = 0 THEN u.mount ELSE mounts   \* mutant: reads the map after the wait
Target(u) == u.mount

\* The plane's detach settles, with an error or without one; destroy is called.
DetachSettles(u, failed) ==
  /\ u \in unmounts /\ u.at = "detach"
  /\ unmounts' = (unmounts \ {u}) \cup {[u EXCEPT !.at = "destroy", !.failed = failed]}
  /\ attachedTo' = attachedTo \ {u.mount}
  /\ renderer' = [renderer EXCEPT ![Target(u)] = "destroyed"]
  /\ UNCHANGED <<host, cancelled, stage, mounts, detached, held, released>>

\* The mount operation of a host goes on once its unmount returned.
AfterUnmountHangs(u, failed) ==   \* mutant: a failed unmount never settles the operation
  IF u.by # "mount" \/ failed THEN UNCHANGED <<stage, renderer>>
  ELSE /\ stage' = [stage EXCEPT ![u.for] = "mounting"]
       /\ renderer' = [renderer EXCEPT ![u.for] = "created"]
AfterUnmount(u, failed) ==
  IF u.by # "mount" THEN UNCHANGED <<stage, renderer>>
  ELSE IF failed THEN stage' = [stage EXCEPT ![u.for] = "failed"] /\ UNCHANGED renderer
  ELSE /\ stage' = [stage EXCEPT ![u.for] = "mounting"]
       /\ renderer' = [renderer EXCEPT ![u.for] = "created"]

\* destroy settles: whatever the map holds for the session is deleted.
DestroySettles(u, failed) ==
  /\ u \in unmounts /\ u.at = "destroy"
  /\ unmounts' = unmounts \ {u}
  /\ mounts' = 0
  /\ AfterUnmount(u, failed \/ u.failed)
  /\ UNCHANGED <<host, cancelled, attachedTo, detached, held, released>>

-----------------------------------------------------------------------------
(* The effect of the host.                                                 *)

\* A host starts: its mount operation is put in line.
StartHost ==
  /\ host < MaxHosts
  /\ host = 0 \/ host \in cancelled
  /\ host' = host + 1
  /\ stage' = [stage EXCEPT ![host + 1] = "queued"]
  /\ UNCHANGED <<cancelled, renderer, mounts, attachedTo, detached, unmounts, held, released>>

\* The mount operations ahead of h have settled.
NoTurn(h) == TRUE   \* mutant: operations of a session do not wait for each other
Turn(h) == \A g \in 1 .. h - 1 : stage[g] \notin InLine

\* The operation begins: it unmounts what the map holds.
MountTurn(h) ==
  /\ stage[h] = "queued" /\ Turn(h)
  /\ stage' = [stage EXCEPT ![h] = IF mounts = 0 THEN "mounting" ELSE "unmounting"]
  /\ IF mounts = 0
     THEN /\ renderer' = [renderer EXCEPT ![h] = "created"]
          /\ UNCHANGED <<unmounts, detached, attachedTo>>
     ELSE BeginUnmount(mounts, "mount", h)
  /\ UNCHANGED <<host, cancelled, mounts, held, released>>

\* The renderer mounted a host that was cleaned up meanwhile: it is unmounted.
MountFenced(h) ==
  /\ stage[h] = "mounting" /\ h \in cancelled
  /\ mounts' = h
  /\ stage' = [stage EXCEPT ![h] = "fenced"]
  /\ unmounts' = unmounts \cup {[mount |-> h, by |-> "fence", for |-> h, failed |-> FALSE, at |-> "destroy"]}
  /\ renderer' = [renderer EXCEPT ![h] = "destroyed"]
  /\ UNCHANGED <<host, cancelled, attachedTo, detached, held, released>>

\* The renderer mounted: the effect subscribes to the plane's status and attaches it.
MountSettles(h) ==
  /\ stage[h] = "mounting" /\ h \notin cancelled
  /\ mounts' = h
  /\ stage' = [stage EXCEPT ![h] = "attaching"]
  /\ renderer' = [renderer EXCEPT ![h] = "live"]
  /\ attachedTo' = attachedTo \cup {h}
  /\ held' = held \cup {<<h, "status">>}
  /\ UNCHANGED <<host, cancelled, detached, unmounts, released>>

\* The renderer's mount fails; the renderer is in no map.
MountFails(h) ==
  /\ stage[h] = "mounting"
  /\ stage' = [stage EXCEPT ![h] = "failed"]
  /\ UNCHANGED <<host, cancelled, renderer, mounts, attachedTo, detached, unmounts, held, released>>

\* Each reference is cleared before it is released.
Release(subs) ==
  /\ held' = held \ subs
  /\ released' = [s \in DOMAIN released |-> IF s \in subs \cap held THEN released[s] + 1 ELSE released[s]]

\* The continuation of the attach: a host cleaned up meanwhile installs nothing.
NotFenced(h) == TRUE   \* mutant: no check after the attach
StillWanted(h) == h \notin cancelled

AttachSettles(h) ==
  /\ stage[h] = "attaching"
  /\ IF StillWanted(h)
     THEN /\ stage' = [stage EXCEPT ![h] = "mounted"]
          /\ held' = held \cup {<<h, "outcome">>}
          /\ UNCHANGED released
     ELSE /\ stage' = [stage EXCEPT ![h] = "fenced"]
          /\ Release({<<h, "status">>})
  /\ UNCHANGED <<host, cancelled, renderer, mounts, attachedTo, detached, unmounts>>

\* attachDataPlane fails: the mount is given up.
AttachFails(h) ==
  /\ stage[h] = "attaching"
  /\ stage' = [stage EXCEPT ![h] = "failed"]
  /\ Unmount(h, "catch", h)
  /\ UNCHANGED <<host, cancelled, mounts, held, released>>

\* The cleanup of the effect.  It knows its mount once the mount settled.
KnowsMount(h) == stage[h] \in {"attaching", "mounted"} \/ (stage[h] = "failed" /\ renderer[h] \in {"live", "destroyed"})
CleanUpKeeping(h) ==   \* mutant: the status subscription is left to the continuation
  /\ h = host /\ h \notin cancelled /\ h # 0
  /\ cancelled' = cancelled \cup {h}
  /\ Release({<<h, "outcome">>})
  /\ IF KnowsMount(h) THEN Unmount(h, "cleanup", h) ELSE UNCHANGED <<unmounts, detached, attachedTo, renderer>>
  /\ UNCHANGED <<host, stage, mounts>>
CleanUp(h) ==
  /\ h = host /\ h \notin cancelled /\ h # 0
  /\ cancelled' = cancelled \cup {h}
  /\ Release({h} \X Kinds)
  /\ IF KnowsMount(h) THEN Unmount(h, "cleanup", h) ELSE UNCHANGED <<unmounts, detached, attachedTo, renderer>>
  /\ UNCHANGED <<host, stage, mounts>>

-----------------------------------------------------------------------------
UnmountSettles ==
  \E u \in unmounts, failed \in BOOLEAN : DetachSettles(u, failed) \/ DestroySettles(u, failed)
Settles(h) == MountFenced(h) \/ MountSettles(h) \/ MountFails(h) \/ AttachSettles(h) \/ AttachFails(h)

\* A renderer that takes no time is at work: nothing else moves.
RendererBusy ==
  /\ ~SlowRenderer
  /\ (\E u \in unmounts : u.at = "destroy") \/ (\E h \in Hosts : stage[h] \in {"mounting", "attaching"})

Next ==
  \/ ~RendererBusy /\ StartHost
  \/ \E h \in Hosts : ~RendererBusy /\ (MountTurn(h) \/ CleanUp(h))
  \/ \E h \in Hosts : Settles(h)
  \/ \E u \in unmounts, failed \in BOOLEAN : ~RendererBusy /\ DetachSettles(u, failed)
  \/ \E u \in unmounts, failed \in BOOLEAN : DestroySettles(u, failed)

Spec == Init /\ [][Next]_vars

\* The line advances by microtasks, the renderer and the plane settle their promises
\* (the plane's detach has a bound of its own).
Fairness ==
  /\ WF_vars(\E h \in Hosts : MountTurn(h))
  /\ WF_vars(\E h \in Hosts : Settles(h))
  /\ WF_vars(UnmountSettles)
FairSpec == Spec /\ Fairness

-----------------------------------------------------------------------------
(* Properties.                                                             *)

\* Every variable has its type.
TypeOK ==
  /\ host \in 0 .. MaxHosts /\ mounts \in 0 .. MaxHosts
  /\ cancelled \subseteq Hosts /\ attachedTo \subseteq Hosts /\ detached \subseteq Hosts
  /\ unmounts \subseteq Unmounts
  /\ stage \in [Hosts -> Stages]
  /\ renderer \in [Hosts -> {"none", "created", "live", "destroyed"}]
  /\ held \subseteq Hosts \X Kinds
  /\ released \in [Hosts \X Kinds -> 0 .. 2]

\* The terminal the user looks at keeps its renderer: no unmount of an earlier host,
\* however late it goes on, destroys the renderer of the host that runs now.
CurrentRendererLives ==
  host # 0 /\ host \notin cancelled /\ stage[host] \in {"attaching", "mounted"} => renderer[host] = "live"

\* A host that was cleaned up holds no subscription, whichever of its cleanup and its
\* continuation comes first, and none was released twice.
SubscriptionsReleasedOnce ==
  /\ \A h \in cancelled, k \in Kinds : <<h, k>> \notin held
  /\ \A s \in DOMAIN released : released[s] <= 1

\* A view that was opened and not left ends mounted or with a visible failure: no
\* earlier view of the session holds the line for good.
Opening == \E h \in Hosts \ cancelled : stage[h] \in InLine \cup {"attaching"}
ViewSettles == Opening ~> ~Opening

\* A view that was left has its renderer destroyed, at the latest when the unmount of
\* its mount is done.
LeftRendererIsDestroyed ==
  \A h \in cancelled : renderer[h] = "live" => \E u \in unmounts : u.mount = h
=============================================================================
