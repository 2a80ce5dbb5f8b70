--------------------------- MODULE HostNetworkProofs ---------------------------
(***************************************************************************)
(* Theorems about HostNetwork, for any sets of sessions, interfaces and    *)
(* configurations, and whatever commands fail.                             *)
(***************************************************************************)
EXTENDS HostNetwork, SequenceTheorems, TLAPS

-----------------------------------------------------------------------------
(* What a handler carries: a configuration that was validated, a turn of   *)
(* the loop over it, and where its clean-up returns to.                    *)

Claiming == {"up", "look", "newbridge", "attach"}
Cleaning == {"clean", "members", "dropbridge"}
Launching == {"launch", "verify"}
Mounting == {"add", "device", "create"} \cup Claiming

CarrySound(s) ==
    /\ ValidTaps(sessions[s].taps) /\ ValidTaps(Copy(s).taps)
    /\ job[s].i >= 1 /\ job[s].n <= Len(Copy(s).taps)
    /\ pc[s] \in Claiming => Loop(s) /\ ~Tap(s).uart
    /\ pc[s] \in {"look", "newbridge", "attach", "members", "dropbridge"} =>
          Loop(s) /\ Tap(s).bridge # NoIf
    /\ pc[s] \in {"add", "halt", "forget", "remove"} \cup Claiming =>
          job[s].n = Len(Copy(s).taps)
    /\ pc[s] \in {"halt", "forget", "remove"} => job[s].i = 1
    /\ pc[s] \in Mounting \cup Launching => Copy(s).state # "absent"
    /\ pc[s] \in Mounting \cup Launching \cup {"undo"} => job[s].after = "failed"
    /\ pc[s] = "halt" => job[s].after = "store"
    /\ pc[s] \in {"forget", "remove"} => job[s].after = "end"
    /\ pc[s] \in {"halt", "forget"} => Copy(s).taps = sessions[s].taps
    /\ pc[s] # "idle" \/ Present(s) => s \in minted
HostTyped == TypeOK /\ \A s \in Sessions : CarrySound(s)

(* The interfaces of the turns a start has behind it are its own: those    *)
(* are the ones its error paths remove.                                    *)
Own(s, j) == Copy(s).taps[j].uart \/ Copy(s).taps[j].host \in job[s].made
Finished(s) ==      \* every turn of the start in flight is done
    \/ pc[s] \in {"device", "create"}
    \/ pc[s] \in Launching /\ job[s].fresh
    \/ pc[s] = "store" /\ Copy(s).wired
ClaimSound(s) ==
    /\ pc[s] \in {"add"} \cup Claiming =>
          \A j \in DOMAIN Copy(s).taps : j < job[s].i => Own(s, j)
    /\ pc[s] \in Claiming => Own(s, job[s].i)
    /\ pc[s] = "undo" => \A j \in DOMAIN Copy(s).taps : j <= job[s].n => Own(s, j)
    /\ Finished(s) \/ (pc[s] \in Cleaning /\ job[s].after = "failed") =>
          \A j \in DOMAIN Copy(s).taps : Own(s, j)
ClaimsSound == \A s \in Sessions : ClaimSound(s)

(* And they are up and on their bridges, while nobody else has interfered. *)
Serves(s, e) ==
    \/ maker[e.host] = s /\ Connected(e)
    \/ <<s, e.host>> \in stolen
Served(s, j) == Copy(s).taps[j].uart \/ Serves(s, Copy(s).taps[j])
Held(s, t) ==
    \/ maker[t] = s /\ On(t) /\ (pc[s] # "up" => link[t].up)
    \/ <<s, t>> \in stolen
WireSound(s) ==
    /\ sessions[s].wired => sessions[s].state = "running"
    /\ pc[s] \in {"idle", "halt", "forget"} /\ sessions[s].wired =>
          \A e \in Kernel(sessions[s].taps) : Serves(s, e)
    /\ pc[s] \in Mounting \cup Launching \cup {"undo", "remove"} => ~sessions[s].wired
    /\ pc[s] \in Cleaning /\ job[s].after # "store" => ~sessions[s].wired
    /\ pc[s] = "halt" \/ (pc[s] \in Cleaning /\ job[s].after = "store") => ~Copy(s).wired
    /\ pc[s] \in {"add"} \cup Claiming =>
          \A j \in DOMAIN Copy(s).taps : j < job[s].i => Served(s, j)
    /\ pc[s] \in Claiming => Held(s, Tap(s).host)
    /\ Finished(s) => \A j \in DOMAIN Copy(s).taps : Served(s, j)
    /\ pc[s] = "store" /\ Copy(s).wired => Copy(s).state = "running"
WiresSound == \A s \in Sessions : WireSound(s)

(* Who will remove a TAP: the session that made it, in the turns its       *)
(* handler has left, or later by the configuration it keeps.               *)
Turn(s, t, low, high) ==
    \E j \in DOMAIN Copy(s).taps : low <= j /\ j <= high /\ Copy(s).taps[j].host = t
Keeps(s, t) == Present(s) /\ sessions[s].cid /\ t \in Names(sessions[s].taps)
Owner(s, t) ==
    \/ pc[s] \in {"idle", "halt", "forget"} /\ Keeps(s, t)
    \/ /\ pc[s] \in Launching /\ (job[s].fresh \/ Keeps(s, t))
       /\ Copy(s).state # "absent" /\ Copy(s).cid /\ t \in Names(Copy(s).taps)
    \/ pc[s] = "store" /\ Copy(s).state # "absent" /\ Copy(s).cid /\ t \in Names(Copy(s).taps)
    \/ /\ pc[s] \in {"add", "undo"} \cup Claiming /\ job[s].again
       /\ t \in Names(Copy(s).taps)
    \/ pc[s] = "add" /\ Turn(s, t, 1, job[s].i - 1)
    \/ pc[s] \in Claiming /\ Turn(s, t, 1, job[s].i)
    \/ pc[s] \in {"undo", "clean"} /\ Turn(s, t, job[s].i, job[s].n)
    \/ pc[s] \in {"members", "dropbridge"} /\ Turn(s, t, job[s].i + 1, job[s].n)
    \/ pc[s] \in {"device", "create", "remove"} /\ t \in Names(Copy(s).taps)
OwnerSound(t) == On(t) /\ t \notin excused => maker[t] \in Sessions /\ Owner(maker[t], t)
OwnersSound == \A t \in Taps : OwnerSound(t)

HostInv == HostTyped /\ ClaimsSound /\ WiresSound /\ OwnersSound

-----------------------------------------------------------------------------
(* What the operators do                                                    *)

LEMMA ConfigTaps ==
    ASSUME NEW c \in Configs \cup {<<>>}
    PROVE  /\ c \in Seq(TapConfig) /\ Len(c) \in Nat /\ DOMAIN c = 1 .. Len(c)
           /\ \A j \in DOMAIN c : c[j] \in TapConfig
<1>1. CASE c = <<>>
  <2>1. <<>> \in Seq(TapConfig)
    OBVIOUS
  <2> QED
    BY <1>1, <2>1
<1>2. CASE c \in Configs
  BY <1>2, ConfigsAssumption
<1> QED
  BY <1>1, <1>2

LEMMA TapTyped ==
    ASSUME NEW e \in TapConfig
    PROVE  /\ e.host \in Taps \cup {NoIf} /\ e.bridge \in Bridges \cup {NoIf}
           /\ e.uart \in BOOLEAN /\ e.auto \in BOOLEAN /\ e.pasta \in BOOLEAN
  BY DEF TapConfig

LEMMA NamesApart ==
    /\ Nics \subseteq Bridges /\ NoIf \notin Taps /\ NoIf \notin Bridges
    /\ \A t \in Taps : t \notin Bridges
  BY NamesAssumption

LEMMA NoJobIs ==
    /\ NoJob \in Job /\ NoSession \in Session
    /\ NoJob.copy = NoSession /\ NoJob.i = 1 /\ NoJob.n = 0
    /\ NoJob.fresh = FALSE /\ NoJob.again = FALSE /\ NoJob.after = "failed" /\ NoJob.made = {}
    /\ NoSession.state = "absent" /\ NoSession.cid = FALSE
    /\ NoSession.taps = <<>> /\ NoSession.wired = FALSE
  BY DEF NoJob, NoSession, Job, Session

LEMMA EmptyValid == ValidTaps(<<>>) /\ Len(<<>>) = 0 /\ DOMAIN <<>> = {}
<1>1. Len(<<>>) = 0
  OBVIOUS
<1>2. DOMAIN <<>> = 1 .. Len(<<>>)
  BY ConfigTaps
<1>3. DOMAIN <<>> = {}
  BY <1>1, <1>2
<1> QED
  BY <1>1, <1>3 DEF ValidTaps

(* A session and its job, with their configurations. *)
LEMMA FieldsTyped ==
    ASSUME TypeOK, NEW s \in Sessions
    PROVE  /\ sessions[s] \in Session /\ job[s] \in Job /\ Copy(s) \in Session
           /\ pc[s] \in Phases
           /\ job[s].i \in Nat /\ job[s].n \in Nat /\ job[s].made \subseteq Taps
           /\ job[s].fresh \in BOOLEAN /\ job[s].again \in BOOLEAN
           /\ job[s].after \in {"failed", "store", "end"}
           /\ sessions[s].taps \in Configs \cup {<<>>} /\ Copy(s).taps \in Configs \cup {<<>>}
           /\ Len(Copy(s).taps) \in Nat /\ DOMAIN Copy(s).taps = 1 .. Len(Copy(s).taps)
           /\ \A j \in DOMAIN Copy(s).taps : Copy(s).taps[j] \in TapConfig
           /\ Len(sessions[s].taps) \in Nat
<1>1. sessions[s] \in Session /\ job[s] \in Job /\ pc[s] \in Phases
  BY DEF TypeOK
<1>2. Copy(s) \in Session /\ sessions[s].taps \in Configs \cup {<<>>}
  BY <1>1 DEF Copy, Job, Session
<1>3. Copy(s).taps \in Configs \cup {<<>>}
  BY <1>2 DEF Session
<1>4. /\ job[s].i \in Nat /\ job[s].n \in Nat /\ job[s].made \subseteq Taps
      /\ job[s].fresh \in BOOLEAN /\ job[s].again \in BOOLEAN
      /\ job[s].after \in {"failed", "store", "end"}
  BY <1>1 DEF Job
<1> QED
  BY <1>1, <1>2, <1>3, <1>4, ConfigTaps

(* The turn a loop is at. *)
LEMMA TurnIs ==
    ASSUME HostTyped, NEW s \in Sessions, Loop(s)
    PROVE  /\ job[s].i \in DOMAIN Copy(s).taps
           /\ Tap(s) \in TapConfig /\ Tap(s) = Copy(s).taps[job[s].i]
           /\ Tap(s).host \in Taps \cup {NoIf} /\ Tap(s).bridge \in Bridges \cup {NoIf}
           /\ ~Tap(s).uart => Tap(s).host \in Taps
<1>1. /\ job[s].i \in Nat /\ job[s].n \in Nat /\ job[s].i >= 1
      /\ job[s].n <= Len(Copy(s).taps) /\ job[s].i <= job[s].n
      /\ Len(Copy(s).taps) \in Nat /\ DOMAIN Copy(s).taps = 1 .. Len(Copy(s).taps)
      /\ ValidTaps(Copy(s).taps)
  BY FieldsTyped DEF HostTyped, CarrySound, Loop
<1>2. job[s].i \in DOMAIN Copy(s).taps
  BY <1>1
<1>3. Tap(s) \in TapConfig /\ Tap(s) = Copy(s).taps[job[s].i]
  BY <1>2, FieldsTyped DEF HostTyped, Tap
<1>4. ~Tap(s).uart => Tap(s).host # NoIf
  BY <1>1, <1>2, <1>3 DEF ValidTaps
<1> QED
  BY <1>2, <1>3, <1>4, TapTyped

LEMMA NamesAre ==
    ASSUME NEW c, NEW t \in Taps
    PROVE  t \in Names(c) <=> \E j \in DOMAIN c : c[j].host = t
  BY NamesApart DEF Names

LEMMA KernelIs ==
    ASSUME NEW c, NEW e
    PROVE  e \in Kernel(c) <=> \E j \in DOMAIN c : e = c[j] /\ ~c[j].uart
  BY DEF Kernel

(* Every handler moves in its own session only. *)
MovesOnly(s) ==
    /\ pc' \in [Sessions -> Phases] /\ job' \in [Sessions -> Job]
    /\ sessions' \in [Sessions -> Session]
    /\ minted \subseteq minted' /\ minted' \subseteq Sessions /\ there' \subseteq Sessions
    /\ \A x \in Sessions \ {s} :
          pc'[x] = pc[x] /\ job'[x] = job[x] /\ sessions'[x] = sessions[x]

LEMMA GotoIs ==
    ASSUME TypeOK, NEW s \in Sessions, NEW next \in Phases, Goto(s, next)
    PROVE  /\ pc' \in [Sessions -> Phases] /\ pc'[s] = next
           /\ \A x \in Sessions \ {s} : pc'[x] = pc[x]
  BY DEF TypeOK, Goto

LEMMA ReturnIs ==
    ASSUME TypeOK, NEW s \in Sessions, Return(s)
    PROVE  /\ pc' \in [Sessions -> Phases] /\ pc'[s] = "idle"
           /\ job' \in [Sessions -> Job] /\ job'[s] = NoJob
           /\ \A x \in Sessions \ {s} : pc'[x] = pc[x] /\ job'[x] = job[x]
<1>1. "idle" \in Phases
  BY DEF Phases
<1> QED
  BY <1>1, GotoIs, NoJobIs DEF TypeOK, Return

(* A loop goes on, or begins anew: of the job, only the turn is changed. *)
SameJob(s) ==
    /\ Copy(s)' = Copy(s) /\ job'[s].fresh = job[s].fresh /\ job'[s].again = job[s].again
    /\ job'[s].after = job[s].after /\ job'[s].made = job[s].made

LEMMA NextTurnIs ==
    ASSUME TypeOK, NEW s \in Sessions, NextTurn(s)
    PROVE  /\ job' \in [Sessions -> Job] /\ SameJob(s)
           /\ job'[s].i = job[s].i + 1 /\ job'[s].n = job[s].n
           /\ \A x \in Sessions \ {s} : job'[x] = job[x]
<1>1. job \in [Sessions -> Job] /\ job[s] \in Job /\ job[s].i \in Nat
  BY FieldsTyped DEF TypeOK
<1> DEFINE j == [job[s] EXCEPT !.i = @ + 1]
<1>2. /\ j \in Job /\ j.i = job[s].i + 1 /\ j.n = job[s].n /\ j.copy = job[s].copy
      /\ j.fresh = job[s].fresh /\ j.again = job[s].again
      /\ j.after = job[s].after /\ j.made = job[s].made
  BY <1>1 DEF Job
<1>3. job' = [job EXCEPT ![s] = j]
  BY <1>1 DEF NextTurn
<1> HIDE DEF j
<1> QED
  BY <1>1, <1>2, <1>3 DEF SameJob, Copy

LEMMA RewindIs ==
    ASSUME TypeOK, NEW s \in Sessions, NEW n \in Nat, Rewind(s, n)
    PROVE  /\ job' \in [Sessions -> Job] /\ SameJob(s)
           /\ job'[s].i = 1 /\ job'[s].n = n
           /\ \A x \in Sessions \ {s} : job'[x] = job[x]
<1>1. job \in [Sessions -> Job] /\ job[s] \in Job
  BY DEF TypeOK
<1> DEFINE j == [job[s] EXCEPT !.i = 1, !.n = n]
<1>2. /\ j \in Job /\ j.i = 1 /\ j.n = n /\ j.copy = job[s].copy
      /\ j.fresh = job[s].fresh /\ j.again = job[s].again
      /\ j.after = job[s].after /\ j.made = job[s].made
  BY <1>1 DEF Job
<1>3. job' = [job EXCEPT ![s] = j]
  BY <1>1 DEF Rewind
<1> HIDE DEF j
<1> QED
  BY <1>1, <1>2, <1>3 DEF SameJob, Copy

-----------------------------------------------------------------------------
(* One step of one session                                                  *)

(* What others rely on stays, or is noted as taken from them. *)
Undisturbed(s) ==
    \A x \in Sessions \ {s}, t \in Taps :
        /\ <<x, t>> \in stolen => <<x, t>> \in stolen'
        /\ maker[t] = x /\ On(t) /\ (sessions[x].wired \/ t \in job[x].made) =>
              \/ <<x, t>> \in stolen'
              \/ /\ maker'[t] = x /\ On(t)' /\ (link[t].up => link'[t].up)
                 /\ \A b \in Bridges :
                       link[t].master = b /\ IsBridge(b) => link'[t].master = b /\ IsBridge(b)'

(* The interfaces of the others are served as they were. *)
LEMMA StillServed ==
    ASSUME HostTyped, NEW s, NEW x \in Sessions \ {s}, Undisturbed(s),
           NEW e \in TapConfig, e.host \in Taps,
           sessions[x].wired \/ e.host \in job[x].made, Serves(x, e)
    PROVE  Serves(x, e)'
<1>1. CASE <<x, e.host>> \in stolen
  BY <1>1 DEF Undisturbed, Serves
<1>2. CASE maker[e.host] = x /\ Connected(e)
  <2>1. \/ <<x, e.host>> \in stolen'
        \/ /\ maker'[e.host] = x /\ On(e.host)' /\ (link[e.host].up => link'[e.host].up)
           /\ \A b \in Bridges : link[e.host].master = b /\ IsBridge(b) =>
                                    link'[e.host].master = b /\ IsBridge(b)'
    BY <1>2 DEF Undisturbed, Connected
  <2>2. e.bridge # NoIf => e.bridge \in Bridges
    BY TapTyped
  <2> QED
    BY <1>2, <2>1, <2>2 DEF Serves, Connected
<1> QED
  BY <1>1, <1>2 DEF Serves

LEMMA OthersSound ==
    ASSUME HostInv, NEW s, NEW x \in Sessions \ {s}, Undisturbed(s), MovesOnly(s)
    PROVE  CarrySound(x)' /\ ClaimSound(x)' /\ WireSound(x)'
<1>1. /\ pc'[x] = pc[x] /\ job'[x] = job[x] /\ sessions'[x] = sessions[x]
      /\ minted \subseteq minted'
  BY DEF MovesOnly
<1>2. CarrySound(x) /\ ClaimSound(x) /\ WireSound(x)
  BY DEF HostInv, HostTyped, ClaimsSound, WiresSound
<1>3. CarrySound(x)'
  BY <1>1, <1>2 DEF CarrySound, Copy, Loop, Tap, Present
<1>4. ClaimSound(x)'
  BY <1>1, <1>2 DEF ClaimSound, Own, Finished, Copy
<1>5. ASSUME NEW j \in DOMAIN Copy(x).taps, Own(x, j), Served(x, j)
      PROVE  Served(x, j)'
  <2>1. Copy(x).taps[j] \in TapConfig /\ ValidTaps(Copy(x).taps)
    BY FieldsTyped, <1>2 DEF HostInv, HostTyped, CarrySound
  <2>2. CASE Copy(x).taps[j].uart
    BY <1>1, <2>2 DEF Served, Copy
  <2>3. CASE ~Copy(x).taps[j].uart
    <3>1. Copy(x).taps[j].host \in Taps /\ Copy(x).taps[j].host \in job[x].made
      BY <1>5, <2>1, <2>3, TapTyped DEF ValidTaps, Own
    <3>2. Serves(x, Copy(x).taps[j])
      BY <1>5, <2>3 DEF Served
    <3> PICK e : e = Copy(x).taps[j]
      OBVIOUS
    <3>3. Serves(x, e)'
      BY <2>1, <3>1, <3>2, StillServed DEF HostInv
    <3>4. Copy(x)'.taps[j] = e
      BY <1>1 DEF Copy
    <3> QED
      BY <3>3, <3>4 DEF Served, Serves, Connected, On, IsBridge
  <2> QED
    BY <2>2, <2>3
<1>6. ASSUME sessions[x].wired, NEW e \in Kernel(sessions[x].taps), Serves(x, e)
      PROVE  Serves(x, e)'
  <2>1. PICK j \in DOMAIN sessions[x].taps : e = sessions[x].taps[j] /\ ~sessions[x].taps[j].uart
    BY <1>6, KernelIs
  <2>2. e \in TapConfig /\ e.host \in Taps
    BY <1>2, <2>1, FieldsTyped, ConfigTaps, TapTyped DEF HostInv, HostTyped, CarrySound, ValidTaps
  <2> QED
    BY <1>6, <2>2, StillServed DEF HostInv
<1>7. ASSUME pc[x] \in Claiming PROVE Held(x, Tap(x).host)'
  <2>1. Loop(x) /\ ~Tap(x).uart /\ Own(x, job[x].i) /\ Held(x, Tap(x).host)
    BY <1>2, <1>7 DEF CarrySound, ClaimSound, WireSound
  <2> PICK t : t = Tap(x).host
    OBVIOUS
  <2>2. t \in Taps /\ t \in job[x].made /\ Held(x, t)
    BY <2>1, TurnIs DEF HostInv, Own
  <2>3. Tap(x)'.host = t
    BY <1>1 DEF Tap, Copy
  <2>4. \/ <<x, t>> \in stolen'
        \/ maker'[t] = x /\ On(t)' /\ (pc[x] # "up" => link'[t].up)
    BY <2>2 DEF Undisturbed, Held
  <2> QED
    BY <1>1, <2>3, <2>4 DEF Held, On
<1>8. Finished(x)' <=> Finished(x)
  BY <1>1 DEF Finished, Copy
<1>9. /\ pc[x] \in {"add"} \cup Claiming =>
            \A j \in DOMAIN Copy(x).taps : j < job[x].i => Served(x, j)'
      /\ Finished(x) => \A j \in DOMAIN Copy(x).taps : Served(x, j)'
  BY <1>2, <1>5 DEF WireSound, ClaimSound
<1>10. pc[x] \in {"idle", "halt", "forget"} /\ sessions[x].wired =>
            \A e \in Kernel(sessions[x].taps) : Serves(x, e)'
  BY <1>2, <1>6 DEF WireSound
<1>11. Kernel(sessions[x].taps)' = Kernel(sessions[x].taps)
  BY <1>1 DEF Kernel
<1>12. Copy(x)' = Copy(x)
  BY <1>1 DEF Copy
<1>13. WireSound(x)'
  BY <1>1, <1>2, <1>7, <1>8, <1>9, <1>10, <1>11, <1>12 DEF WireSound
<1> QED
  BY <1>3, <1>4, <1>13

(* A step of s keeps the invariant when s is as it should be, others are   *)
(* left alone, and every interface has its owner: the old one, or s.       *)
LEMMA StepOf ==
    ASSUME HostInv, NEW s \in Sessions, MovesOnly(s), Undisturbed(s),
           link' \in [Taps \cup Bridges -> Link], maker' \in [Taps -> Sessions \cup {NoOne}],
           excused' \subseteq Taps, stolen' \subseteq Sessions \X Taps,
           CarrySound(s)', ClaimSound(s)', WireSound(s)',
           \A t \in Taps : On(t)' /\ t \notin excused' =>
              \/ /\ On(t) /\ t \notin excused /\ maker'[t] = maker[t]
                 /\ maker[t] = s /\ Owner(s, t) => Owner(s, t)'
              \/ maker'[t] = s /\ Owner(s, t)'
    PROVE  HostInv'
<1>1. \A x \in Sessions : CarrySound(x)' /\ ClaimSound(x)' /\ WireSound(x)'
  BY OthersSound
<1>2. HostTyped'
  BY <1>1 DEF HostTyped, TypeOK, MovesOnly
<1>3. ASSUME NEW t \in Taps, On(t)', t \notin excused'
      PROVE  maker'[t] \in Sessions /\ \E x \in Sessions : x = maker'[t] /\ Owner(x, t)'
  <2>1. CASE maker'[t] = s /\ Owner(s, t)'
    BY <2>1
  <2>2. CASE /\ On(t) /\ t \notin excused /\ maker'[t] = maker[t]
             /\ maker[t] = s /\ Owner(s, t) => Owner(s, t)'
    <3>1. maker[t] \in Sessions /\ Owner(maker[t], t)
      BY <2>2 DEF HostInv, OwnersSound, OwnerSound
    <3>2. CASE maker[t] = s
      BY <2>2, <3>1, <3>2
    <3>3. CASE maker[t] # s
      <4> PICK x : x = maker[t]
        OBVIOUS
      <4>1. /\ x \in Sessions \ {s} /\ Owner(x, t)
            /\ pc'[x] = pc[x] /\ job'[x] = job[x] /\ sessions'[x] = sessions[x]
        BY <3>1, <3>3 DEF MovesOnly
      <4>2. Owner(x, t)'
        BY <4>1 DEF Owner, Turn, Keeps, Present, Copy
      <4> QED
        BY <2>2, <4>1, <4>2
    <3> QED
      BY <3>2, <3>3
  <2> QED
    BY <1>3, <2>1, <2>2
<1>4. \A t \in Taps : OwnerSound(t)'
  BY <1>3 DEF OwnerSound
<1> QED
  BY <1>1, <1>2, <1>4 DEF HostInv, ClaimsSound, WiresSound, OwnersSound

(* Most steps leave the interfaces alone. *)
LEMMA QuietStepOf ==
    ASSUME HostInv, NEW s \in Sessions, MovesOnly(s), UNCHANGED <<link, maker>>,
           excused \subseteq excused', excused' \subseteq Taps,
           stolen' = stolen \/ stolen' = Others(s),
           CarrySound(s)', ClaimSound(s)', WireSound(s)',
           \A t \in Taps : On(t) /\ t \notin excused' /\ maker[t] = s /\ Owner(s, t) =>
              Owner(s, t)'
    PROVE  HostInv'
<1>1. Undisturbed(s)
  <2>1. \A x \in Sessions \ {s}, t \in Taps : <<x, t>> \in stolen => <<x, t>> \in stolen'
    BY DEF Others
  <2> QED
    BY <2>1 DEF Undisturbed, On, IsBridge
<1>2. /\ link' \in [Taps \cup Bridges -> Link] /\ maker' \in [Taps -> Sessions \cup {NoOne}]
      /\ stolen' \subseteq Sessions \X Taps
  BY DEF HostInv, HostTyped, TypeOK, Others
<1>3. \A t \in Taps : On(t)' /\ t \notin excused' =>
         /\ On(t) /\ t \notin excused /\ maker'[t] = maker[t]
         /\ maker[t] = s /\ Owner(s, t) => Owner(s, t)'
  BY DEF On
<1> QED
  BY <1>1, <1>2, <1>3, StepOf

LEMMA HostInit == Init => HostInv
<1> SUFFICES ASSUME Init PROVE HostInv
  OBVIOUS
<1>1. /\ Off \in Link /\ Off.on = FALSE /\ Off.up = FALSE /\ Off.master = NoIf
      /\ [Off EXCEPT !.on = TRUE, !.up = TRUE] \in Link
  BY DEF Off, Link
<1>2. TypeOK
  <2>1. link \in [Taps \cup Bridges -> Link]
    BY <1>1, NamesApart DEF Init
  <2>2. "idle" \in Phases
    BY DEF Phases
  <2> QED
    BY <2>1, <2>2, NoJobIs DEF Init, TypeOK
<1>3. \A s \in Sessions : sessions[s] = NoSession /\ job[s] = NoJob /\ pc[s] = "idle"
  BY DEF Init
<1>4. \A s \in Sessions : CarrySound(s)
  <2> TAKE s \in Sessions
  <2>1. /\ sessions[s].taps = <<>> /\ Copy(s).taps = <<>> /\ ~Present(s)
        /\ pc[s] = "idle" /\ job[s].i = 1 /\ job[s].n = 0
    BY <1>3, NoJobIs DEF Copy, Present
  <2>2. ValidTaps(sessions[s].taps) /\ ValidTaps(Copy(s).taps) /\ Len(Copy(s).taps) = 0
    BY <2>1, EmptyValid
  <2> QED
    BY <2>1, <2>2 DEF CarrySound, Mounting, Claiming, Launching
<1>5. ClaimsSound /\ WiresSound
  BY <1>3, NoJobIs DEF ClaimsSound, ClaimSound, WiresSound, WireSound, Finished,
                       Mounting, Claiming, Cleaning, Launching
<1>6. \A t \in Taps : ~On(t)
  BY <1>1, NamesApart DEF Init, On
<1> QED
  BY <1>2, <1>4, <1>5, <1>6 DEF HostInv, HostTyped, OwnersSound, OwnerSound

-----------------------------------------------------------------------------
(* Returns and removals                                                     *)

LEMMA TurnNames ==
    ASSUME NEW s, NEW t \in Taps, NEW low, NEW high, Turn(s, t, low, high)
    PROVE  t \in Names(Copy(s).taps)
  BY NamesAre DEF Turn

LEMMA NamesTyped ==
    ASSUME NEW c \in Configs \cup {<<>>}
    PROVE  Names(c) \subseteq Taps
<1>1. \A j \in DOMAIN c : c[j].host \in Taps \cup {NoIf}
  BY ConfigTaps, TapTyped
<1> QED
  BY <1>1 DEF Names

(* A handler that returns owns what its session keeps, and nothing else. *)
LEMMA ReturnSound ==
    ASSUME HostInv, NEW s \in Sessions, Return(s),
           UNCHANGED <<link, sessions, minted, there, maker>>,
           excused \subseteq excused', excused' \subseteq Taps,
           stolen' = stolen \/ stolen' = Others(s),
           ~sessions[s].wired, pc[s] # "idle",
           \A t \in Taps :
              On(t) /\ t \notin excused' /\ maker[t] = s /\ Owner(s, t) => Keeps(s, t)
    PROVE  HostInv'
<1>1. /\ pc' \in [Sessions -> Phases] /\ pc'[s] = "idle"
      /\ job' \in [Sessions -> Job] /\ job'[s] = NoJob
      /\ \A x \in Sessions \ {s} : pc'[x] = pc[x] /\ job'[x] = job[x]
  BY ReturnIs DEF HostInv, HostTyped
<1>2. MovesOnly(s)
  BY <1>1 DEF MovesOnly, HostInv, HostTyped, TypeOK
<1>3. /\ Copy(s)'.taps = <<>> /\ Copy(s)'.wired = FALSE /\ job'[s].i = 1 /\ job'[s].n = 0
      /\ sessions'[s] = sessions[s]
  BY <1>1, NoJobIs DEF Copy
<1>4. CarrySound(s)
  BY DEF HostInv, HostTyped
<1>5. CarrySound(s)'
  <2>1. Len(Copy(s)'.taps) = 0 /\ ValidTaps(Copy(s)'.taps) /\ ValidTaps(Copy(s).taps)'
    BY <1>3, EmptyValid
  <2> QED
    BY <1>1, <1>3, <1>4, <2>1 DEF CarrySound, Mounting, Claiming, Launching, Present
<1>6. ClaimSound(s)'
  BY <1>1, <1>3 DEF ClaimSound, Finished, Claiming, Cleaning, Launching
<1>7. WireSound(s)'
  BY <1>1, <1>3 DEF WireSound, Finished, Mounting, Claiming, Cleaning, Launching
<1>8. \A t \in Taps : Keeps(s, t) => Owner(s, t)'
  BY <1>1, <1>3 DEF Keeps, Owner, Present
<1> QED
  BY <1>2, <1>5, <1>6, <1>7, <1>8, QuietStepOf

LEMMA WithdrawSound ==
    ASSUME HostInv, NEW s \in Sessions, Withdraw(s), UNCHANGED <<link, sessions, minted, there>>,
           ~sessions[s].wired, pc[s] # "idle",
           \A t \in Taps :
              On(t) /\ t \notin excused /\ maker[t] = s /\ Owner(s, t) => Keeps(s, t)
    PROVE  HostInv'
<1>1. excused' \subseteq Taps
  BY DEF Withdraw, HostInv, HostTyped, TypeOK
<1> QED
  BY <1>1, ReturnSound DEF Withdraw

LEMMA GiveUpSound ==
    ASSUME HostInv, NEW s \in Sessions, GiveUp(s), UNCHANGED <<link, sessions, minted, there>>,
           ~sessions[s].wired, pc[s] # "idle",
           \A t \in Taps : Owner(s, t) => t \in Names(Copy(s).taps)
    PROVE  HostInv'
<1>1. Left(s) \subseteq Taps
  BY NamesTyped, FieldsTyped DEF HostInv, HostTyped, Left
<1>2. excused' \subseteq Taps /\ excused \subseteq excused'
  BY <1>1 DEF GiveUp, HostInv, HostTyped, TypeOK
<1>3. \A t \in Taps : On(t) /\ maker[t] = s /\ Owner(s, t) => t \in excused'
  BY DEF GiveUp, Left
<1> QED
  BY <1>2, <1>3, ReturnSound DEF GiveUp

(* Who relies on an interface is noted before it is changed. *)
LEMMA RobbedIs ==
    ASSUME HostTyped, NEW s \in Sessions, NEW ts \in SUBSET Taps, Robbed(s, ts)
    PROVE  /\ stolen \subseteq stolen' /\ stolen' \subseteq Sessions \X Taps
           /\ \A x \in Sessions \ {s}, t \in ts :
                 maker[t] = x /\ (sessions[x].wired \/ t \in job[x].made) => <<x, t>> \in stolen'
<1>1. \A t \in ts : RelyingOn(t) \subseteq Sessions
  BY DEF RelyingOn
<1>2. stolen \subseteq Sessions \X Taps
  BY DEF HostTyped, TypeOK
<1>3. stolen \subseteq stolen' /\ stolen' \subseteq Sessions \X Taps
  BY <1>1, <1>2 DEF Robbed
<1>4. ASSUME NEW x \in Sessions \ {s}, NEW t \in ts,
             maker[t] = x, sessions[x].wired \/ t \in job[x].made
      PROVE  <<x, t>> \in stolen'
  <2>1. <<x, t>> \in (RelyingOn(t) \ {s}) \X {t}
    BY <1>4 DEF RelyingOn
  <2> QED
    BY <2>1 DEF Robbed
<1> QED
  BY <1>3, <1>4

LEMMA RemoveTapIs ==
    ASSUME HostTyped, NEW s \in Sessions, NEW t, RemoveTap(s, t)
    PROVE  /\ link' \in [Taps \cup Bridges -> Link] /\ maker' \in [Taps -> Sessions \cup {NoOne}]
           /\ excused' \subseteq Taps /\ stolen' \subseteq Sessions \X Taps
           /\ Undisturbed(s)
           /\ \A x \in Taps : On(x)' /\ x \notin excused' =>
                 x # t /\ On(x) /\ x \notin excused /\ maker'[x] = maker[x]
           /\ \A x \in Taps : On(x) /\ ~On(x)' => x = t
<1>1. /\ link \in [Taps \cup Bridges -> Link] /\ maker \in [Taps -> Sessions \cup {NoOne}]
      /\ excused \subseteq Taps /\ stolen \subseteq Sessions \X Taps
  BY DEF HostTyped, TypeOK
<1>2. CASE (t \in Taps => ~On(t)) /\ UNCHANGED <<link, ghosts>>
  BY <1>1, <1>2 DEF ghosts, Undisturbed, On, IsBridge
<1>3. ASSUME t \in Taps, Robbed(s, {t}), link' \in [Taps \cup Bridges -> Link],
             maker' \in [Taps -> Sessions \cup {NoOne}], excused' \subseteq Taps,
             \A n \in (Taps \cup Bridges) \ {t} : link'[n] = link[n],
             \A x \in Taps \ {t} : maker'[x] = maker[x],
             excused \ {t} \subseteq excused', ~On(t)' \/ t \in excused'
      PROVE  /\ stolen' \subseteq Sessions \X Taps /\ Undisturbed(s)
             /\ \A x \in Taps : On(x)' /\ x \notin excused' =>
                   x # t /\ On(x) /\ x \notin excused /\ maker'[x] = maker[x]
             /\ \A x \in Taps : On(x) /\ ~On(x)' => x = t
  <2>1. /\ stolen \subseteq stolen' /\ stolen' \subseteq Sessions \X Taps
        /\ \A x \in Sessions \ {s} :
              maker[t] = x /\ (sessions[x].wired \/ t \in job[x].made) => <<x, t>> \in stolen'
    BY <1>3, RobbedIs
  <2>2. \A n \in (Taps \cup Bridges) \ {t} : (On(n)' <=> On(n)) /\ (IsBridge(n)' <=> IsBridge(n))
    BY <1>3 DEF On, IsBridge
  <2>3. \A b \in Bridges : b # t /\ b \in (Taps \cup Bridges) \ {t}
    BY <1>3, NamesApart
  <2>4. Undisturbed(s)
    <3> SUFFICES ASSUME NEW x \in Sessions \ {s}, NEW y \in Taps
                 PROVE  /\ <<x, y>> \in stolen => <<x, y>> \in stolen'
                        /\ maker[y] = x /\ On(y) /\ (sessions[x].wired \/ y \in job[x].made) =>
                              \/ <<x, y>> \in stolen'
                              \/ /\ maker'[y] = x /\ On(y)' /\ (link[y].up => link'[y].up)
                                 /\ \A b \in Bridges : link[y].master = b /\ IsBridge(b) =>
                                                          link'[y].master = b /\ IsBridge(b)'
      BY DEF Undisturbed
    <3>1. CASE y = t
      BY <2>1, <3>1
    <3>2. CASE y # t
      BY <1>3, <2>1, <2>2, <2>3, <3>2
    <3> QED
      BY <3>1, <3>2
  <2> QED
    BY <1>3, <2>1, <2>2, <2>4
<1>4. CASE /\ t \in Taps /\ On(t)
           /\ link' = [link EXCEPT ![t] = Off]
           /\ maker' = [maker EXCEPT ![t] = NoOne]
           /\ excused' = excused \ {t}
           /\ Robbed(s, {t})
  <2>1. Off \in Link /\ Off.on = FALSE
    BY DEF Off, Link
  <2>2. link' \in [Taps \cup Bridges -> Link] /\ ~On(t)'
    BY <1>1, <1>4, <2>1 DEF On
  <2> QED
    BY <1>1, <1>3, <1>4, <2>2
<1>5. CASE /\ t \in Taps /\ On(t) /\ CanFail("clean") /\ excused = {}
           /\ link' \in {link, [link EXCEPT ![t].up = FALSE]}
           /\ excused' = excused \cup {t}
           /\ Robbed(s, {t})
           /\ UNCHANGED maker
  <2>1. [link[t] EXCEPT !.up = FALSE] \in Link
    BY <1>1, <1>5 DEF Link
  <2>2. link' \in [Taps \cup Bridges -> Link] /\ \A n \in (Taps \cup Bridges) \ {t} : link'[n] = link[n]
    BY <1>1, <1>5, <2>1
  <2> QED
    BY <1>1, <1>3, <1>5, <2>2
<1> QED
  BY <1>2, <1>4, <1>5 DEF RemoveTap

-----------------------------------------------------------------------------
(* createTapMounts *)

LEMMA SoundOf ==
    ASSUME HostInv, NEW s \in Sessions
    PROVE  HostTyped /\ TypeOK /\ CarrySound(s) /\ ClaimSound(s) /\ WireSound(s)
  BY DEF HostInv, HostTyped, ClaimsSound, WiresSound

LEMMA PhasesAre ==
    /\ Mounting \cup Launching \cup Cleaning \subseteq Phases
    /\ {"idle", "add", "undo", "device", "create", "store", "halt", "forget", "remove"} \subseteq Phases
  BY DEF Mounting, Claiming, Launching, Cleaning, Phases

LEMMA OwnerNames ==
    ASSUME NEW s, NEW t \in Taps, Owner(s, t), pc[s] \notin {"idle", "halt", "forget"}
    PROVE  t \in Names(Copy(s).taps)
  BY TurnNames DEF Owner

LEMMA AcceptStartSound ==
    ASSUME HostInv, NEW s \in Sessions, AcceptStart(s)
    PROVE  HostInv'
<1>1. HostTyped /\ TypeOK /\ CarrySound(s) /\ ClaimSound(s) /\ WireSound(s)
  BY SoundOf
<1>2. /\ sessions[s] \in Session /\ Len(sessions[s].taps) \in Nat
      /\ DOMAIN sessions[s].taps = 1 .. Len(sessions[s].taps)
  BY <1>1, FieldsTyped, ConfigTaps
<1> DEFINE next == IF sessions[s].cid THEN "launch" ELSE "add"
           j == [NoJob EXCEPT !.copy = sessions[s], !.n = Len(sessions[s].taps)]
<1>3. /\ j \in Job /\ j.copy = sessions[s] /\ j.i = 1 /\ j.n = Len(sessions[s].taps)
      /\ j.fresh = FALSE /\ j.again = FALSE /\ j.after = "failed" /\ j.made = {}
  BY <1>2 DEF NoJob, Job
<1>4. /\ pc[s] = "idle" /\ sessions[s].state = "stopped"
      /\ Goto(s, next) /\ job' = [job EXCEPT ![s] = j]
      /\ UNCHANGED <<link, sessions, minted, there, ghosts>>
  BY DEF AcceptStart, Idle
<1> HIDE DEF j
<1>5. /\ pc' \in [Sessions -> Phases] /\ pc'[s] = next
      /\ \A x \in Sessions \ {s} : pc'[x] = pc[x]
  BY <1>1, <1>4, PhasesAre, GotoIs DEF Mounting, Launching
<1>6. /\ job' \in [Sessions -> Job] /\ job'[s] = j
      /\ \A x \in Sessions \ {s} : job'[x] = job[x]
  BY <1>1, <1>3, <1>4 DEF TypeOK
<1>7. MovesOnly(s)
  BY <1>1, <1>4, <1>5, <1>6 DEF MovesOnly, TypeOK
<1>8. next \in {"add", "launch"} /\ Copy(s)' = sessions[s] /\ ~sessions[s].wired /\ sessions'[s] = sessions[s]
  BY <1>1, <1>3, <1>4, <1>6 DEF WireSound, Copy
<1>9. CarrySound(s)'
  BY <1>1, <1>2, <1>3, <1>4, <1>5, <1>6, <1>8
     DEF CarrySound, Mounting, Claiming, Launching, Present
<1>10. ClaimSound(s)'
  BY <1>2, <1>3, <1>5, <1>6, <1>8 DEF ClaimSound, Finished, Claiming, Cleaning, Launching
<1>11. WireSound(s)'
  BY <1>2, <1>3, <1>5, <1>6, <1>8
     DEF WireSound, Finished, Mounting, Claiming, Cleaning, Launching
<1>12. ASSUME NEW t \in Taps, Owner(s, t) PROVE Owner(s, t)'
  <2>1. Keeps(s, t)
    BY <1>4, <1>12 DEF Owner, Launching, Claiming
  <2>2. Keeps(s, t)' /\ next = "launch"
    BY <1>4, <2>1 DEF Keeps, Present
  <2> QED
    BY <1>5, <1>8, <2>1, <2>2 DEF Owner, Launching, Keeps, Present
<1>13. excused' = excused /\ stolen' = stolen /\ maker' = maker /\ excused \subseteq Taps
  BY <1>1, <1>4 DEF ghosts, TypeOK
<1> QED
  BY <1>4, <1>7, <1>9, <1>10, <1>11, <1>12, <1>13, QuietStepOf

LEMMA MountsFailSound ==
    ASSUME HostInv, NEW s \in Sessions, MountsFail(s)
    PROVE  HostInv'
<1>1. /\ GiveUp(s) /\ UNCHANGED <<link, sessions, minted, there>> /\ pc[s] = "add"
      /\ ~sessions[s].wired
  BY SoundOf DEF MountsFail, WireSound, Mounting
<1>2. \A t \in Taps : Owner(s, t) => t \in Names(Copy(s).taps)
  BY <1>1, OwnerNames
<1> QED
  BY <1>1, <1>2, GiveUpSound

(* What one step leaves to the start itself. *)
LEMMA StillServes ==
    ASSUME HostTyped, NEW s \in Sessions, NEW e \in TapConfig, Serves(s, e),
           maker'[e.host] = maker[e.host], link'[e.host] = link[e.host],
           \A b \in Bridges : IsBridge(b) => IsBridge(b)',
           <<s, e.host>> \in stolen => <<s, e.host>> \in stolen'
    PROVE  Serves(s, e)'
<1>1. e.bridge # NoIf => e.bridge \in Bridges
  BY TapTyped
<1> QED
  BY <1>1 DEF Serves, Connected, On

(* An error after the interfaces of the turns before this one. *)
LEMMA UndoTurnsSound ==
    ASSUME HostInv, NEW s \in Sessions, pc[s] \in {"add"} \cup Claiming, Loop(s),
           UndoTurns(s), UNCHANGED <<sessions, minted, there>>, Undisturbed(s),
           link' \in [Taps \cup Bridges -> Link], maker' \in [Taps -> Sessions \cup {NoOne}],
           excused' \subseteq Taps, stolen' \subseteq Sessions \X Taps,
           \A x \in Taps : On(x)' /\ x \notin excused' =>
              /\ pc[s] \in Claiming => x # Tap(s).host
              /\ On(x) /\ x \notin excused /\ maker'[x] = maker[x]
    PROVE  HostInv'
<1>1. HostTyped /\ TypeOK /\ CarrySound(s) /\ ClaimSound(s) /\ WireSound(s)
  BY SoundOf
<1>2. /\ job[s].i \in Nat /\ job[s].n \in Nat /\ job[s].i >= 1 /\ job[s].i <= job[s].n
      /\ job[s].n <= Len(Copy(s).taps) /\ Len(Copy(s).taps) \in Nat
      /\ DOMAIN Copy(s).taps = 1 .. Len(Copy(s).taps) /\ job[s].i - 1 \in Nat
      /\ pc[s] \in Mounting
  BY <1>1, FieldsTyped DEF CarrySound, Loop, Mounting
<1>3. /\ pc' \in [Sessions -> Phases] /\ pc'[s] = "undo"
      /\ \A x \in Sessions \ {s} : pc'[x] = pc[x]
  BY <1>1, PhasesAre, GotoIs DEF UndoTurns
<1>4. /\ job' \in [Sessions -> Job] /\ SameJob(s)
      /\ job'[s].i = 1 /\ job'[s].n = job[s].i - 1
      /\ \A x \in Sessions \ {s} : job'[x] = job[x]
  BY <1>1, <1>2, RewindIs DEF UndoTurns
<1>5. MovesOnly(s)
  BY <1>1, <1>3, <1>4 DEF MovesOnly, TypeOK
<1>6. CarrySound(s)'
  <2>1. job'[s].n <= Len(Copy(s).taps) /\ job'[s].i >= 1
    BY <1>2, <1>4
  <2> QED
    BY <1>1, <1>2, <1>3, <1>4, <2>1
       DEF CarrySound, SameJob, Mounting, Claiming, Launching, Present
<1>7. ClaimSound(s)'
  <2>1. \A k \in DOMAIN Copy(s).taps : k <= job'[s].n => Own(s, k)
    BY <1>1, <1>2, <1>4 DEF ClaimSound
  <2>2. \A k \in DOMAIN Copy(s).taps : Own(s, k) => Own(s, k)'
    BY <1>4 DEF Own, SameJob
  <2> QED
    BY <1>3, <1>4, <2>1, <2>2 DEF ClaimSound, SameJob, Finished, Claiming, Cleaning, Launching
<1>8. WireSound(s)'
  BY <1>1, <1>2, <1>3, <1>4
     DEF WireSound, SameJob, Finished, Mounting, Claiming, Cleaning, Launching
<1>9. ASSUME NEW x \in Taps, On(x)', x \notin excused', Owner(s, x) PROVE Owner(s, x)'
  <2>1. CASE job[s].again /\ x \in Names(Copy(s).taps)
    BY <1>3, <1>4, <2>1 DEF Owner, SameJob
  <2>2. CASE pc[s] = "add" /\ Turn(s, x, 1, job[s].i - 1)
    BY <1>3, <1>4, <2>2 DEF Owner, SameJob, Turn
  <2>3. CASE pc[s] \in Claiming /\ Turn(s, x, 1, job[s].i)
    <3>1. PICK k \in DOMAIN Copy(s).taps :
            1 <= k /\ k <= job[s].i /\ Copy(s).taps[k].host = x
      BY <2>3 DEF Turn
    <3>2. x # Tap(s).host
      BY <1>9, <2>3
    <3>3. k <= job[s].i - 1
      BY <1>2, <3>1, <3>2 DEF Tap
    <3> QED
      BY <1>3, <1>4, <3>1, <3>3 DEF Owner, SameJob, Turn
  <2> QED
    BY <1>2, <1>9, <2>1, <2>2, <2>3 DEF Owner, Claiming, Launching
<1> QED
  BY <1>5, <1>6, <1>7, <1>8, <1>9, StepOf

LEMMA DropSound ==
    ASSUME HostInv, NEW s \in Sessions, pc[s] \in Claiming, DropTap(s),
           UNCHANGED <<sessions, minted, there>>
    PROVE  HostInv'
<1> PICK t : t = Tap(s).host
  OBVIOUS
<1>1. HostTyped /\ Loop(s) /\ UndoTurns(s) /\ RemoveTap(s, t)
  BY SoundOf DEF CarrySound, DropTap
<1>2. /\ link' \in [Taps \cup Bridges -> Link] /\ maker' \in [Taps -> Sessions \cup {NoOne}]
      /\ excused' \subseteq Taps /\ stolen' \subseteq Sessions \X Taps
      /\ Undisturbed(s)
      /\ \A x \in Taps : On(x)' /\ x \notin excused' =>
            x # t /\ On(x) /\ x \notin excused /\ maker'[x] = maker[x]
  BY <1>1, RemoveTapIs
<1> QED
  BY <1>1, <1>2, UndoTurnsSound

(* A turn is done: of a UART entry, or when the interface serves. *)
LEMMA NextTurnSound ==
    ASSUME HostInv, NEW s \in Sessions, pc[s] \in {"add"} \cup Claiming, Loop(s),
           pc'[s] = "add", pc' \in [Sessions -> Phases],
           \A x \in Sessions \ {s} : pc'[x] = pc[x],
           NextTurn(s), UNCHANGED <<sessions, minted, there, maker, excused>>, Undisturbed(s),
           link' \in [Taps \cup Bridges -> Link], stolen' \subseteq Sessions \X Taps,
           \A x \in Taps : On(x)' <=> On(x),
           NEW i, i = job[s].i, Own(s, i), Served(s, i)',
           \A k \in DOMAIN Copy(s).taps : k < job[s].i /\ Served(s, k) => Served(s, k)'
    PROVE  HostInv'
<1>1. HostTyped /\ TypeOK /\ CarrySound(s) /\ ClaimSound(s) /\ WireSound(s)
  BY SoundOf
<1>2. /\ job[s].i \in Nat /\ job[s].n \in Nat /\ job[s].i >= 1 /\ job[s].i <= job[s].n
      /\ job[s].n = Len(Copy(s).taps) /\ Len(Copy(s).taps) \in Nat
      /\ DOMAIN Copy(s).taps = 1 .. Len(Copy(s).taps) /\ pc[s] \in Mounting
  BY <1>1, FieldsTyped DEF CarrySound, Loop, Mounting
<1>3. /\ job' \in [Sessions -> Job] /\ SameJob(s)
      /\ job'[s].i = job[s].i + 1 /\ job'[s].n = job[s].n
      /\ \A x \in Sessions \ {s} : job'[x] = job[x]
  BY <1>1, NextTurnIs
<1>4. MovesOnly(s)
  BY <1>1, <1>3 DEF MovesOnly, TypeOK
<1>5. CarrySound(s)'
  BY <1>1, <1>2, <1>3
     DEF CarrySound, SameJob, Mounting, Claiming, Launching, Present
<1>6. \A k \in DOMAIN Copy(s).taps : k < job'[s].i => k < job[s].i \/ k = job[s].i
  BY <1>2, <1>3
<1>7. ClaimSound(s)'
  <2>1. \A k \in DOMAIN Copy(s).taps : k < job[s].i => Own(s, k)
    BY <1>1 DEF ClaimSound
  <2>2. \A k \in DOMAIN Copy(s).taps : Own(s, k) => Own(s, k)'
    BY <1>3 DEF Own, SameJob
  <2>3. \A k \in DOMAIN Copy(s).taps : k < job'[s].i => Own(s, k)'
    BY <1>6, <2>1, <2>2
  <2> QED
    BY <1>3, <2>3 DEF ClaimSound, SameJob, Finished, Claiming, Cleaning, Launching
<1>8. WireSound(s)'
  <2>1. \A k \in DOMAIN Copy(s).taps : k < job[s].i => Served(s, k)'
    BY <1>1 DEF WireSound
  <2>2. \A k \in DOMAIN Copy(s).taps : k < job'[s].i => Served(s, k)'
    <3> SUFFICES ASSUME NEW k \in DOMAIN Copy(s).taps, k < job'[s].i PROVE Served(s, k)'
      OBVIOUS
    <3>1. CASE k < job[s].i
      BY <2>1, <3>1
    <3>2. CASE k = job[s].i
      BY <3>2
    <3> QED
      BY <1>6, <3>1, <3>2
  <2> QED
    BY <1>1, <1>2, <1>3, <2>2
       DEF WireSound, SameJob, Finished, Mounting, Claiming, Cleaning, Launching
<1>9. ASSUME NEW x \in Taps, Owner(s, x) PROVE Owner(s, x)'
  <2>1. CASE job[s].again /\ x \in Names(Copy(s).taps)
    BY <1>3, <2>1 DEF Owner, SameJob
  <2>2. CASE Turn(s, x, 1, job[s].i - 1) \/ Turn(s, x, 1, job[s].i)
    <3>1. PICK k \in DOMAIN Copy(s).taps :
            1 <= k /\ k <= job[s].i /\ Copy(s).taps[k].host = x
      BY <1>2, <2>2 DEF Turn
    <3>2. k <= job'[s].i - 1
      BY <1>2, <1>3, <3>1
    <3> QED
      BY <1>3, <3>1, <3>2 DEF Owner, SameJob, Turn
  <2> QED
    BY <1>2, <1>9, <2>1, <2>2 DEF Owner, Claiming, Launching
<1>10. /\ excused' \subseteq Taps /\ maker' \in [Taps -> Sessions \cup {NoOne}]
       /\ \A x \in Taps : On(x)' /\ x \notin excused' =>
             On(x) /\ x \notin excused /\ maker'[x] = maker[x]
  BY <1>1 DEF TypeOK
<1> QED
  BY <1>4, <1>5, <1>7, <1>8, <1>9, <1>10, StepOf

LEMMA AddTapSound ==
    ASSUME HostInv, NEW s \in Sessions, AddTap(s)
    PROVE  HostInv'
<1>1. HostTyped /\ TypeOK /\ CarrySound(s) /\ ClaimSound(s) /\ WireSound(s)
  BY SoundOf
<1>2. /\ job[s].i \in Nat /\ job[s].n \in Nat /\ job[s].i >= 1
      /\ job[s].n = Len(Copy(s).taps) /\ Len(Copy(s).taps) \in Nat
      /\ DOMAIN Copy(s).taps = 1 .. Len(Copy(s).taps)
      /\ pc[s] = "add" /\ ~sessions[s].wired
      /\ UNCHANGED <<sessions, minted, there>>
  BY <1>1, FieldsTyped DEF CarrySound, WireSound, AddTap, Mounting
<1>3. CASE ~Loop(s) /\ Goto(s, "device") /\ UNCHANGED <<link, job, ghosts>>
  <2>1. /\ pc' \in [Sessions -> Phases] /\ pc'[s] = "device"
        /\ \A x \in Sessions \ {s} : pc'[x] = pc[x]
    BY <1>1, <1>3, GotoIs, PhasesAre
  <2>2. MovesOnly(s)
    BY <1>1, <1>2, <1>3, <2>1 DEF MovesOnly, TypeOK
  <2>3. \A k \in DOMAIN Copy(s).taps : k < job[s].i
    BY <1>2, <1>3 DEF Loop
  <2>4. CarrySound(s)' /\ Copy(s)' = Copy(s)
    BY <1>1, <1>2, <1>3, <2>1
       DEF CarrySound, Copy, Mounting, Claiming, Launching, Present
  <2>5. ClaimSound(s)'
    BY <1>1, <1>2, <1>3, <2>1, <2>3, <2>4
       DEF ClaimSound, Own, Finished, Claiming, Cleaning, Launching
  <2>6. WireSound(s)'
    <3>1. \A k \in DOMAIN Copy(s).taps : Served(s, k)
      BY <1>1, <1>2, <2>3 DEF WireSound
    <3>2. \A k \in DOMAIN Copy(s).taps : Served(s, k)'
      BY <1>3, <2>4, <3>1 DEF Served, Serves, Connected, On, IsBridge, ghosts
    <3> QED
      BY <1>2, <1>3, <2>1, <2>4, <3>2
         DEF WireSound, Finished, Mounting, Claiming, Cleaning, Launching
  <2>7. \A t \in Taps : Owner(s, t) => Owner(s, t)'
    BY <1>2, <2>1, <2>4, OwnerNames DEF Owner
  <2>8. excused' = excused /\ stolen' = stolen /\ maker' = maker /\ excused \subseteq Taps
    BY <1>1, <1>3 DEF ghosts, TypeOK
  <2> QED
    BY <1>3, <2>2, <2>4, <2>5, <2>6, <2>7, <2>8, QuietStepOf
<1>4. CASE Loop(s) /\ Tap(s).uart /\ NextTurn(s) /\ UNCHANGED <<pc, ghosts>> /\ UNCHANGED link
  <2> PICK i : i = job[s].i
    OBVIOUS
  <2>1. Own(s, i) /\ i \in DOMAIN Copy(s).taps
    BY <1>1, <1>4, TurnIs DEF Own, Tap
  <2>2. Copy(s)' = Copy(s)
    BY <1>1, <1>4, NextTurnIs DEF SameJob
  <2>3. \A k \in DOMAIN Copy(s).taps : Served(s, k) => Served(s, k)'
    BY <1>4, <2>2 DEF Served, Serves, Connected, On, IsBridge, ghosts
  <2>4. Copy(s)'.taps[i].uart
    BY <1>4, <2>2 DEF Tap
  <2>5. Served(s, i)'
    BY <2>4 DEF Served
  <2> QED
    BY <1>1, <1>2, <1>4, <2>1, <2>3, <2>5, NextTurnSound DEF ghosts, TypeOK, Undisturbed, On, IsBridge
<1>5. CASE GiveUp(s) /\ UNCHANGED link
  <2>1. \A t \in Taps : Owner(s, t) => t \in Names(Copy(s).taps)
    BY <1>2, OwnerNames
  <2> QED
    BY <1>2, <1>5, <2>1, GiveUpSound
<1>6. CASE Loop(s) /\ UndoTurns(s) /\ UNCHANGED <<link, ghosts>>
  <2>1. pc[s] \notin Claiming
    BY <1>2 DEF Claiming
  <2>2. /\ Undisturbed(s) /\ excused' \subseteq Taps /\ stolen' \subseteq Sessions \X Taps
        /\ link' \in [Taps \cup Bridges -> Link] /\ maker' \in [Taps -> Sessions \cup {NoOne}]
        /\ \A x \in Taps : On(x)' /\ x \notin excused' =>
              On(x) /\ x \notin excused /\ maker'[x] = maker[x]
    BY <1>1, <1>6 DEF ghosts, TypeOK, Undisturbed, On, IsBridge
  <2> QED
    BY <1>2, <1>6, <2>1, <2>2, UndoTurnsSound
<1>7. ASSUME Loop(s), ~Tap(s).uart, NEW t, t = Tap(s).host, ~On(t),
             link' = [link EXCEPT ![t].on = TRUE],
             maker' = [maker EXCEPT ![t] = s],
             stolen' = stolen \ {<<s, t>>},
             job' = [job EXCEPT ![s].made = @ \cup {t}],
             Goto(s, "up"), UNCHANGED excused
      PROVE  HostInv'
  <2>1. /\ t \in Taps /\ job[s].i \in DOMAIN Copy(s).taps /\ t = Copy(s).taps[job[s].i].host
        /\ Tap(s) = Copy(s).taps[job[s].i] /\ job[s].i <= job[s].n
    BY <1>1, <1>7, TurnIs DEF Loop
  <2>2. /\ pc' \in [Sessions -> Phases] /\ pc'[s] = "up"
        /\ \A x \in Sessions \ {s} : pc'[x] = pc[x]
    <3>1. "up" \in Phases
      BY DEF Phases
    <3> QED
      BY <1>1, <1>7, <3>1, GotoIs
  <2> DEFINE j == [job[s] EXCEPT !.made = @ \cup {t}]
  <2>3. /\ j \in Job /\ j.copy = Copy(s) /\ j.i = job[s].i /\ j.n = job[s].n
        /\ j.fresh = job[s].fresh /\ j.again = job[s].again /\ j.after = job[s].after
        /\ j.made = job[s].made \cup {t}
    BY <1>1, <2>1, FieldsTyped DEF Job, Copy
  <2>4. /\ job' \in [Sessions -> Job] /\ job'[s] = j
        /\ \A x \in Sessions \ {s} : job'[x] = job[x]
    <3>1. job' = [job EXCEPT ![s] = j]
      BY <1>1, <1>7 DEF TypeOK
    <3> HIDE DEF j
    <3> QED
      BY <1>1, <2>3, <3>1 DEF TypeOK
  <2> HIDE DEF j
  <2>5. /\ Copy(s)' = Copy(s) /\ job'[s].i = job[s].i /\ job'[s].n = job[s].n
        /\ job'[s].fresh = job[s].fresh /\ job'[s].again = job[s].again
        /\ job'[s].after = job[s].after /\ job'[s].made = job[s].made \cup {t}
    BY <2>3, <2>4 DEF Copy
  <2>6. MovesOnly(s)
    BY <1>1, <1>2, <2>2, <2>4 DEF MovesOnly, TypeOK
  <2>7. /\ link' \in [Taps \cup Bridges -> Link] /\ link'[t].on
        /\ \A n \in (Taps \cup Bridges) \ {t} : link'[n] = link[n]
        /\ maker' \in [Taps -> Sessions \cup {NoOne}] /\ maker'[t] = s
        /\ \A x \in Taps \ {t} : maker'[x] = maker[x]
        /\ stolen' \subseteq Sessions \X Taps /\ excused' \subseteq Taps
    BY <1>1, <1>7, <2>1 DEF TypeOK, Link
  <2>8. \A b \in Bridges : b \in (Taps \cup Bridges) \ {t} /\ (IsBridge(b)' <=> IsBridge(b))
    BY <2>1, <2>7, NamesApart DEF IsBridge, On
  <2>9. Undisturbed(s)
    <3> SUFFICES ASSUME NEW x \in Sessions \ {s}, NEW y \in Taps
                 PROVE  /\ <<x, y>> \in stolen => <<x, y>> \in stolen'
                        /\ maker[y] = x /\ On(y) /\ (sessions[x].wired \/ y \in job[x].made) =>
                              /\ maker'[y] = x /\ On(y)' /\ (link[y].up => link'[y].up)
                              /\ \A b \in Bridges : link[y].master = b /\ IsBridge(b) =>
                                                       link'[y].master = b /\ IsBridge(b)'
      BY DEF Undisturbed
    <3>1. <<x, y>> \in stolen => <<x, y>> \in stolen'
      BY <1>7
    <3>2. CASE y = t
      BY <1>7, <3>1, <3>2
    <3>3. CASE y # t
      BY <2>7, <2>8, <3>1, <3>3 DEF On
    <3> QED
      BY <3>2, <3>3
  <2>10. CarrySound(s)'
    BY <1>1, <1>2, <1>7, <2>1, <2>2, <2>5
       DEF CarrySound, Loop, Tap, Mounting, Claiming, Launching, Present
  <2>11. ClaimSound(s)'
    <3>1. \A k \in DOMAIN Copy(s).taps : Own(s, k) => Own(s, k)'
      BY <2>5 DEF Own
    <3>2. \A k \in DOMAIN Copy(s).taps : k < job[s].i => Own(s, k)'
      BY <1>1, <1>2, <3>1 DEF ClaimSound
    <3>3. Own(s, job[s].i)'
      BY <2>1, <2>5 DEF Own
    <3> QED
      BY <2>2, <2>5, <3>2, <3>3 DEF ClaimSound, Finished, Claiming, Cleaning, Launching
  <2>12. WireSound(s)'
    <3>1. ASSUME NEW k \in DOMAIN Copy(s).taps, k < job[s].i, Served(s, k)
          PROVE  Served(s, k)'
      <4>1. CASE Copy(s).taps[k].uart
        BY <2>5, <4>1 DEF Served
      <4>2. CASE ~Copy(s).taps[k].uart
        <5> PICK e : e = Copy(s).taps[k]
          OBVIOUS
        <5>1. /\ e \in TapConfig /\ e.host \in Taps /\ e.host # t /\ Serves(s, e)
          <6>1. k # job[s].i /\ ValidTaps(Copy(s).taps) /\ e \in TapConfig /\ ~e.uart
            BY <1>1, <1>2, <3>1, <4>2, FieldsTyped DEF CarrySound
          <6> QED
            BY <1>7, <2>1, <3>1, <4>2, <6>1, TapTyped DEF ValidTaps, Served
        <5>2. <<s, e.host>> \in stolen => <<s, e.host>> \in stolen'
          BY <1>7, <5>1
        <5>3. Serves(s, e)'
          BY <1>1, <2>7, <2>8, <5>1, <5>2, StillServes
        <5>4. Copy(s)'.taps[k] = e
          BY <2>5
        <5> QED
          BY <5>3, <5>4 DEF Served, Serves, Connected, On, IsBridge
      <4> QED
        BY <4>1, <4>2
    <3>2. \A k \in DOMAIN Copy(s).taps : k < job[s].i => Served(s, k)'
      BY <1>1, <1>2, <3>1 DEF WireSound
    <3>3. Tap(s)'.host = t
      BY <2>1, <2>5 DEF Tap
    <3>4. Held(s, Tap(s).host)'
      BY <2>2, <2>7, <3>3 DEF Held, On
    <3> QED
      BY <1>2, <2>2, <2>5, <3>2, <3>4
         DEF WireSound, Finished, Mounting, Claiming, Cleaning, Launching
  <2>13. ASSUME NEW x \in Taps, On(x)', x \notin excused'
         PROVE  \/ /\ On(x) /\ x \notin excused /\ maker'[x] = maker[x]
                   /\ maker[x] = s /\ Owner(s, x) => Owner(s, x)'
                \/ maker'[x] = s /\ Owner(s, x)'
    <3>1. CASE x = t
      <4>1. Turn(s, t, 1, job[s].i)
        BY <1>2, <2>1 DEF Turn
      <4>2. Turn(s, t, 1, job[s].i)'
        BY <2>5, <4>1 DEF Turn
      <4> QED
        BY <2>2, <2>7, <3>1, <4>2 DEF Owner, Claiming
    <3>2. CASE x # t
      <4>1. On(x) /\ x \notin excused /\ maker'[x] = maker[x]
        BY <1>7, <2>7, <2>13, <3>2 DEF On
      <4>2. ASSUME Owner(s, x) PROVE Owner(s, x)'
        <5>1. CASE job[s].again /\ x \in Names(Copy(s).taps)
          BY <2>2, <2>5, <5>1 DEF Owner, Claiming
        <5>2. CASE Turn(s, x, 1, job[s].i - 1)
          <6>1. Turn(s, x, 1, job[s].i)
            BY <1>2, <5>2 DEF Turn
          <6>2. Turn(s, x, 1, job[s].i)'
            BY <2>5, <6>1 DEF Turn
          <6> QED
            BY <2>2, <6>2 DEF Owner, Claiming
        <5> QED
          BY <1>2, <4>2, <5>1, <5>2 DEF Owner, Claiming, Launching
      <4> QED
        BY <4>1, <4>2
    <3> QED
      BY <3>1, <3>2
  <2> QED
    BY <2>6, <2>7, <2>9, <2>10, <2>11, <2>12, <2>13, StepOf
<1> QED
  BY <1>3, <1>4, <1>5, <1>6, <1>7 DEF AddTap

(* The interfaces of the turns before are not the one of this turn. *)
LEMMA EarlierServed ==
    ASSUME HostInv, NEW s \in Sessions, pc[s] \in Claiming, Copy(s)' = Copy(s),
           NEW t, t = Tap(s).host, maker' = maker, stolen \subseteq stolen',
           \A n \in Taps \ {t} : link'[n] = link[n],
           \A b \in Bridges : IsBridge(b) => IsBridge(b)',
           NEW k \in DOMAIN Copy(s).taps, k < job[s].i, Served(s, k)
    PROVE  Served(s, k)'
<1>1. HostTyped /\ CarrySound(s) /\ Loop(s) /\ ~Tap(s).uart
  BY SoundOf DEF CarrySound
<1>2. CASE Copy(s).taps[k].uart
  BY <1>2 DEF Served
<1>3. CASE ~Copy(s).taps[k].uart
  <2> PICK e : e = Copy(s).taps[k]
    OBVIOUS
  <2>1. e \in TapConfig /\ k # job[s].i /\ ValidTaps(Copy(s).taps) /\ job[s].i \in DOMAIN Copy(s).taps
    BY <1>1, FieldsTyped, TurnIs DEF HostTyped, CarrySound
  <2>2. e.host \in Taps /\ e.host # t /\ Serves(s, e)
    BY <1>1, <1>3, <2>1, TapTyped DEF ValidTaps, Served, Tap
  <2>3. Serves(s, e)'
    BY <1>1, <2>1, <2>2, StillServes
  <2> QED
    BY <2>3 DEF Served, Serves, Connected, On, IsBridge
<1> QED
  BY <1>2, <1>3

(* The turn goes on with the interface that is held. *)
LEMMA ClaimGoesOn ==
    ASSUME HostInv, NEW s \in Sessions, pc[s] \in Claiming, Tap(s).bridge # NoIf,
           NEW next \in {"look", "newbridge", "attach"}, Goto(s, next),
           UNCHANGED <<job, sessions, minted, there, maker, excused, stolen>>, Undisturbed(s),
           link' \in [Taps \cup Bridges -> Link],
           \A x \in Taps : On(x)' <=> On(x),
           \A n \in Taps \ {Tap(s).host} : link'[n] = link[n],
           \A b \in Bridges : IsBridge(b) => IsBridge(b)',
           link[Tap(s).host].up => link'[Tap(s).host].up,
           pc[s] = "up" => link'[Tap(s).host].up
    PROVE  HostInv'
<1>1. HostTyped /\ TypeOK /\ CarrySound(s) /\ ClaimSound(s) /\ WireSound(s)
  BY SoundOf
<1>2. Loop(s) /\ ~Tap(s).uart /\ pc[s] \in Mounting
  BY <1>1 DEF CarrySound, Mounting
<1> PICK t : t = Tap(s).host
  OBVIOUS
<1>3. t \in Taps
  BY <1>1, <1>2, TurnIs
<1>4. /\ pc' \in [Sessions -> Phases] /\ pc'[s] = next
      /\ \A x \in Sessions \ {s} : pc'[x] = pc[x]
  BY <1>1, GotoIs DEF Phases
<1>5. MovesOnly(s)
  BY <1>1, <1>4 DEF MovesOnly, TypeOK
<1>6. Copy(s)' = Copy(s) /\ Tap(s)' = Tap(s) /\ job'[s] = job[s]
  BY DEF Copy, Tap
<1>7. CarrySound(s)'
  BY <1>1, <1>2, <1>4, <1>6
     DEF CarrySound, Loop, Mounting, Claiming, Launching, Present
<1>8. ClaimSound(s)'
  BY <1>1, <1>4, <1>6 DEF ClaimSound, Own, Finished, Claiming, Cleaning, Launching
<1>9. WireSound(s)'
  <2>1. \A k \in DOMAIN Copy(s).taps : k < job[s].i => Served(s, k)'
    BY <1>1, <1>6, EarlierServed DEF WireSound
  <2>2. Held(s, t)'
    BY <1>1, <1>3 DEF WireSound, Held, On
  <2>3. Held(s, Tap(s).host)'
    BY <1>6, <2>2 DEF Held, On
  <2> QED
    BY <1>1, <1>2, <1>4, <1>6, <2>1, <2>3
       DEF WireSound, Finished, Mounting, Claiming, Cleaning, Launching
<1>10. ASSUME NEW x \in Taps, Owner(s, x) PROVE Owner(s, x)'
  <2>1. \/ job[s].again /\ x \in Names(Copy(s).taps)
        \/ Turn(s, x, 1, job[s].i)
    BY <1>10 DEF Owner, Claiming, Launching
  <2>2. \/ job'[s].again /\ x \in Names(Copy(s).taps)'
        \/ Turn(s, x, 1, job[s].i)'
    BY <1>6, <2>1 DEF Turn
  <2> QED
    BY <1>4, <2>2 DEF Owner, Claiming
<1>11. /\ excused' \subseteq Taps /\ stolen' \subseteq Sessions \X Taps
       /\ maker' \in [Taps -> Sessions \cup {NoOne}]
       /\ \A x \in Taps : On(x)' /\ x \notin excused' =>
             On(x) /\ x \notin excused /\ maker'[x] = maker[x]
  BY <1>1 DEF TypeOK
<1> QED
  BY <1>5, <1>7, <1>8, <1>9, <1>10, <1>11, StepOf

LEMMA UpTapSound ==
    ASSUME HostInv, NEW s \in Sessions, UpTap(s)
    PROVE  HostInv'
<1>1. HostTyped /\ TypeOK /\ CarrySound(s) /\ ClaimSound(s) /\ WireSound(s)
  BY SoundOf
<1>2. /\ pc[s] = "up" /\ pc[s] \in Claiming /\ Loop(s) /\ ~Tap(s).uart
      /\ UNCHANGED <<sessions, minted, there>>
  BY <1>1 DEF CarrySound, UpTap, Claiming
<1>3. CASE DropTap(s)
  BY <1>2, <1>3, DropSound
<1>4. ASSUME NEW t, t = Tap(s).host, On(t), link' = [link EXCEPT ![t].up = TRUE], UNCHANGED ghosts,
             IF Tap(s).bridge = NoIf
             THEN Goto(s, "add") /\ NextTurn(s)
             ELSE Goto(s, "look") /\ UNCHANGED job
      PROVE  HostInv'
  <2>1. t \in Taps
    BY <1>1, <1>2, <1>4, TurnIs
  <2>2. /\ link' \in [Taps \cup Bridges -> Link]
        /\ link'[t].on = link[t].on /\ link'[t].master = link[t].master /\ link'[t].up
        /\ \A n \in (Taps \cup Bridges) \ {t} : link'[n] = link[n]
    BY <1>1, <1>4, <2>1 DEF TypeOK, Link
  <2>3. /\ \A b \in Bridges : b # t /\ (IsBridge(b)' <=> IsBridge(b))
        /\ \A x \in Taps : On(x)' <=> On(x)
    BY <2>1, <2>2, NamesApart DEF IsBridge, On
  <2>4. UNCHANGED <<maker, excused, stolen>>
    BY <1>4 DEF ghosts
  <2>5. Undisturbed(s)
    <3>1. \A y \in Taps : /\ link[y].up => link'[y].up
                          /\ link'[y].master = link[y].master
      BY <2>1, <2>2
    <3> QED
      BY <2>3, <2>4, <3>1 DEF Undisturbed
  <2>6. CASE Tap(s).bridge = NoIf
    <3> PICK i : i = job[s].i
      OBVIOUS
    <3>1. /\ pc' \in [Sessions -> Phases] /\ pc'[s] = "add"
          /\ \A x \in Sessions \ {s} : pc'[x] = pc[x]
      BY <1>1, <1>4, <2>6, GotoIs, PhasesAre
    <3>2. Copy(s)' = Copy(s) /\ Own(s, i) /\ Tap(s) = Copy(s).taps[i]
      BY <1>1, <1>2, <1>4, <2>6, NextTurnIs DEF SameJob, ClaimSound, Tap
    <3>3. \A k \in DOMAIN Copy(s).taps : k < job[s].i /\ Served(s, k) => Served(s, k)'
      BY <1>2, <1>4, <2>2, <2>3, <2>4, <3>2, EarlierServed
    <3> PICK e : e = Copy(s).taps[i]
      OBVIOUS
    <3>4. Held(s, t) /\ e.host = t /\ e.bridge = NoIf
      BY <1>1, <1>2, <1>4, <2>6, <3>2 DEF WireSound
    <3>5. Serves(s, e)'
      BY <2>2, <2>4, <3>4 DEF Held, Serves, Connected, On
    <3>6. Served(s, i)'
      BY <3>2, <3>5 DEF Served, Serves, Connected, On, IsBridge
    <3>7. stolen' \subseteq Sessions \X Taps /\ NextTurn(s)
      BY <1>1, <1>4, <2>4, <2>6 DEF TypeOK
    <3>8. pc[s] \in {"add"} \cup Claiming
      BY <1>2
    <3> QED
      BY <1>2, <2>2, <2>3, <2>4, <2>5, <3>1, <3>2, <3>3, <3>6, <3>7, <3>8, NextTurnSound
  <2>7. CASE Tap(s).bridge # NoIf
    BY <1>2, <1>4, <2>2, <2>3, <2>4, <2>5, <2>7, ClaimGoesOn
  <2> QED
    BY <2>6, <2>7
<1> QED
  BY <1>3, <1>4 DEF UpTap

LEMMA LookBridgeSound ==
    ASSUME HostInv, NEW s \in Sessions, LookBridge(s)
    PROVE  HostInv'
<1>1. HostTyped /\ TypeOK /\ CarrySound(s)
  BY SoundOf
<1>2. /\ pc[s] = "look" /\ pc[s] \in Claiming /\ Tap(s).bridge # NoIf
      /\ UNCHANGED <<sessions, minted, there>>
  BY <1>1 DEF CarrySound, LookBridge, Claiming
<1>3. CASE DropTap(s)
  BY <1>2, <1>3, DropSound
<1>4. CASE /\ Goto(s, IF On(Tap(s).bridge) THEN "attach" ELSE "newbridge")
           /\ UNCHANGED <<link, job, ghosts>>
  <2> PICK next : next = IF On(Tap(s).bridge) THEN "attach" ELSE "newbridge"
    OBVIOUS
  <2>1. next \in {"look", "newbridge", "attach"} /\ Goto(s, next)
    BY <1>4
  <2>2. /\ UNCHANGED <<job, sessions, minted, there, maker, excused, stolen, link>>
        /\ link' \in [Taps \cup Bridges -> Link]
    BY <1>1, <1>2, <1>4 DEF ghosts, TypeOK
  <2>3. Undisturbed(s)
    BY <2>2 DEF Undisturbed, On, IsBridge
  <2>4. /\ \A x \in Taps : On(x)' <=> On(x)
        /\ \A b \in Bridges : IsBridge(b) => IsBridge(b)'
    BY <2>2 DEF On, IsBridge
  <2> QED
    BY <1>2, <2>1, <2>2, <2>3, <2>4, ClaimGoesOn
<1> QED
  BY <1>3, <1>4 DEF LookBridge

(* A bridge that is made takes nothing from anyone. *)
LEMMA NewBridge ==
    ASSUME HostTyped, NEW b \in Bridges, ~On(b), NEW s,
           link' = [link EXCEPT ![b] = [Off EXCEPT !.on = TRUE, !.up = TRUE]],
           UNCHANGED <<maker, excused, stolen>>
    PROVE  /\ link' \in [Taps \cup Bridges -> Link]
           /\ \A n \in Taps : link'[n] = link[n]
           /\ \A x \in Bridges : IsBridge(x) => IsBridge(x)'
           /\ \A x \in Taps : On(x)' <=> On(x)
           /\ Undisturbed(s)
<1>1. [Off EXCEPT !.on = TRUE, !.up = TRUE] \in Link /\ [Off EXCEPT !.on = TRUE, !.up = TRUE].on
  BY DEF Off, Link
<1>2. /\ link' \in [Taps \cup Bridges -> Link] /\ link'[b].on
      /\ \A n \in (Taps \cup Bridges) \ {b} : link'[n] = link[n]
  BY <1>1 DEF HostTyped, TypeOK
<1>3. \A n \in Taps : link'[n] = link[n]
  BY <1>2, NamesApart
<1>4. /\ \A x \in Bridges : IsBridge(x) => IsBridge(x)'
      /\ \A x \in Taps : On(x)' <=> On(x)
  BY <1>2, <1>3 DEF IsBridge, On
<1> QED
  BY <1>2, <1>3, <1>4 DEF Undisturbed

LEMMA AddBridgeSound ==
    ASSUME HostInv, NEW s \in Sessions, AddBridge(s)
    PROVE  HostInv'
<1>1. HostTyped /\ TypeOK /\ CarrySound(s)
  BY SoundOf
<1>2. /\ pc[s] = "newbridge" /\ pc[s] \in Claiming /\ Tap(s).bridge # NoIf
      /\ UNCHANGED <<sessions, minted, there>>
  BY <1>1 DEF CarrySound, AddBridge, Claiming
<1>3. CASE DropTap(s)
  BY <1>2, <1>3, DropSound
<1>4. ASSUME NEW b, b = Tap(s).bridge, ~On(b),
             link' = [link EXCEPT ![b] = [Off EXCEPT !.on = TRUE, !.up = TRUE]],
             Goto(s, "attach"), UNCHANGED <<job, ghosts>>
      PROVE  HostInv'
  <2>1. b \in Bridges /\ Tap(s).host \in Taps
    BY <1>1, <1>2, <1>4, TurnIs DEF CarrySound
  <2>2. UNCHANGED <<maker, excused, stolen, job>>
    BY <1>4 DEF ghosts
  <2>3. /\ link' \in [Taps \cup Bridges -> Link]
        /\ \A n \in Taps : link'[n] = link[n]
        /\ \A x \in Bridges : IsBridge(x) => IsBridge(x)'
        /\ \A x \in Taps : On(x)' <=> On(x)
        /\ Undisturbed(s)
    BY <1>1, <1>4, <2>1, <2>2, NewBridge
  <2> QED
    BY <1>2, <1>4, <2>1, <2>2, <2>3, ClaimGoesOn
<1> QED
  BY <1>3, <1>4 DEF AddBridge

LEMMA AttachTapSound ==
    ASSUME HostInv, NEW s \in Sessions, AttachTap(s)
    PROVE  HostInv'
<1>1. HostTyped /\ TypeOK /\ CarrySound(s) /\ ClaimSound(s) /\ WireSound(s)
  BY SoundOf
<1>2. /\ pc[s] = "attach" /\ pc[s] \in Claiming /\ Loop(s) /\ ~Tap(s).uart
      /\ Tap(s).bridge # NoIf
      /\ UNCHANGED <<sessions, minted, there>>
  BY <1>1 DEF CarrySound, AttachTap, Claiming
<1>3. CASE DropTap(s)
  BY <1>2, <1>3, DropSound
<1>4. ASSUME NEW t, t = Tap(s).host, NEW b, b = Tap(s).bridge, IsBridge(b), On(t),
             Attach(s, t, b), Goto(s, "add"), NextTurn(s)
      PROVE  HostInv'
  <2>1. t \in Taps /\ b \in Bridges
    BY <1>1, <1>2, <1>4, TurnIs
  <2>2. /\ link' \in [Taps \cup Bridges -> Link]
        /\ link'[t].on = link[t].on /\ link'[t].master = b /\ link'[t].up = link[t].up
        /\ \A n \in (Taps \cup Bridges) \ {t} : link'[n] = link[n]
    BY <1>1, <1>4, <2>1 DEF TypeOK, Link, Attach
  <2>3. /\ \A x \in Bridges : x # t /\ (IsBridge(x)' <=> IsBridge(x))
        /\ \A x \in Taps : On(x)' <=> On(x)
    BY <2>1, <2>2, NamesApart DEF IsBridge, On
  <2>4. /\ maker' = maker /\ excused' = excused
        /\ stolen \subseteq stolen' /\ stolen' \subseteq Sessions \X Taps
        /\ link[t].master \notin {NoIf, b} => Robbed(s, {t})
    BY <1>1, <1>4, <2>1, RobbedIs DEF Attach, TypeOK
  <2>5. Undisturbed(s)
    <3> SUFFICES ASSUME NEW x \in Sessions \ {s}, NEW y \in Taps,
                        maker[y] = x, On(y), sessions[x].wired \/ y \in job[x].made
                 PROVE  \/ <<x, y>> \in stolen'
                        \/ /\ maker'[y] = x /\ On(y)' /\ (link[y].up => link'[y].up)
                           /\ \A c \in Bridges : link[y].master = c /\ IsBridge(c) =>
                                                    link'[y].master = c /\ IsBridge(c)'
      BY <2>4 DEF Undisturbed
    <3>1. CASE y # t
      BY <2>2, <2>3, <2>4, <3>1
    <3>2. CASE y = t /\ link[t].master \in {NoIf, b}
      BY <2>2, <2>3, <2>4, <3>2, NamesApart
    <3>3. CASE y = t /\ link[t].master \notin {NoIf, b}
      BY <1>1, <2>1, <2>4, <3>3, RobbedIs
    <3> QED
      BY <3>1, <3>2, <3>3
  <2> PICK i : i = job[s].i
    OBVIOUS
  <2>6. /\ pc' \in [Sessions -> Phases] /\ pc'[s] = "add"
        /\ \A x \in Sessions \ {s} : pc'[x] = pc[x]
    BY <1>1, <1>4, GotoIs, PhasesAre
  <2>7. Copy(s)' = Copy(s) /\ Own(s, i) /\ Tap(s) = Copy(s).taps[i]
    BY <1>1, <1>2, <1>4, NextTurnIs DEF SameJob, ClaimSound, Tap
  <2>8. \A k \in DOMAIN Copy(s).taps : k < job[s].i /\ Served(s, k) => Served(s, k)'
    BY <1>2, <1>4, <2>2, <2>3, <2>4, <2>7, EarlierServed
  <2> PICK e : e = Copy(s).taps[i]
    OBVIOUS
  <2>9. Held(s, t) /\ e.host = t /\ e.bridge = b
    BY <1>1, <1>2, <1>4, <2>7 DEF WireSound
  <2>10. Serves(s, e)'
    BY <1>2, <1>4, <2>1, <2>2, <2>3, <2>4, <2>9 DEF Held, Serves, Connected, On
  <2>11. Served(s, i)'
    BY <2>7, <2>10 DEF Served, Serves, Connected, On, IsBridge
  <2> QED
    BY <1>2, <1>4, <2>2, <2>3, <2>4, <2>5, <2>6, <2>7, <2>8, <2>11, NextTurnSound
<1> QED
  BY <1>3, <1>4 DEF AttachTap

-----------------------------------------------------------------------------
(* Undoing, and cleaning up                                                 *)

(* A turn of either loop: what is taken down needs an owner no more. *)
LEMMA RemovalTurnSound ==
    ASSUME HostInv, NEW s \in Sessions, pc[s] \in {"undo", "clean"}, Loop(s),
           RemoveTap(s, Tap(s).host), NextTurn(s), UNCHANGED <<pc, sessions, minted, there>>
    PROVE  HostInv'
<1>1. HostTyped /\ TypeOK /\ CarrySound(s) /\ ClaimSound(s) /\ WireSound(s)
  BY SoundOf
<1> PICK t : t = Tap(s).host
  OBVIOUS
<1>2. /\ link' \in [Taps \cup Bridges -> Link] /\ maker' \in [Taps -> Sessions \cup {NoOne}]
      /\ excused' \subseteq Taps /\ stolen' \subseteq Sessions \X Taps
      /\ Undisturbed(s)
      /\ \A x \in Taps : On(x)' /\ x \notin excused' =>
            x # t /\ On(x) /\ x \notin excused /\ maker'[x] = maker[x]
  BY <1>1, RemoveTapIs
<1>3. /\ job' \in [Sessions -> Job] /\ SameJob(s)
      /\ job'[s].i = job[s].i + 1 /\ job'[s].n = job[s].n
      /\ \A x \in Sessions \ {s} : job'[x] = job[x]
  BY <1>1, NextTurnIs
<1>4. job[s].i \in Nat /\ job[s].n \in Nat /\ DOMAIN Copy(s).taps = 1 .. Len(Copy(s).taps)
      /\ t = Copy(s).taps[job[s].i].host
  BY <1>1, FieldsTyped DEF Tap
<1>5. MovesOnly(s)
  BY <1>1, <1>3 DEF MovesOnly, TypeOK
<1>6. CarrySound(s)'
  BY <1>1, <1>3, <1>4
     DEF CarrySound, SameJob, Mounting, Claiming, Launching, Present
<1>7. ClaimSound(s)'
  BY <1>1, <1>3 DEF ClaimSound, Own, SameJob, Finished, Claiming, Cleaning, Launching
<1>8. WireSound(s)'
  BY <1>1, <1>3 DEF WireSound, SameJob, Finished, Mounting, Claiming, Cleaning, Launching
<1>9. ASSUME NEW x \in Taps, x # t, Owner(s, x) PROVE Owner(s, x)'
  <2>1. CASE pc[s] = "undo" /\ job[s].again /\ x \in Names(Copy(s).taps)
    BY <1>3, <2>1 DEF Owner, SameJob
  <2>2. CASE Turn(s, x, job[s].i, job[s].n)
    <3>1. PICK k \in DOMAIN Copy(s).taps :
            job[s].i <= k /\ k <= job[s].n /\ Copy(s).taps[k].host = x
      BY <2>2 DEF Turn
    <3>2. job[s].i + 1 <= k
      BY <1>4, <1>9, <3>1
    <3> QED
      BY <1>3, <3>1, <3>2 DEF Owner, SameJob, Turn
  <2> QED
    BY <1>9, <2>1, <2>2 DEF Owner, Claiming, Launching
<1> QED
  BY <1>2, <1>5, <1>6, <1>7, <1>8, <1>9, StepOf

LEMMA UndoTapSound ==
    ASSUME HostInv, NEW s \in Sessions, UndoTap(s)
    PROVE  HostInv'
<1>1. HostTyped /\ TypeOK /\ CarrySound(s) /\ WireSound(s)
  BY SoundOf
<1>2. pc[s] = "undo" /\ ~sessions[s].wired /\ UNCHANGED <<sessions, minted, there>>
  BY <1>1 DEF WireSound, UndoTap
<1>3. CASE Loop(s)
  BY <1>2, <1>3, RemovalTurnSound DEF UndoTap
<1>4. CASE ~Loop(s) /\ job[s].again
  <2>1. \A t \in Taps : Owner(s, t) => t \in Names(Copy(s).taps)
    BY <1>2, OwnerNames
  <2>2. GiveUp(s) /\ UNCHANGED link
    BY <1>4 DEF UndoTap
  <2> QED
    BY <1>2, <2>1, <2>2, GiveUpSound
<1>5. CASE ~Loop(s) /\ ~job[s].again
  <2>1. ASSUME NEW t \in Taps PROVE ~Owner(s, t)
    <3>1. job[s].i \in Nat /\ job[s].n \in Nat /\ DOMAIN Copy(s).taps = 1 .. Len(Copy(s).taps)
      BY <1>1, FieldsTyped
    <3>2. ~Turn(s, t, job[s].i, job[s].n)
      BY <1>5, <3>1 DEF Turn, Loop
    <3> QED
      BY <1>2, <1>5, <3>2 DEF Owner, Claiming, Launching
  <2>2. Withdraw(s) /\ UNCHANGED link
    BY <1>5 DEF UndoTap
  <2> QED
    BY <1>2, <2>1, <2>2, WithdrawSound
<1> QED
  BY <1>3, <1>4, <1>5

(* After the last turn an error path has them all to remove. *)
LEMMA RewindAllSound ==
    ASSUME HostInv, NEW s \in Sessions, pc[s] \in {"device", "create"},
           NEW next \in {"undo", "clean"}, Goto(s, next), Rewind(s, Len(Copy(s).taps)),
           UNCHANGED <<link, sessions, minted, there, ghosts>>
    PROVE  HostInv'
<1>1. HostTyped /\ TypeOK /\ CarrySound(s) /\ ClaimSound(s) /\ WireSound(s)
  BY SoundOf
<1>2. /\ Len(Copy(s).taps) \in Nat /\ DOMAIN Copy(s).taps = 1 .. Len(Copy(s).taps)
      /\ pc[s] \in Mounting
  BY <1>1, FieldsTyped DEF Mounting
<1>3. /\ pc' \in [Sessions -> Phases] /\ pc'[s] = next
      /\ \A x \in Sessions \ {s} : pc'[x] = pc[x]
  BY <1>1, PhasesAre, GotoIs DEF Cleaning
<1>4. /\ job' \in [Sessions -> Job] /\ SameJob(s)
      /\ job'[s].i = 1 /\ job'[s].n = Len(Copy(s).taps)
      /\ \A x \in Sessions \ {s} : job'[x] = job[x]
  BY <1>1, <1>2, RewindIs
<1>5. MovesOnly(s)
  BY <1>1, <1>3, <1>4 DEF MovesOnly, TypeOK
<1>6. CarrySound(s)'
  BY <1>1, <1>2, <1>3, <1>4 DEF CarrySound, SameJob, Mounting, Claiming, Launching, Present
<1>7. ClaimSound(s)'
  BY <1>1, <1>3, <1>4
     DEF ClaimSound, Own, SameJob, Finished, Claiming, Cleaning, Launching
<1>8. WireSound(s)'
  BY <1>1, <1>2, <1>3, <1>4
     DEF WireSound, CarrySound, SameJob, Finished, Mounting, Claiming, Cleaning, Launching
<1>9. ASSUME NEW x \in Taps, Owner(s, x) PROVE Owner(s, x)'
  <2>1. x \in Names(Copy(s).taps)
    BY <1>9, OwnerNames
  <2>2. PICK k \in DOMAIN Copy(s).taps : Copy(s).taps[k].host = x
    BY <2>1, NamesAre
  <2>3. Turn(s, x, job[s].i, job[s].n)'
    BY <1>2, <1>4, <2>2 DEF Turn, SameJob
  <2> QED
    BY <1>3, <2>3 DEF Owner
<1>10. excused' = excused /\ stolen' = stolen /\ maker' = maker /\ excused \subseteq Taps
  BY <1>1 DEF ghosts, TypeOK
<1> QED
  BY <1>5, <1>6, <1>7, <1>8, <1>9, <1>10, QuietStepOf

LEMMA MountTunDeviceSound ==
    ASSUME HostInv, NEW s \in Sessions, MountTunDevice(s)
    PROVE  HostInv'
<1>1. HostTyped /\ TypeOK /\ CarrySound(s) /\ ClaimSound(s) /\ WireSound(s)
  BY SoundOf
<1>2. /\ pc[s] = "device" /\ ~sessions[s].wired
      /\ UNCHANGED <<link, sessions, minted, there>>
  BY <1>1 DEF WireSound, MountTunDevice, Mounting
<1>3. CASE Goto(s, "create") /\ UNCHANGED <<job, ghosts>>
  <2>1. /\ pc' \in [Sessions -> Phases] /\ pc'[s] = "create"
        /\ \A x \in Sessions \ {s} : pc'[x] = pc[x]
    BY <1>1, <1>3, GotoIs, PhasesAre
  <2>2. MovesOnly(s) /\ Copy(s)' = Copy(s)
    BY <1>1, <1>2, <1>3, <2>1 DEF MovesOnly, TypeOK, Copy
  <2>3. CarrySound(s)'
    BY <1>1, <1>2, <1>3, <2>1, <2>2 DEF CarrySound, Mounting, Claiming, Launching, Present
  <2>4. ClaimSound(s)'
    BY <1>1, <1>2, <1>3, <2>1, <2>2
       DEF ClaimSound, Own, Finished, Claiming, Cleaning, Launching
  <2>5. WireSound(s)'
    <3>1. \A k \in DOMAIN Copy(s).taps : Served(s, k)
      BY <1>1, <1>2 DEF WireSound, Finished
    <3>2. \A k \in DOMAIN Copy(s).taps : Served(s, k)'
      BY <1>2, <1>3, <2>2, <3>1 DEF Served, Serves, Connected, On, IsBridge, ghosts
    <3> QED
      BY <1>2, <2>1, <2>2, <3>2
         DEF WireSound, Finished, Mounting, Claiming, Cleaning, Launching
  <2>6. \A t \in Taps : Owner(s, t) => Owner(s, t)'
    BY <1>2, <2>1, <2>2, OwnerNames DEF Owner
  <2>7. excused' = excused /\ stolen' = stolen /\ maker' = maker /\ excused \subseteq Taps
    BY <1>1, <1>3 DEF ghosts, TypeOK
  <2> QED
    BY <1>2, <2>2, <2>3, <2>4, <2>5, <2>6, <2>7, QuietStepOf
<1>4. CASE GiveUp(s)
  <2>1. \A t \in Taps : Owner(s, t) => t \in Names(Copy(s).taps)
    BY <1>2, OwnerNames
  <2> QED
    BY <1>2, <1>4, <2>1, GiveUpSound
<1>5. CASE Goto(s, "undo") /\ Rewind(s, Len(Copy(s).taps)) /\ UNCHANGED ghosts
  BY <1>2, <1>5, RewindAllSound
<1> QED
  BY <1>3, <1>4, <1>5 DEF MountTunDevice

-----------------------------------------------------------------------------
(* The rest of a start                                                      *)

LEMMA CreateContainerSound ==
    ASSUME HostInv, NEW s \in Sessions, CreateContainer(s)
    PROVE  HostInv'
<1>1. HostTyped /\ TypeOK /\ CarrySound(s) /\ ClaimSound(s) /\ WireSound(s)
  BY SoundOf
<1>2. /\ pc[s] = "create" /\ ~sessions[s].wired
      /\ UNCHANGED <<link, sessions, minted>>
  BY <1>1 DEF WireSound, CreateContainer, Mounting
<1>3. CASE /\ there' = there \cup {s}
           /\ job' = [job EXCEPT ![s].copy.cid = TRUE, ![s].fresh = TRUE]
           /\ Goto(s, "launch") /\ UNCHANGED ghosts
  <2> DEFINE r == [job[s].copy EXCEPT !.cid = TRUE]
             j == [job[s] EXCEPT !.copy = r, !.fresh = TRUE]
  <2>1. job[s] \in Job /\ job[s].copy \in Session /\ job \in [Sessions -> Job]
    BY <1>1, FieldsTyped DEF Copy, TypeOK
  <2>2. /\ r \in Session /\ r.cid /\ r.taps = job[s].copy.taps
        /\ r.state = job[s].copy.state /\ r.wired = job[s].copy.wired
    BY <2>1 DEF Session
  <2>3. job' = [job EXCEPT ![s] = j]
    BY <1>3, <2>1 DEF Job
  <2> HIDE DEF r
  <2>4. /\ j \in Job /\ j.copy = r /\ j.fresh /\ j.again = job[s].again /\ j.i = job[s].i
        /\ j.n = job[s].n /\ j.after = job[s].after /\ j.made = job[s].made
    BY <2>1, <2>2 DEF Job
  <2> HIDE DEF j
  <2>5. /\ job' \in [Sessions -> Job] /\ job'[s] = j
        /\ \A x \in Sessions \ {s} : job'[x] = job[x]
    BY <2>1, <2>3, <2>4
  <2>6. /\ Copy(s)'.taps = Copy(s).taps /\ Copy(s)'.state = Copy(s).state /\ Copy(s)'.cid
    BY <2>2, <2>4, <2>5 DEF Copy
  <2>7. /\ pc' \in [Sessions -> Phases] /\ pc'[s] = "launch"
        /\ \A x \in Sessions \ {s} : pc'[x] = pc[x]
    BY <1>1, <1>3, GotoIs, PhasesAre DEF Launching
  <2>8. MovesOnly(s)
    BY <1>1, <1>2, <1>3, <2>5, <2>7 DEF MovesOnly, TypeOK
  <2>9. CarrySound(s)'
    <3>1. ValidTaps(Copy(s).taps)'
      BY <1>1, <2>6 DEF CarrySound, ValidTaps
    <3> QED
      BY <1>1, <1>2, <2>4, <2>5, <2>6, <2>7, <3>1
         DEF CarrySound, Mounting, Claiming, Launching, Present
  <2>10. ClaimSound(s)'
    BY <1>1, <1>2, <2>4, <2>5, <2>6, <2>7
       DEF ClaimSound, Own, Finished, Claiming, Cleaning, Launching
  <2>11. WireSound(s)'
    <3>1. \A k \in DOMAIN Copy(s).taps : Served(s, k)
      BY <1>1, <1>2 DEF WireSound, Finished
    <3>2. \A k \in DOMAIN Copy(s).taps : Served(s, k)'
      BY <1>2, <1>3, <2>6, <3>1 DEF Served, Serves, Connected, On, IsBridge, ghosts
    <3> QED
      BY <1>2, <2>6, <2>7, <3>2
         DEF WireSound, Finished, Mounting, Claiming, Cleaning, Launching
  <2>12. ASSUME NEW t \in Taps, Owner(s, t) PROVE Owner(s, t)'
    <3>1. t \in Names(Copy(s).taps) /\ Copy(s).state # "absent"
      BY <1>1, <1>2, <2>12, OwnerNames DEF CarrySound, Mounting
    <3> QED
      BY <2>4, <2>5, <2>6, <2>7, <3>1 DEF Owner, Launching
  <2>13. excused' = excused /\ stolen' = stolen /\ maker' = maker /\ excused \subseteq Taps
    BY <1>1, <1>3 DEF ghosts, TypeOK
  <2> QED
    BY <1>2, <2>8, <2>9, <2>10, <2>11, <2>12, <2>13, QuietStepOf
<1>4. CASE Goto(s, "clean") /\ Rewind(s, Len(Copy(s).taps)) /\ UNCHANGED <<there, ghosts>>
  BY <1>2, <1>4, RewindAllSound
<1>5. CASE GiveUp(s) /\ UNCHANGED there
  <2>1. \A t \in Taps : Owner(s, t) => t \in Names(Copy(s).taps)
    BY <1>2, OwnerNames
  <2> QED
    BY <1>2, <1>5, <2>1, GiveUpSound
<1> QED
  BY <1>3, <1>4, <1>5 DEF CreateContainer

(* Without a container of its own, a start leaves the settings as they     *)
(* were, and the interfaces to them.                                       *)
LEMMA FailStartSound ==
    ASSUME HostInv, NEW s \in Sessions, pc[s] \in Launching, FailStart(s),
           UNCHANGED <<link, sessions, minted, there>>
    PROVE  HostInv'
<1>1. ~sessions[s].wired /\ pc[s] \notin {"idle", "halt", "forget"}
  BY SoundOf DEF WireSound, Launching
<1>2. CASE job[s].fresh
  <2>1. \A t \in Taps : Owner(s, t) => t \in Names(Copy(s).taps)
    BY <1>1, OwnerNames
  <2> QED
    BY <1>1, <1>2, <2>1, GiveUpSound DEF FailStart
<1>3. CASE ~job[s].fresh
  <2>1. \A t \in Taps : Owner(s, t) => Keeps(s, t)
    BY <1>3 DEF Owner, Claiming, Launching
  <2> QED
    BY <1>1, <1>3, <2>1, WithdrawSound DEF FailStart
<1> QED
  BY <1>2, <1>3

LEMMA LaunchContainerSound ==
    ASSUME HostInv, NEW s \in Sessions, LaunchContainer(s)
    PROVE  HostInv'
<1>1. HostTyped /\ TypeOK /\ CarrySound(s) /\ ClaimSound(s) /\ WireSound(s)
  BY SoundOf
<1>2. /\ pc[s] = "launch" /\ pc[s] \in Launching /\ ~sessions[s].wired
      /\ UNCHANGED <<link, sessions, minted, there>>
  BY <1>1 DEF WireSound, LaunchContainer, Launching
<1>3. CASE Goto(s, "verify") /\ UNCHANGED <<job, ghosts>>
  <2>1. /\ pc' \in [Sessions -> Phases] /\ pc'[s] = "verify"
        /\ \A x \in Sessions \ {s} : pc'[x] = pc[x]
    BY <1>1, <1>3, GotoIs, PhasesAre DEF Launching
  <2>2. MovesOnly(s) /\ Copy(s)' = Copy(s)
    BY <1>1, <1>2, <1>3, <2>1 DEF MovesOnly, TypeOK, Copy
  <2>3. CarrySound(s)'
    BY <1>1, <1>2, <1>3, <2>1, <2>2 DEF CarrySound, Mounting, Claiming, Launching, Present
  <2>4. ClaimSound(s)'
    BY <1>1, <1>2, <1>3, <2>1, <2>2
       DEF ClaimSound, Own, Finished, Claiming, Cleaning, Launching
  <2>5. WireSound(s)'
    <3>1. Finished(s)' => \A k \in DOMAIN Copy(s).taps : Served(s, k)
      BY <1>1, <1>2, <1>3, <2>1 DEF WireSound, Finished, Launching
    <3>2. Finished(s)' => \A k \in DOMAIN Copy(s).taps : Served(s, k)'
      BY <1>2, <1>3, <2>2, <3>1 DEF Served, Serves, Connected, On, IsBridge, ghosts
    <3> QED
      BY <1>2, <2>1, <2>2, <3>2
         DEF WireSound, Finished, Mounting, Claiming, Cleaning, Launching
  <2>6. \A t \in Taps : Owner(s, t) => Owner(s, t)'
    BY <1>2, <1>3, <2>1, <2>2 DEF Owner, Keeps, Present, Launching, Claiming
  <2>7. excused' = excused /\ stolen' = stolen /\ maker' = maker /\ excused \subseteq Taps
    BY <1>1, <1>3 DEF ghosts, TypeOK
  <2> QED
    BY <1>2, <2>2, <2>3, <2>4, <2>5, <2>6, <2>7, QuietStepOf
<1>4. CASE /\ Goto(s, "add")
           /\ job' = [job EXCEPT ![s].again = TRUE, ![s].i = 1, ![s].n = Len(Copy(s).taps)]
           /\ UNCHANGED ghosts
  <2>1. /\ job[s] \in Job /\ job \in [Sessions -> Job] /\ Len(Copy(s).taps) \in Nat
        /\ DOMAIN Copy(s).taps = 1 .. Len(Copy(s).taps)
    BY <1>1, FieldsTyped DEF TypeOK
  <2> DEFINE j == [job[s] EXCEPT !.again = TRUE, !.i = 1, !.n = Len(Copy(s).taps)]
  <2>2. job' = [job EXCEPT ![s] = j]
    BY <1>4, <2>1 DEF Job
  <2>3. /\ j \in Job /\ j.copy = Copy(s) /\ j.again /\ j.i = 1 /\ j.n = Len(Copy(s).taps)
        /\ j.after = job[s].after
    BY <2>1 DEF Job, Copy
  <2> HIDE DEF j
  <2>4. /\ job' \in [Sessions -> Job] /\ job'[s] = j /\ Copy(s)' = Copy(s)
        /\ \A x \in Sessions \ {s} : job'[x] = job[x]
    BY <2>1, <2>2, <2>3 DEF Copy
  <2>5. /\ pc' \in [Sessions -> Phases] /\ pc'[s] = "add"
        /\ \A x \in Sessions \ {s} : pc'[x] = pc[x]
    BY <1>1, <1>4, GotoIs, PhasesAre
  <2>6. MovesOnly(s)
    BY <1>1, <1>2, <2>4, <2>5 DEF MovesOnly, TypeOK
  <2>7. CarrySound(s)'
    BY <1>1, <1>2, <2>1, <2>3, <2>4, <2>5
       DEF CarrySound, Mounting, Claiming, Launching, Present
  <2>8. ClaimSound(s)' /\ WireSound(s)'
    <3>1. \A k \in DOMAIN Copy(s).taps : ~(k < 1)
      BY <2>1
    <3>2. ClaimSound(s)'
      BY <2>3, <2>4, <2>5, <3>1 DEF ClaimSound, Finished, Claiming, Cleaning, Launching
    <3>3. WireSound(s)'
      BY <1>2, <2>3, <2>4, <2>5, <3>1
         DEF WireSound, Finished, Mounting, Claiming, Cleaning, Launching
    <3> QED
      BY <3>2, <3>3
  <2>9. ASSUME NEW t \in Taps, Owner(s, t) PROVE Owner(s, t)'
    <3>1. t \in Names(Copy(s).taps)
      BY <1>2, <2>9, OwnerNames DEF Launching
    <3> QED
      BY <2>3, <2>4, <2>5, <3>1 DEF Owner
  <2>10. excused' = excused /\ stolen' = stolen /\ maker' = maker /\ excused \subseteq Taps
    BY <1>1, <1>4 DEF ghosts, TypeOK
  <2> QED
    BY <1>2, <2>6, <2>7, <2>8, <2>9, <2>10, QuietStepOf
<1>5. CASE FailStart(s)
  BY <1>2, <1>5, FailStartSound
<1> QED
  BY <1>3, <1>4, <1>5 DEF LaunchContainer

LEMMA VerifyLaunchSound ==
    ASSUME HostInv, NEW s \in Sessions, VerifyLaunch(s)
    PROVE  HostInv'
<1>1. HostTyped /\ TypeOK /\ CarrySound(s) /\ ClaimSound(s) /\ WireSound(s)
  BY SoundOf
<1>2. /\ pc[s] = "verify" /\ pc[s] \in Launching /\ ~sessions[s].wired
      /\ UNCHANGED <<link, sessions, minted, there>>
  BY <1>1 DEF WireSound, VerifyLaunch, Launching
<1>3. ASSUME NEW state \in Settled,
             job' = [job EXCEPT ![s].copy.state = state,
                          ![s].copy.wired = job[s].fresh /\ state = "running"],
             Goto(s, "store"), UNCHANGED ghosts
      PROVE  HostInv'
  <2>1. job[s] \in Job /\ job[s].copy \in Session /\ job \in [Sessions -> Job]
        /\ job[s].fresh \in BOOLEAN /\ state \in {"running", "stopped"}
    BY <1>1, FieldsTyped DEF Copy, TypeOK, Settled
  <2> DEFINE w == job[s].fresh /\ state = "running"
             r == [job[s].copy EXCEPT !.state = state, !.wired = w]
             j == [job[s] EXCEPT !.copy = r]
  <2>2. w \in BOOLEAN
    OBVIOUS
  <2>3. job' = [job EXCEPT ![s] = j]
    BY <1>3, <2>1 DEF Job
  <2>4. w => job[s].fresh /\ state = "running"
    OBVIOUS
  <2> HIDE DEF w
  <2>5. /\ r \in Session /\ r.cid = job[s].copy.cid /\ r.taps = job[s].copy.taps
        /\ r.state = state /\ r.wired = w
    BY <2>1, <2>2 DEF Session
  <2> HIDE DEF r
  <2>6. /\ j \in Job /\ j.copy = r /\ j.i = job[s].i /\ j.n = job[s].n /\ j.made = job[s].made
    BY <2>1, <2>5 DEF Job
  <2> HIDE DEF j
  <2>7. /\ job' \in [Sessions -> Job] /\ job'[s] = j
        /\ \A x \in Sessions \ {s} : job'[x] = job[x]
    BY <2>1, <2>3, <2>6
  <2>8. /\ Copy(s)'.taps = Copy(s).taps /\ Copy(s)'.state = state /\ state # "absent"
        /\ Copy(s)'.cid = Copy(s).cid
        /\ Copy(s)'.wired => job[s].fresh /\ state = "running"
    BY <2>1, <2>4, <2>5, <2>6, <2>7 DEF Copy
  <2>9. /\ pc' \in [Sessions -> Phases] /\ pc'[s] = "store"
        /\ \A x \in Sessions \ {s} : pc'[x] = pc[x]
    BY <1>1, <1>3, GotoIs, PhasesAre
  <2>10. MovesOnly(s)
    BY <1>1, <1>2, <2>7, <2>9 DEF MovesOnly, TypeOK
  <2>11. CarrySound(s)'
    <3>1. ValidTaps(Copy(s).taps)'
      BY <1>1, <2>8 DEF CarrySound, ValidTaps
    <3> QED
      BY <1>1, <1>2, <2>6, <2>7, <2>8, <2>9, <3>1
         DEF CarrySound, Mounting, Claiming, Launching, Present
  <2>12. Finished(s)' => Finished(s)
    BY <1>2, <2>8, <2>9 DEF Finished, Launching
  <2>13. ClaimSound(s)'
    BY <1>1, <2>6, <2>7, <2>8, <2>9, <2>12 DEF ClaimSound, Own, Claiming, Cleaning
  <2>14. WireSound(s)'
    <3>1. Finished(s) => \A k \in DOMAIN Copy(s).taps : Served(s, k)
      BY <1>1 DEF WireSound
    <3>2. Finished(s) => \A k \in DOMAIN Copy(s).taps : Served(s, k)'
      BY <1>2, <1>3, <2>8, <3>1 DEF Served, Serves, Connected, On, IsBridge, ghosts
    <3> QED
      BY <1>2, <2>8, <2>9, <2>12, <3>2 DEF WireSound, Mounting, Claiming, Cleaning, Launching
  <2>15. ASSUME NEW t \in Taps, Owner(s, t) PROVE Owner(s, t)'
    <3>1. t \in Names(Copy(s).taps) /\ Copy(s).cid
      BY <1>2, <2>15 DEF Owner, Claiming, Launching
    <3> QED
      BY <2>8, <2>9, <3>1 DEF Owner
  <2>16. excused' = excused /\ stolen' = stolen /\ maker' = maker /\ excused \subseteq Taps
    BY <1>1, <1>3 DEF ghosts, TypeOK
  <2> QED
    BY <1>2, <2>10, <2>11, <2>13, <2>14, <2>15, <2>16, QuietStepOf
<1>4. CASE FailStart(s)
  BY <1>2, <1>4, FailStartSound
<1> QED
  BY <1>3, <1>4 DEF VerifyLaunch

LEMMA WriteBackSound ==
    ASSUME HostInv, NEW s \in Sessions, WriteBack(s)
    PROVE  HostInv'
<1>1. HostTyped /\ TypeOK /\ CarrySound(s) /\ ClaimSound(s) /\ WireSound(s)
  BY SoundOf
<1>2. /\ pc[s] = "store" /\ Return(s) /\ sessions' = [sessions EXCEPT ![s] = Copy(s)]
      /\ UNCHANGED <<link, minted, there, maker, excused>>
      /\ Copy(s).wired => stolen' = stolen
      /\ stolen' = stolen \/ stolen' = Others(s)
  BY DEF WriteBack, Withdraw, ghosts
<1>3. /\ pc' \in [Sessions -> Phases] /\ pc'[s] = "idle"
      /\ job' \in [Sessions -> Job] /\ job'[s] = NoJob
      /\ \A x \in Sessions \ {s} : pc'[x] = pc[x] /\ job'[x] = job[x]
  BY <1>1, <1>2, ReturnIs
<1>4. /\ sessions' \in [Sessions -> Session] /\ sessions'[s] = Copy(s)
      /\ \A x \in Sessions \ {s} : sessions'[x] = sessions[x]
  BY <1>1, <1>2, FieldsTyped DEF TypeOK
<1>5. MovesOnly(s)
  BY <1>1, <1>2, <1>3, <1>4 DEF MovesOnly, TypeOK
<1>6. Copy(s)'.taps = <<>> /\ Copy(s)'.wired = FALSE /\ job'[s].i = 1 /\ job'[s].n = 0
  BY <1>3, NoJobIs DEF Copy
<1>7. CarrySound(s)'
  <2>1. Len(Copy(s)'.taps) = 0 /\ ValidTaps(Copy(s).taps)' /\ ValidTaps(sessions[s].taps)'
    BY <1>1, <1>4, <1>6, EmptyValid DEF CarrySound, ValidTaps
  <2> QED
    BY <1>1, <1>2, <1>3, <1>4, <1>6, <2>1
       DEF CarrySound, Mounting, Claiming, Launching, Present
<1>8. ClaimSound(s)'
  BY <1>3, <1>6 DEF ClaimSound, Finished, Claiming, Cleaning, Launching
<1>9. WireSound(s)'
  <2>1. ASSUME sessions'[s].wired, NEW e \in Kernel(sessions'[s].taps) PROVE Serves(s, e)'
    <3>1. PICK k \in DOMAIN Copy(s).taps : e = Copy(s).taps[k] /\ ~Copy(s).taps[k].uart
      BY <1>4, <2>1, KernelIs
    <3>2. Serves(s, e)
      BY <1>1, <1>2, <1>4, <2>1, <3>1 DEF WireSound, Finished, Served
    <3> QED
      BY <1>2, <1>4, <2>1, <3>2 DEF Serves, Connected, On, IsBridge
  <2>2. sessions'[s].wired => \A e \in Kernel(sessions[s].taps)' : Serves(s, e)'
    BY <2>1 DEF Kernel
  <2> QED
    BY <1>1, <1>2, <1>3, <1>4, <1>6, <2>2
       DEF WireSound, Finished, Mounting, Claiming, Cleaning, Launching
<1>10. ASSUME NEW t \in Taps, Owner(s, t) PROVE Owner(s, t)'
  <2>1. Copy(s).state # "absent" /\ Copy(s).cid /\ t \in Names(Copy(s).taps)
    BY <1>2, <1>10 DEF Owner, Claiming, Launching
  <2> QED
    BY <1>3, <1>4, <2>1 DEF Owner, Keeps, Present
<1>11. excused \subseteq excused' /\ excused' \subseteq Taps
  BY <1>1, <1>2 DEF TypeOK
<1> QED
  BY <1>2, <1>5, <1>7, <1>8, <1>9, <1>10, <1>11, QuietStepOf

-----------------------------------------------------------------------------
(* CleanupTapInterfaces                                                     *)

LEMMA CleanTapSound ==
    ASSUME HostInv, NEW s \in Sessions, CleanTap(s)
    PROVE  HostInv'
<1>1. HostTyped /\ TypeOK /\ CarrySound(s) /\ ClaimSound(s) /\ WireSound(s)
  BY SoundOf
<1>2. /\ pc[s] = "clean" /\ UNCHANGED <<sessions, minted, there>>
      /\ job[s].i \in Nat /\ job[s].n \in Nat /\ DOMAIN Copy(s).taps = 1 .. Len(Copy(s).taps)
  BY <1>1, FieldsTyped DEF CleanTap
<1>3. CASE Loop(s) /\ RemoveTap(s, Tap(s).host) /\ NextTurn(s) /\ UNCHANGED pc
  BY <1>2, <1>3, RemovalTurnSound
<1>4. CASE /\ Loop(s) /\ RemoveTap(s, Tap(s).host) /\ Tap(s).bridge # NoIf
           /\ Goto(s, "members") /\ UNCHANGED job
  <2> PICK t : t = Tap(s).host
    OBVIOUS
  <2>1. /\ link' \in [Taps \cup Bridges -> Link] /\ maker' \in [Taps -> Sessions \cup {NoOne}]
        /\ excused' \subseteq Taps /\ stolen' \subseteq Sessions \X Taps
        /\ Undisturbed(s)
        /\ \A x \in Taps : On(x)' /\ x \notin excused' =>
              x # t /\ On(x) /\ x \notin excused /\ maker'[x] = maker[x]
    BY <1>1, <1>4, RemoveTapIs
  <2>2. /\ pc' \in [Sessions -> Phases] /\ pc'[s] = "members"
        /\ \A x \in Sessions \ {s} : pc'[x] = pc[x]
    BY <1>1, <1>4, GotoIs, PhasesAre DEF Cleaning
  <2>3. MovesOnly(s) /\ Copy(s)' = Copy(s)
    BY <1>1, <1>2, <1>4, <2>2 DEF MovesOnly, TypeOK, Copy
  <2>4. CarrySound(s)'
    BY <1>1, <1>2, <1>4, <2>2, <2>3
       DEF CarrySound, Loop, Tap, Mounting, Claiming, Launching, Present
  <2>5. ClaimSound(s)' /\ WireSound(s)'
    BY <1>1, <1>2, <1>4, <2>2, <2>3
       DEF ClaimSound, WireSound, Own, Finished, Mounting, Claiming, Cleaning, Launching
  <2>6. ASSUME NEW x \in Taps, x # t, Owner(s, x) PROVE Owner(s, x)'
    <3>1. Turn(s, x, job[s].i, job[s].n)
      BY <1>2, <2>6 DEF Owner, Claiming, Launching
    <3>2. Turn(s, x, job[s].i + 1, job[s].n)
      BY <1>2, <2>6, <3>1 DEF Turn, Tap
    <3>3. Turn(s, x, job[s].i + 1, job[s].n)'
      BY <1>4, <2>3, <3>2 DEF Turn
    <3> QED
      BY <2>2, <3>3 DEF Owner
  <2> QED
    BY <2>1, <2>3, <2>4, <2>5, <2>6, StepOf
<1>5. ASSUME ~Loop(s), NEW t \in Taps PROVE ~Owner(s, t)
  <2>1. ~Turn(s, t, job[s].i, job[s].n)
    BY <1>2, <1>5 DEF Turn, Loop
  <2> QED
    BY <1>2, <2>1 DEF Owner, Claiming, Launching
<1>6. CASE /\ ~Loop(s) /\ job[s].after = "store" /\ Goto(s, "store")
           /\ UNCHANGED <<job, ghosts>> /\ UNCHANGED link
  <2>1. /\ pc' \in [Sessions -> Phases] /\ pc'[s] = "store"
        /\ \A x \in Sessions \ {s} : pc'[x] = pc[x]
    BY <1>1, <1>6, GotoIs, PhasesAre
  <2>2. MovesOnly(s) /\ Copy(s)' = Copy(s)
    BY <1>1, <1>2, <1>6, <2>1 DEF MovesOnly, TypeOK, Copy
  <2>3. CarrySound(s)'
    BY <1>1, <1>2, <1>6, <2>1, <2>2 DEF CarrySound, Mounting, Claiming, Launching, Present
  <2>4. ClaimSound(s)' /\ WireSound(s)'
    BY <1>1, <1>2, <1>6, <2>1, <2>2
       DEF ClaimSound, WireSound, Finished, Mounting, Claiming, Cleaning, Launching
  <2>5. excused' = excused /\ stolen' = stolen /\ maker' = maker /\ excused \subseteq Taps
    BY <1>1, <1>6 DEF ghosts, TypeOK
  <2> QED
    BY <1>5, <1>6, <2>2, <2>3, <2>4, <2>5, QuietStepOf
<1>7. CASE ~Loop(s) /\ job[s].after # "store" /\ Withdraw(s) /\ UNCHANGED link
  <2>1. ~sessions[s].wired
    BY <1>1, <1>2, <1>7 DEF WireSound, Cleaning
  <2> QED
    BY <1>2, <1>5, <1>7, <2>1, WithdrawSound
<1> QED
  BY <1>3, <1>4, <1>6, <1>7 DEF CleanTap

(* The bridge has been dealt with: on to the next interface. *)
LEMMA CleanGoesOn ==
    ASSUME HostInv, NEW s \in Sessions, pc[s] \in {"members", "dropbridge"},
           Goto(s, "clean"), NextTurn(s), UNCHANGED <<sessions, minted, there, maker, excused>>,
           Undisturbed(s), link' \in [Taps \cup Bridges -> Link],
           stolen' \subseteq Sessions \X Taps, \A x \in Taps : On(x)' => On(x)
    PROVE  HostInv'
<1>1. HostTyped /\ TypeOK /\ CarrySound(s) /\ ClaimSound(s) /\ WireSound(s)
  BY SoundOf
<1>2. /\ pc' \in [Sessions -> Phases] /\ pc'[s] = "clean"
      /\ \A x \in Sessions \ {s} : pc'[x] = pc[x]
  BY <1>1, GotoIs, PhasesAre DEF Cleaning
<1>3. /\ job' \in [Sessions -> Job] /\ SameJob(s)
      /\ job'[s].i = job[s].i + 1 /\ job'[s].n = job[s].n
      /\ \A x \in Sessions \ {s} : job'[x] = job[x]
  BY <1>1, NextTurnIs
<1>4. MovesOnly(s)
  BY <1>1, <1>2, <1>3 DEF MovesOnly, TypeOK
<1>5. CarrySound(s)'
  <2>1. job[s].i \in Nat
    BY <1>1, FieldsTyped
  <2> QED
    BY <1>1, <1>2, <1>3, <2>1 DEF CarrySound, SameJob, Mounting, Claiming, Launching, Present
<1>6. ClaimSound(s)'
  BY <1>1, <1>2, <1>3 DEF ClaimSound, Own, SameJob, Finished, Claiming, Cleaning, Launching
<1>7. WireSound(s)'
  BY <1>1, <1>2, <1>3
     DEF WireSound, SameJob, Finished, Mounting, Claiming, Cleaning, Launching
<1>8. ASSUME NEW x \in Taps, Owner(s, x) PROVE Owner(s, x)'
  <2>1. Turn(s, x, job[s].i + 1, job[s].n)
    BY <1>8 DEF Owner, Claiming, Launching
  <2>2. Turn(s, x, job[s].i, job[s].n)'
    BY <1>3, <2>1 DEF Turn, SameJob
  <2> QED
    BY <1>2, <2>2 DEF Owner
<1>9. /\ excused' \subseteq Taps /\ maker' \in [Taps -> Sessions \cup {NoOne}]
      /\ \A x \in Taps : On(x)' /\ x \notin excused' =>
            On(x) /\ x \notin excused /\ maker'[x] = maker[x]
  BY <1>1 DEF TypeOK
<1> QED
  BY <1>4, <1>5, <1>6, <1>7, <1>8, <1>9, StepOf

LEMMA LookMembersSound ==
    ASSUME HostInv, NEW s \in Sessions, LookMembers(s)
    PROVE  HostInv'
<1>1. HostTyped /\ TypeOK /\ CarrySound(s) /\ ClaimSound(s) /\ WireSound(s)
  BY SoundOf
<1>2. /\ pc[s] = "members" /\ UNCHANGED <<link, sessions, minted, there, maker, excused, stolen>>
  BY DEF LookMembers, ghosts
<1>3. CASE Goto(s, "dropbridge") /\ UNCHANGED job
  <2>1. /\ pc' \in [Sessions -> Phases] /\ pc'[s] = "dropbridge"
        /\ \A x \in Sessions \ {s} : pc'[x] = pc[x]
    BY <1>1, <1>3, GotoIs, PhasesAre DEF Cleaning
  <2>2. MovesOnly(s) /\ Copy(s)' = Copy(s)
    BY <1>1, <1>2, <1>3, <2>1 DEF MovesOnly, TypeOK, Copy
  <2>3. CarrySound(s)'
    BY <1>1, <1>2, <1>3, <2>1, <2>2
       DEF CarrySound, Loop, Tap, Mounting, Claiming, Launching, Present
  <2>4. ClaimSound(s)' /\ WireSound(s)'
    BY <1>1, <1>2, <1>3, <2>1, <2>2
       DEF ClaimSound, WireSound, Own, Finished, Mounting, Claiming, Cleaning, Launching
  <2>5. ASSUME NEW x \in Taps, Owner(s, x) PROVE Owner(s, x)'
    <3>1. Turn(s, x, job[s].i + 1, job[s].n)
      BY <1>2, <2>5 DEF Owner, Claiming, Launching
    <3>2. Turn(s, x, job[s].i + 1, job[s].n)'
      BY <1>3, <2>2, <3>1 DEF Turn
    <3> QED
      BY <2>1, <3>2 DEF Owner
  <2>6. excused \subseteq excused' /\ excused' \subseteq Taps
    BY <1>1, <1>2 DEF TypeOK
  <2> QED
    BY <1>2, <2>2, <2>3, <2>4, <2>5, <2>6, QuietStepOf
<1>4. CASE Goto(s, "clean") /\ NextTurn(s)
  <2>1. /\ Undisturbed(s) /\ link' \in [Taps \cup Bridges -> Link]
        /\ stolen' \subseteq Sessions \X Taps /\ \A x \in Taps : On(x)' => On(x)
    BY <1>1, <1>2 DEF TypeOK, Undisturbed, On, IsBridge
  <2> QED
    BY <1>2, <1>4, <2>1, CleanGoesOn
<1> QED
  BY <1>3, <1>4 DEF LookMembers

LEMMA DropBridgeSound ==
    ASSUME HostInv, NEW s \in Sessions, DropBridge(s)
    PROVE  HostInv'
<1>1. HostTyped /\ TypeOK /\ CarrySound(s)
  BY SoundOf
<1>2. /\ pc[s] = "dropbridge" /\ Goto(s, "clean") /\ NextTurn(s)
      /\ UNCHANGED <<sessions, minted, there, maker, excused>>
  BY DEF DropBridge
<1>3. CASE UNCHANGED <<link, stolen>>
  <2>1. /\ Undisturbed(s) /\ link' \in [Taps \cup Bridges -> Link]
        /\ stolen' \subseteq Sessions \X Taps /\ \A x \in Taps : On(x)' => On(x)
    BY <1>1, <1>2, <1>3 DEF TypeOK, Undisturbed, On, IsBridge
  <2> QED
    BY <1>2, <2>1, CleanGoesOn
<1>4. ASSUME NEW b, b = Tap(s).bridge,
             link' = [n \in DOMAIN link |->
                        IF n = b /\ b \notin Nics THEN Off
                        ELSE IF n = b THEN [link[n] EXCEPT !.up = FALSE]
                        ELSE IF link[n].master = b THEN [link[n] EXCEPT !.master = NoIf]
                        ELSE link[n]],
             Robbed(s, Members(b))
      PROVE  HostInv'
  <2>1. b \in Bridges
    BY <1>1, <1>2, <1>4, TurnIs DEF CarrySound
  <2>2. /\ link \in [Taps \cup Bridges -> Link] /\ Off \in Link /\ NoIf \notin Taps \cup Bridges
        /\ \A n \in Taps : n # b
    BY <1>1, <2>1, NamesApart DEF TypeOK, Off, Link
  <2>3. \A n \in Taps \cup Bridges : link'[n] \in Link
    BY <1>4, <2>2 DEF Link
  <2>4. link' \in [Taps \cup Bridges -> Link]
    BY <1>4, <2>2, <2>3
  <2>5. /\ \A n \in Taps : /\ link'[n].on = link[n].on /\ link'[n].up = link[n].up
                           /\ link[n].master # b => link'[n].master = link[n].master
        /\ \A n \in Bridges \ {b} : link'[n].on = link[n].on
    BY <1>4, <2>2 DEF Link
  <2>6. /\ stolen \subseteq stolen' /\ stolen' \subseteq Sessions \X Taps
        /\ \A x \in Sessions \ {s}, t \in Members(b) :
              maker[t] = x /\ (sessions[x].wired \/ t \in job[x].made) => <<x, t>> \in stolen'
    <3>1. Members(b) \subseteq Taps
      BY DEF Members
    <3> QED
      BY <1>1, <1>4, <3>1, RobbedIs
  <2>7. Undisturbed(s)
    <3> SUFFICES ASSUME NEW x \in Sessions \ {s}, NEW y \in Taps,
                        maker[y] = x, On(y), sessions[x].wired \/ y \in job[x].made
                 PROVE  \/ <<x, y>> \in stolen'
                        \/ /\ maker'[y] = x /\ On(y)' /\ (link[y].up => link'[y].up)
                           /\ \A c \in Bridges : link[y].master = c /\ IsBridge(c) =>
                                                    link'[y].master = c /\ IsBridge(c)'
      BY <2>6 DEF Undisturbed
    <3>1. CASE link[y].master = b
      BY <2>6, <3>1 DEF Members
    <3>2. CASE link[y].master # b
      BY <1>2, <2>5, <3>2 DEF On, IsBridge
    <3> QED
      BY <3>1, <3>2
  <2>8. \A x \in Taps : On(x)' => On(x)
    BY <2>5 DEF On
  <2> QED
    BY <1>2, <2>4, <2>6, <2>7, <2>8, CleanGoesOn
<1> QED
  BY <1>3, <1>4 DEF DropBridge

-----------------------------------------------------------------------------
(* The other handlers and the workers                                       *)

(* Steps that change the session and leave its handler idle. *)
LEMMA SettingsSound ==
    ASSUME HostInv, NEW s \in Sessions, pc[s] = "idle",
           NEW r \in Session, sessions' = [sessions EXCEPT ![s] = r],
           ~r.wired, ValidTaps(r.taps), r.state # "absent" => s \in minted',
           UNCHANGED <<link, pc, job, maker>>,
           minted \subseteq minted', minted' \subseteq Sessions, there' \subseteq Sessions,
           excused \subseteq excused', excused' \subseteq Taps,
           stolen' = stolen \/ stolen' = Others(s),
           \A t \in Taps : On(t) /\ t \notin excused' /\ maker[t] = s /\ Keeps(s, t) =>
              r.state # "absent" /\ r.cid /\ t \in Names(r.taps)
    PROVE  HostInv'
<1>1. HostTyped /\ TypeOK /\ CarrySound(s) /\ ClaimSound(s) /\ WireSound(s)
  BY SoundOf
<1>2. /\ sessions' \in [Sessions -> Session] /\ sessions'[s] = r
      /\ \A x \in Sessions \ {s} : sessions'[x] = sessions[x]
  BY <1>1 DEF TypeOK
<1>3. MovesOnly(s) /\ Copy(s)' = Copy(s) /\ pc'[s] = "idle"
  BY <1>1, <1>2 DEF MovesOnly, TypeOK, Copy
<1>4. CarrySound(s)'
  <2>1. ValidTaps(sessions[s].taps)'
    BY <1>2 DEF ValidTaps
  <2> QED
    BY <1>1, <1>2, <1>3, <2>1 DEF CarrySound, Mounting, Claiming, Launching, Present
<1>5. ClaimSound(s)'
  BY <1>3 DEF ClaimSound, Finished, Claiming, Cleaning, Launching
<1>6. WireSound(s)'
  BY <1>2, <1>3 DEF WireSound, Finished, Mounting, Claiming, Cleaning, Launching
<1>7. ASSUME NEW t \in Taps, On(t), t \notin excused', maker[t] = s, Owner(s, t)
      PROVE  Owner(s, t)'
  <2>1. Keeps(s, t)
    BY <1>7 DEF Owner, Claiming, Launching
  <2> QED
    BY <1>2, <1>3, <1>7, <2>1 DEF Owner, Keeps, Present
<1> QED
  BY <1>3, <1>4, <1>5, <1>6, <1>7, QuietStepOf

LEMMA CreateSessionSound ==
    ASSUME HostInv, NEW s \in Sessions, CreateSession(s)
    PROVE  HostInv'
<1>1. HostTyped /\ TypeOK /\ CarrySound(s)
  BY SoundOf
<1> DEFINE r == [NoSession EXCEPT !.state = "stopped"]
<1>2. r \in Session /\ ~r.wired /\ r.taps = <<>> /\ r.state = "stopped"
  BY DEF NoSession, Session
<1>3. pc[s] = "idle" /\ s \notin minted /\ ~Present(s)
  BY <1>1 DEF CreateSession, Idle, CarrySound
<1>4. /\ sessions' = [sessions EXCEPT ![s] = r] /\ minted' = minted \cup {s}
      /\ UNCHANGED <<link, there, pc, job, maker, excused, stolen>>
  BY DEF CreateSession, ghosts
<1> HIDE DEF r
<1>5. /\ minted \subseteq minted' /\ minted' \subseteq Sessions /\ there' \subseteq Sessions
      /\ excused \subseteq excused' /\ excused' \subseteq Taps /\ s \in minted'
  BY <1>1, <1>4 DEF TypeOK
<1>6. \A t \in Taps : ~Keeps(s, t)
  BY <1>3 DEF Keeps
<1> QED
  BY <1>2, <1>3, <1>4, <1>5, <1>6, EmptyValid, SettingsSound

LEMMA UpdateSessionSound ==
    ASSUME HostInv, NEW s \in Sessions, UpdateSession(s)
    PROVE  HostInv'
<1>1. HostTyped /\ TypeOK /\ CarrySound(s)
  BY SoundOf
<1>2. PICK c \in Configs :
        /\ pc[s] = "idle" /\ Present(s) /\ ValidTaps(c)
        /\ sessions' = [sessions EXCEPT ![s].taps = c, ![s].wired = FALSE]
        /\ excused' = excused \cup {t \in Names(sessions[s].taps) \ Names(c) :
                                      On(t) /\ maker[t] = s}
        /\ stolen' = Others(s)
        /\ UNCHANGED <<link, minted, there, pc, job, maker>>
  BY DEF UpdateSession, Idle
<1> DEFINE r == [sessions[s] EXCEPT !.taps = c, !.wired = FALSE]
<1>3. sessions[s] \in Session /\ sessions \in [Sessions -> Session]
  BY <1>1 DEF TypeOK
<1>4. /\ r \in Session /\ ~r.wired /\ r.taps = c
      /\ r.state = sessions[s].state /\ r.cid = sessions[s].cid
  BY <1>3 DEF Session
<1>5. sessions' = [sessions EXCEPT ![s] = r]
  BY <1>2, <1>3 DEF Session
<1> HIDE DEF r
<1>6. Names(sessions[s].taps) \subseteq Taps
  BY <1>1, FieldsTyped, NamesTyped
<1>7. /\ minted \subseteq minted' /\ minted' \subseteq Sessions /\ there' \subseteq Sessions
      /\ excused \subseteq excused' /\ excused' \subseteq Taps /\ s \in minted'
  BY <1>1, <1>2, <1>6 DEF TypeOK, CarrySound
<1>8. \A t \in Taps : On(t) /\ t \notin excused' /\ maker[t] = s /\ Keeps(s, t) =>
         r.state # "absent" /\ r.cid /\ t \in Names(r.taps)
  BY <1>2, <1>4 DEF Keeps, Present
<1> QED
  BY <1>2, <1>4, <1>5, <1>7, <1>8, SettingsSound

LEMMA EnforceTimeoutSound ==
    ASSUME HostInv, NEW s \in Sessions, EnforceTimeout(s)
    PROVE  HostInv'
<1>1. HostTyped /\ TypeOK /\ CarrySound(s)
  BY SoundOf
<1>2. /\ pc[s] = "idle" /\ sessions[s].state = "running"
      /\ sessions' = [sessions EXCEPT ![s].state = "stopped", ![s].wired = FALSE]
      /\ stolen' = Others(s)
      /\ UNCHANGED <<link, minted, there, pc, job, maker, excused>>
  BY DEF EnforceTimeout, Idle
<1> DEFINE r == [sessions[s] EXCEPT !.state = "stopped", !.wired = FALSE]
<1>3. sessions[s] \in Session /\ sessions \in [Sessions -> Session]
  BY <1>1 DEF TypeOK
<1>4. /\ r \in Session /\ ~r.wired /\ r.taps = sessions[s].taps
      /\ r.state = "stopped" /\ r.cid = sessions[s].cid
  BY <1>3 DEF Session
<1>5. sessions' = [sessions EXCEPT ![s] = r]
  BY <1>2, <1>3 DEF Session
<1> HIDE DEF r
<1>6. /\ minted \subseteq minted' /\ minted' \subseteq Sessions /\ there' \subseteq Sessions
      /\ excused \subseteq excused' /\ excused' \subseteq Taps /\ s \in minted'
      /\ ValidTaps(r.taps)
  BY <1>1, <1>2, <1>4 DEF TypeOK, CarrySound, Present
<1>7. \A t \in Taps : Keeps(s, t) => r.state # "absent" /\ r.cid /\ t \in Names(r.taps)
  BY <1>4 DEF Keeps
<1> QED
  BY <1>2, <1>4, <1>5, <1>6, <1>7, SettingsSound

LEMMA PruneSessionSound ==
    ASSUME HostInv, NEW s \in Sessions, PruneSession(s)
    PROVE  HostInv'
<1>1. HostTyped /\ TypeOK /\ CarrySound(s)
  BY SoundOf
<1>2. /\ pc[s] = "idle" /\ sessions' = [sessions EXCEPT ![s] = NoSession]
      /\ there' = IF sessions[s].cid THEN there \ {s} ELSE there
      /\ excused' = excused \cup {t \in Names(sessions[s].taps) : On(t) /\ maker[t] = s}
      /\ stolen' = Others(s)
      /\ UNCHANGED <<link, minted, pc, job, maker>>
  BY DEF PruneSession, Idle
<1>3. Names(sessions[s].taps) \subseteq Taps
  BY <1>1, FieldsTyped, NamesTyped
<1>4. /\ minted \subseteq minted' /\ minted' \subseteq Sessions /\ there' \subseteq Sessions
      /\ excused \subseteq excused' /\ excused' \subseteq Taps
  BY <1>1, <1>2, <1>3 DEF TypeOK
<1>5. \A t \in Taps : On(t) /\ maker[t] = s /\ Keeps(s, t) => t \in excused'
  BY <1>2 DEF Keeps
<1> QED
  BY <1>2, <1>4, <1>5, NoJobIs, EmptyValid, SettingsSound

LEMMA AcceptRestoreSound ==
    ASSUME HostInv, NEW s \in Sessions, AcceptRestore(s)
    PROVE  HostInv'
<1>1. HostTyped /\ TypeOK /\ CarrySound(s) /\ ClaimSound(s) /\ WireSound(s)
  BY SoundOf
<1>2. PICK old \in Sessions :
        /\ pc[s] = "idle" /\ s \notin minted /\ minted' = minted \cup {s}
        /\ job' = [job EXCEPT ![s] = [NoJob EXCEPT !.copy =
                     [sessions[old] EXCEPT !.state = "stopped", !.cid = FALSE,
                                           !.wired = FALSE]]]
        /\ Goto(s, "store")
        /\ UNCHANGED <<link, sessions, there, ghosts>>
  BY DEF AcceptRestore, Idle
<1> DEFINE r == [sessions[old] EXCEPT !.state = "stopped", !.cid = FALSE, !.wired = FALSE]
           j == [NoJob EXCEPT !.copy = r]
<1>3. sessions[old] \in Session /\ job \in [Sessions -> Job] /\ ValidTaps(sessions[old].taps)
      /\ Len(sessions[old].taps) \in Nat
  BY <1>1, FieldsTyped DEF TypeOK, HostTyped, CarrySound
<1>4. r \in Session /\ ~r.wired /\ r.taps = sessions[old].taps
  BY <1>3 DEF Session
<1>5. job' = [job EXCEPT ![s] = j]
  BY <1>2
<1> HIDE DEF r
<1>6. j \in Job /\ j.copy = r /\ j.i = 1 /\ j.n = 0
  BY <1>4 DEF NoJob, Job
<1> HIDE DEF j
<1>7. /\ job' \in [Sessions -> Job] /\ job'[s] = j
      /\ \A x \in Sessions \ {s} : job'[x] = job[x]
  BY <1>3, <1>5, <1>6
<1>8. /\ Copy(s)'.taps = sessions[old].taps /\ ~Copy(s)'.wired
  BY <1>4, <1>6, <1>7 DEF Copy
<1>9. /\ pc' \in [Sessions -> Phases] /\ pc'[s] = "store"
      /\ \A x \in Sessions \ {s} : pc'[x] = pc[x]
  BY <1>1, <1>2, GotoIs, PhasesAre
<1>10. MovesOnly(s)
  BY <1>1, <1>2, <1>7, <1>9 DEF MovesOnly, TypeOK
<1>11. CarrySound(s)'
  <2>1. /\ Len(Copy(s)'.taps) = Len(sessions[old].taps)
        /\ ValidTaps(Copy(s).taps)' /\ sessions'[s] = sessions[s]
    BY <1>2, <1>3, <1>8 DEF ValidTaps
  <2>2. job'[s].i >= 1 /\ job'[s].n <= Len(Copy(s)'.taps)
    BY <1>3, <1>6, <1>7, <2>1
  <2>3. s \in minted'
    BY <1>2
  <2>4. sessions' = sessions /\ ValidTaps(sessions[s].taps)
    BY <1>1, <1>2 DEF CarrySound
  <2>5. ValidTaps(sessions[s].taps)'
    BY <2>4 DEF ValidTaps
  <2> QED
    BY <1>9, <2>1, <2>2, <2>3, <2>5 DEF CarrySound, Mounting, Claiming, Launching
<1>12. ClaimSound(s)' /\ WireSound(s)'
  BY <1>1, <1>2, <1>8, <1>9
     DEF ClaimSound, WireSound, Finished, Mounting, Claiming, Cleaning, Launching
<1>13. \A t \in Taps : ~Owner(s, t)
  BY <1>1, <1>2 DEF CarrySound, Owner, Keeps, Claiming, Launching
<1>14. excused' = excused /\ stolen' = stolen /\ maker' = maker /\ excused \subseteq Taps
  BY <1>1, <1>2 DEF ghosts, TypeOK
<1> QED
  BY <1>2, <1>10, <1>11, <1>12, <1>13, <1>14, QuietStepOf

(* A stop or a delete begins: its loop is over the configuration as it is. *)
LEMMA AcceptSound ==
    ASSUME HostInv, NEW s \in Sessions, pc[s] = "idle", Present(s), NEW c \in Session,
           c.taps = sessions[s].taps, NEW after \in {"store", "end"},
           after = "store" => ~c.wired, NEW next,
           next = IF after = "store" THEN "halt" ELSE "forget", Goto(s, next),
           job' = [job EXCEPT ![s] = [NoJob EXCEPT !.copy = c, !.n = Len(sessions[s].taps),
                                                   !.after = after]],
           UNCHANGED <<link, sessions, minted, there, ghosts>>
    PROVE  HostInv'
<1>1. HostTyped /\ TypeOK /\ CarrySound(s) /\ ClaimSound(s) /\ WireSound(s)
  BY SoundOf
<1>2. Len(sessions[s].taps) \in Nat /\ job \in [Sessions -> Job]
  BY <1>1, FieldsTyped DEF TypeOK
<1> DEFINE j == [NoJob EXCEPT !.copy = c, !.n = Len(sessions[s].taps), !.after = after]
<1>3. j \in Job /\ j.copy = c /\ j.i = 1 /\ j.n = Len(sessions[s].taps) /\ j.after = after
  BY <1>2 DEF NoJob, Job
<1>4. job' = [job EXCEPT ![s] = j]
  OBVIOUS
<1> HIDE DEF j
<1>5. /\ job' \in [Sessions -> Job] /\ job'[s] = j /\ Copy(s)' = c
      /\ \A x \in Sessions \ {s} : job'[x] = job[x]
  BY <1>2, <1>3, <1>4 DEF Copy
<1>6. /\ pc' \in [Sessions -> Phases] /\ pc'[s] = next /\ next \in {"halt", "forget"}
      /\ \A x \in Sessions \ {s} : pc'[x] = pc[x]
  BY <1>1, GotoIs, PhasesAre
<1>7. MovesOnly(s)
  BY <1>1, <1>5, <1>6 DEF MovesOnly, TypeOK
<1>8. CarrySound(s)'
  <2>1. sessions'[s] = sessions[s] /\ ValidTaps(Copy(s).taps)' /\ s \in minted'
    BY <1>1, <1>5 DEF CarrySound, ValidTaps
  <2>2. /\ job'[s].i = 1 /\ job'[s].n = Len(Copy(s)'.taps) /\ Len(Copy(s)'.taps) \in Nat
        /\ Copy(s)'.taps = sessions'[s].taps /\ ValidTaps(sessions[s].taps)'
    BY <1>1, <1>2, <1>3, <1>5, <2>1 DEF CarrySound, ValidTaps
  <2>3. /\ pc'[s] = "halt" => job'[s].after = "store"
        /\ pc'[s] = "forget" => job'[s].after = "end"
    BY <1>3, <1>5, <1>6
  <2> QED
    BY <1>6, <2>1, <2>2, <2>3 DEF CarrySound, Mounting, Claiming, Launching
<1>9. ClaimSound(s)'
  BY <1>5, <1>6 DEF ClaimSound, Finished, Claiming, Cleaning, Launching
<1>10. WireSound(s)'
  <2>1. sessions[s].wired => \A e \in Kernel(sessions[s].taps) : Serves(s, e)'
    BY <1>1 DEF WireSound, Serves, Connected, On, IsBridge, ghosts
  <2>2. Kernel(sessions[s].taps)' = Kernel(sessions[s].taps)
    BY DEF Kernel
  <2> QED
    BY <1>1, <1>5, <1>6, <2>1, <2>2
       DEF WireSound, Finished, Mounting, Claiming, Cleaning, Launching
<1>11. ASSUME NEW t \in Taps, Owner(s, t) PROVE Owner(s, t)'
  <2>1. Keeps(s, t)
    BY <1>11 DEF Owner, Claiming, Launching
  <2> QED
    BY <1>6, <2>1 DEF Owner, Keeps, Present
<1>12. excused' = excused /\ stolen' = stolen /\ maker' = maker /\ excused \subseteq Taps
  BY <1>1 DEF ghosts, TypeOK
<1> QED
  BY <1>7, <1>8, <1>9, <1>10, <1>11, <1>12, QuietStepOf

LEMMA AcceptStopSound ==
    ASSUME HostInv, NEW s \in Sessions, AcceptStop(s)
    PROVE  HostInv'
<1> DEFINE c == [sessions[s] EXCEPT !.state = "stopped", !.wired = FALSE]
<1>1. sessions[s] \in Session
  BY SoundOf DEF TypeOK
<1>2. c \in Session /\ c.taps = sessions[s].taps /\ ~c.wired
  BY <1>1 DEF Session
<1>3. /\ pc[s] = "idle" /\ Present(s) /\ Goto(s, "halt")
      /\ job' = [job EXCEPT ![s] = [NoJob EXCEPT !.copy = c, !.n = Len(sessions[s].taps),
                                                 !.after = "store"]]
      /\ UNCHANGED <<link, sessions, minted, there, ghosts>>
  BY DEF AcceptStop, Idle, Present
<1> HIDE DEF c
<1> PICK after : after = "store"
  OBVIOUS
<1> PICK next : next = "halt"
  OBVIOUS
<1> QED
  BY <1>2, <1>3, AcceptSound

LEMMA AcceptDeleteSound ==
    ASSUME HostInv, NEW s \in Sessions, AcceptDelete(s)
    PROVE  HostInv'
<1>1. sessions[s] \in Session
  BY SoundOf DEF TypeOK
<1>2. /\ pc[s] = "idle" /\ Present(s) /\ Goto(s, "forget")
      /\ job' = [job EXCEPT ![s] = [NoJob EXCEPT !.copy = sessions[s],
                   !.n = Len(sessions[s].taps), !.after = "end"]]
      /\ UNCHANGED <<link, sessions, minted, there, ghosts>>
  BY DEF AcceptDelete, Idle
<1> PICK after : after = "end"
  OBVIOUS
<1> PICK next : next = "forget"
  OBVIOUS
<1> QED
  BY <1>1, <1>2, AcceptSound

LEMMA HaltContainerSound ==
    ASSUME HostInv, NEW s \in Sessions, HaltContainer(s)
    PROVE  HostInv'
<1>1. HostTyped /\ TypeOK /\ CarrySound(s) /\ ClaimSound(s) /\ WireSound(s)
  BY SoundOf
<1>2. /\ pc[s] = "halt" /\ UNCHANGED <<link, sessions, minted, there, maker, excused, stolen>>
      /\ Copy(s).taps = sessions[s].taps /\ job[s].i = 1 /\ job[s].n = Len(Copy(s).taps)
      /\ DOMAIN Copy(s).taps = 1 .. Len(Copy(s).taps) /\ Len(Copy(s).taps) \in Nat
      /\ job[s].after = "store" /\ ~Copy(s).wired
  BY <1>1, FieldsTyped DEF HaltContainer, ghosts, CarrySound, WireSound
<1>3. ASSUME NEW t \in Taps, Owner(s, t) PROVE Keeps(s, t)
  BY <1>2, <1>3 DEF Owner, Claiming, Launching
<1>4. excused \subseteq excused' /\ excused' \subseteq Taps
  BY <1>1, <1>2 DEF TypeOK
<1>5. CASE Goto(s, "clean") /\ UNCHANGED job
  <2>1. /\ pc' \in [Sessions -> Phases] /\ pc'[s] = "clean"
        /\ \A x \in Sessions \ {s} : pc'[x] = pc[x]
    BY <1>1, <1>5, GotoIs, PhasesAre DEF Cleaning
  <2>2. MovesOnly(s) /\ Copy(s)' = Copy(s)
    BY <1>1, <1>2, <1>5, <2>1 DEF MovesOnly, TypeOK, Copy
  <2>3. CarrySound(s)'
    BY <1>1, <1>2, <1>5, <2>1, <2>2 DEF CarrySound, Mounting, Claiming, Launching, Present
  <2>4. ClaimSound(s)' /\ WireSound(s)'
    BY <1>1, <1>2, <1>5, <2>1, <2>2
       DEF ClaimSound, WireSound, Finished, Mounting, Claiming, Cleaning, Launching
  <2>5. ASSUME NEW t \in Taps, Owner(s, t) PROVE Owner(s, t)'
    <3>1. PICK k \in DOMAIN Copy(s).taps : Copy(s).taps[k].host = t
      BY <1>2, <1>3, <2>5, NamesAre DEF Keeps
    <3>2. Turn(s, t, job[s].i, job[s].n)'
      BY <1>2, <1>5, <2>2, <3>1 DEF Turn
    <3> QED
      BY <2>1, <3>2 DEF Owner
  <2> QED
    BY <1>2, <1>4, <2>2, <2>3, <2>4, <2>5, QuietStepOf
<1>6. CASE Return(s)
  <2>1. /\ pc' \in [Sessions -> Phases] /\ pc'[s] = "idle"
        /\ job' \in [Sessions -> Job] /\ job'[s] = NoJob
        /\ \A x \in Sessions \ {s} : pc'[x] = pc[x] /\ job'[x] = job[x]
    BY <1>1, <1>6, ReturnIs
  <2>2. MovesOnly(s)
    BY <1>1, <1>2, <2>1 DEF MovesOnly, TypeOK
  <2>3. Copy(s)'.taps = <<>> /\ Copy(s)'.wired = FALSE /\ job'[s].i = 1 /\ job'[s].n = 0
    BY <2>1, NoJobIs DEF Copy
  <2>4. CarrySound(s)'
    <3>1. Len(Copy(s)'.taps) = 0 /\ ValidTaps(Copy(s)'.taps) /\ ValidTaps(Copy(s).taps)'
      BY <2>3, EmptyValid
    <3> QED
      BY <1>1, <1>2, <2>1, <2>3, <3>1 DEF CarrySound, Mounting, Claiming, Launching, Present
  <2>5. ClaimSound(s)'
    BY <2>1, <2>3 DEF ClaimSound, Finished, Claiming, Cleaning, Launching
  <2>6. WireSound(s)'
    <3>1. sessions[s].wired => \A e \in Kernel(sessions[s].taps) : Serves(s, e)'
      BY <1>1, <1>2 DEF WireSound, Serves, Connected, On, IsBridge
    <3>2. Kernel(sessions[s].taps)' = Kernel(sessions[s].taps)
      BY <1>2 DEF Kernel
    <3> QED
      BY <1>1, <1>2, <2>1, <2>3, <3>1, <3>2
         DEF WireSound, Finished, Mounting, Claiming, Cleaning, Launching
  <2>7. ASSUME NEW t \in Taps, Owner(s, t) PROVE Owner(s, t)'
    BY <1>2, <1>3, <2>1, <2>7 DEF Owner, Keeps, Present
  <2> QED
    BY <1>2, <1>4, <2>2, <2>4, <2>5, <2>6, <2>7, QuietStepOf
<1> QED
  BY <1>5, <1>6 DEF HaltContainer

LEMMA ForgetSessionSound ==
    ASSUME HostInv, NEW s \in Sessions, ForgetSession(s)
    PROVE  HostInv'
<1>1. HostTyped /\ TypeOK /\ CarrySound(s) /\ ClaimSound(s) /\ WireSound(s)
  BY SoundOf
<1>2. /\ pc[s] = "forget" /\ sessions' = [sessions EXCEPT ![s] = NoSession]
      /\ stolen' = Others(s) /\ Goto(s, "remove")
      /\ UNCHANGED <<link, minted, there, job, maker, excused>>
  BY DEF ForgetSession
<1>3. /\ pc' \in [Sessions -> Phases] /\ pc'[s] = "remove"
      /\ \A x \in Sessions \ {s} : pc'[x] = pc[x]
  BY <1>1, <1>2, GotoIs, PhasesAre
<1>4. /\ sessions' \in [Sessions -> Session] /\ sessions'[s] = NoSession
      /\ \A x \in Sessions \ {s} : sessions'[x] = sessions[x]
  BY <1>1, <1>2, NoJobIs DEF TypeOK
<1>5. MovesOnly(s) /\ Copy(s)' = Copy(s)
  BY <1>1, <1>2, <1>3, <1>4 DEF MovesOnly, TypeOK, Copy
<1>6. CarrySound(s)'
  <2>1. ValidTaps(sessions[s].taps)'
    BY <1>4, NoJobIs, EmptyValid
  <2> QED
    BY <1>1, <1>2, <1>3, <1>5, <2>1 DEF CarrySound, Mounting, Claiming, Launching
<1>7. ClaimSound(s)'
  BY <1>3 DEF ClaimSound, Finished, Claiming, Cleaning, Launching
<1>8. WireSound(s)'
  BY <1>3, <1>4, NoJobIs DEF WireSound, Finished, Mounting, Claiming, Cleaning, Launching
<1>9. ASSUME NEW t \in Taps, Owner(s, t) PROVE Owner(s, t)'
  <2>1. t \in Names(Copy(s).taps)
    BY <1>1, <1>2, <1>9 DEF CarrySound, Owner, Keeps, Claiming, Launching
  <2> QED
    BY <1>3, <1>5, <2>1 DEF Owner
<1>10. excused \subseteq excused' /\ excused' \subseteq Taps
  BY <1>1, <1>2 DEF TypeOK
<1> QED
  BY <1>2, <1>5, <1>6, <1>7, <1>8, <1>9, <1>10, QuietStepOf

LEMMA RemoveContainerSound ==
    ASSUME HostInv, NEW s \in Sessions, RemoveContainer(s)
    PROVE  HostInv'
<1>1. HostTyped /\ TypeOK /\ CarrySound(s) /\ ClaimSound(s) /\ WireSound(s)
  BY SoundOf
<1>2. /\ pc[s] = "remove" /\ there' \subseteq there /\ Goto(s, "clean")
      /\ UNCHANGED <<link, sessions, minted, job, maker, excused, stolen>>
      /\ job[s].i = 1 /\ job[s].n = Len(Copy(s).taps) /\ job[s].after = "end"
      /\ DOMAIN Copy(s).taps = 1 .. Len(Copy(s).taps) /\ Len(Copy(s).taps) \in Nat
  BY <1>1, FieldsTyped DEF RemoveContainer, ghosts, CarrySound
<1>3. /\ pc' \in [Sessions -> Phases] /\ pc'[s] = "clean"
      /\ \A x \in Sessions \ {s} : pc'[x] = pc[x]
  BY <1>1, <1>2, GotoIs, PhasesAre DEF Cleaning
<1>4. MovesOnly(s) /\ Copy(s)' = Copy(s)
  BY <1>1, <1>2, <1>3 DEF MovesOnly, TypeOK, Copy
<1>5. CarrySound(s)'
  BY <1>1, <1>2, <1>3, <1>4 DEF CarrySound, Mounting, Claiming, Launching, Present
<1>6. ClaimSound(s)' /\ WireSound(s)'
  BY <1>1, <1>2, <1>3, <1>4
     DEF ClaimSound, WireSound, Finished, Mounting, Claiming, Cleaning, Launching
<1>7. ASSUME NEW t \in Taps, Owner(s, t) PROVE Owner(s, t)'
  <2>1. PICK k \in DOMAIN Copy(s).taps : Copy(s).taps[k].host = t
    BY <1>2, <1>7, OwnerNames, NamesAre
  <2>2. Turn(s, t, job[s].i, job[s].n)'
    BY <1>2, <1>4, <2>1 DEF Turn
  <2> QED
    BY <1>3, <2>2 DEF Owner
<1>8. excused \subseteq excused' /\ excused' \subseteq Taps
  BY <1>1, <1>2 DEF TypeOK
<1> QED
  BY <1>2, <1>4, <1>5, <1>6, <1>7, <1>8, QuietStepOf

(* Nobody's handler moves: a change of the host that takes nothing away. *)
LEMMA NobodyMoves ==
    ASSUME HostInv, UNCHANGED <<sessions, minted, pc, job, maker, excused, stolen>>,
           there' \subseteq Sessions, link' \in [Taps \cup Bridges -> Link],
           Undisturbed(NoOne), \A x \in Taps : On(x)' <=> On(x)
    PROVE  HostInv'
<1>1. HostTyped /\ TypeOK
  BY DEF HostInv, HostTyped
<1>2. MovesOnly(NoOne)
  BY <1>1 DEF MovesOnly, TypeOK
<1>3. \A x \in Sessions : CarrySound(x)' /\ ClaimSound(x)' /\ WireSound(x)'
  BY <1>2, SessionsAssumption, OthersSound
<1>4. ASSUME NEW t \in Taps, OwnerSound(t) PROVE OwnerSound(t)'
  <2>1. ASSUME NEW x \in Sessions, Owner(x, t) PROVE Owner(x, t)'
    <3>1. pc'[x] = pc[x] /\ job'[x] = job[x] /\ sessions'[x] = sessions[x]
      OBVIOUS
    <3> QED
      BY <2>1, <3>1 DEF Owner, Turn, Keeps, Present, Copy
  <2> PICK m : m = maker[t]
    OBVIOUS
  <2>2. ASSUME On(t)', t \notin excused' PROVE m \in Sessions /\ Owner(m, t)'
    BY <1>4, <2>1, <2>2 DEF OwnerSound
  <2> QED
    BY <2>2 DEF OwnerSound, Owner, Turn, Keeps
<1>5. OwnersSound'
  BY <1>4 DEF HostInv, OwnersSound
<1>6. TypeOK'
  BY <1>1 DEF TypeOK
<1> QED
  BY <1>3, <1>5, <1>6 DEF HostInv, HostTyped, ClaimsSound, WiresSound

LEMMA ContainerVanishesSound ==
    ASSUME HostInv, NEW s \in Sessions, ContainerVanishes(s)
    PROVE  HostInv'
<1>1. TypeOK
  BY DEF HostInv, HostTyped
<1>2. /\ UNCHANGED <<link, sessions, minted, pc, job, maker, excused, stolen>>
      /\ there' \subseteq Sessions
  BY <1>1 DEF ContainerVanishes, ghosts, TypeOK
<1>3. /\ link' \in [Taps \cup Bridges -> Link] /\ Undisturbed(NoOne)
      /\ \A x \in Taps : On(x)' <=> On(x)
  BY <1>1, <1>2 DEF TypeOK, Undisturbed, On, IsBridge
<1> QED
  BY <1>2, <1>3, NobodyMoves

LEMMA SetupBridgeSound ==
    ASSUME HostInv, NEW b \in Bridges, SetupBridge(b)
    PROVE  HostInv'
<1>1. HostTyped /\ TypeOK
  BY DEF HostInv, HostTyped
<1>2. /\ ~On(b) /\ link' = [link EXCEPT ![b] = [Off EXCEPT !.on = TRUE, !.up = TRUE]]
      /\ UNCHANGED <<sessions, minted, pc, job, maker, excused, stolen>>
      /\ there' \subseteq Sessions
  BY <1>1 DEF SetupBridge, ghosts, TypeOK
<1>3. /\ link' \in [Taps \cup Bridges -> Link] /\ Undisturbed(NoOne)
      /\ \A x \in Taps : On(x)' <=> On(x)
  BY <1>1, <1>2, NewBridge
<1> QED
  BY <1>2, <1>3, NobodyMoves

-----------------------------------------------------------------------------

LEMMA HostStep == HostInv /\ [Next]_vars => HostInv'
<1> SUFFICES ASSUME HostInv, [Next]_vars PROVE HostInv'
  OBVIOUS
<1>1. ASSUME NEW s \in Sessions, Start(s) PROVE HostInv'
  BY <1>1, AcceptStartSound, MountsFailSound, AddTapSound, UpTapSound, LookBridgeSound,
     AddBridgeSound, AttachTapSound, UndoTapSound, MountTunDeviceSound,
     CreateContainerSound, LaunchContainerSound, VerifyLaunchSound DEF Start
<1>2. ASSUME NEW s \in Sessions, Handle(s) PROVE HostInv'
  BY <1>2, CreateSessionSound, UpdateSessionSound, AcceptRestoreSound, AcceptStopSound,
     HaltContainerSound, AcceptDeleteSound, ForgetSessionSound, RemoveContainerSound,
     CleanTapSound, LookMembersSound, DropBridgeSound, WriteBackSound DEF Handle
<1>3. ASSUME NEW s \in Sessions,
             EnforceTimeout(s) \/ PruneSession(s) \/ ContainerVanishes(s)
      PROVE  HostInv'
  BY <1>3, EnforceTimeoutSound, PruneSessionSound, ContainerVanishesSound
<1>4. ASSUME NEW b \in Bridges, SetupBridge(b) PROVE HostInv'
  BY <1>4, SetupBridgeSound
<1>5. CASE UNCHANGED vars
  <2>1. UNCHANGED <<link, sessions, minted, there, pc, job, maker, excused, stolen>>
    BY <1>5 DEF vars
  <2>2. /\ there' \subseteq Sessions /\ link' \in [Taps \cup Bridges -> Link]
        /\ Undisturbed(NoOne) /\ \A x \in Taps : On(x)' <=> On(x)
    BY <2>1 DEF HostInv, HostTyped, TypeOK, Undisturbed, On, IsBridge
  <2> QED
    BY <2>1, <2>2, NobodyMoves
<1> QED
  BY <1>1, <1>2, <1>3, <1>4, <1>5 DEF Next

LEMMA HostInvariant == Spec => []HostInv
  BY HostInit, HostStep, PTL DEF Spec

(* Every part of the host's and the handlers' state keeps its type, for    *)
(* any sessions, interfaces, configurations and failing commands: no turn  *)
(* of a loop over tap_interfaces is outside it, and a link's master is one *)
(* of the bridges.                                                         *)
THEOREM HostTypeCorrect == Spec => []TypeOK
<1>1. HostInv => TypeOK
  BY DEF HostInv, HostTyped
<1> QED
  BY <1>1, HostInvariant, PTL

(* Between handlers, every TAP on the host belongs to a session that keeps *)
(* it in its configuration, with a container, but for the paths without a  *)
(* clean-up: whichever of createTapMounts' and CreateContainer's commands  *)
(* fail, and whatever handlers of other sessions do in between.            *)
THEOREM TapsAreAccountedFor == Spec => []Accounted
<1>1. HostInv => Accounted
  <2> SUFFICES ASSUME HostInv, \A s \in Sessions : Idle(s), NEW t \in Taps \ excused, On(t)
               PROVE  Present(maker[t]) /\ sessions[maker[t]].cid /\ t \in Names(sessions[maker[t]].taps)
    BY DEF Accounted
  <2>1. maker[t] \in Sessions /\ Owner(maker[t], t)
    BY DEF HostInv, OwnersSound, OwnerSound
  <2>2. pc[maker[t]] = "idle"
    BY <2>1 DEF Idle
  <2> QED
    BY <2>1, <2>2 DEF Owner, Keeps, Claiming, Launching
<1> QED
  BY <1>1, HostInvariant, PTL

(* A session that runs as it was created has every TAP of its              *)
(* configuration up and on its bridge, unless another session has taken    *)
(* that TAP or bridge down or moved the TAP: whichever commands of its own *)
(* start, or of the starts that fail around it, have failed.               *)
THEOREM RunningSessionsStayConnected == Spec => []RunningIsConnected
<1>1. HostInv => RunningIsConnected
  BY DEF HostInv, WiresSound, WireSound, RunningIsConnected, Serves, Idle
<1> QED
  BY <1>1, HostInvariant, PTL

-----------------------------------------------------------------------------
(* What a failing start takes down                                          *)

LEMMA OthersWait ==
    ASSUME TypeOK, NEW s \in Sessions, NEW x \in Sessions \ {s}
    PROVE  /\ \A next : Goto(s, next) => pc'[x] = pc[x]
           /\ Return(s) => pc'[x] = pc[x] /\ job'[x] = job[x]
           /\ NextTurn(s) => job'[x] = job[x]
           /\ \A n : Rewind(s, n) => job'[x] = job[x]
  BY DEF TypeOK, Goto, Return, NextTurn, Rewind

(* A handler's place and its job are changed by that handler alone. *)
LEMMA OwnStepOnly ==
    ASSUME TypeOK, NEW s \in Sessions, NEW x \in Sessions \ {s},
           \/ Start(s) \/ Handle(s)
           \/ EnforceTimeout(s) \/ PruneSession(s) \/ ContainerVanishes(s)
    PROVE  pc'[x] = pc[x] /\ job'[x] = job[x]
<1>1. job \in [Sessions -> Job]
  BY DEF TypeOK
<1>2. GiveUp(s) \/ Withdraw(s) => pc'[x] = pc[x] /\ job'[x] = job[x]
  BY OthersWait DEF GiveUp, Withdraw
<1>3. UndoTurns(s) \/ DropTap(s) => pc'[x] = pc[x] /\ job'[x] = job[x]
  BY OthersWait DEF UndoTurns, DropTap
<1>4. FailStart(s) => pc'[x] = pc[x] /\ job'[x] = job[x]
  BY <1>2 DEF FailStart
<1>5. CASE AcceptStart(s) \/ MountsFail(s)
  BY <1>1, <1>2, <1>5, OthersWait DEF AcceptStart, MountsFail
<1>6. CASE AddTap(s)
  BY <1>1, <1>2, <1>3, <1>6, OthersWait DEF AddTap
<1>7. CASE UpTap(s) \/ LookBridge(s) \/ AddBridge(s) \/ AttachTap(s)
  BY <1>3, <1>7, OthersWait DEF UpTap, LookBridge, AddBridge, AttachTap
<1>8. CASE UndoTap(s) \/ MountTunDevice(s)
  BY <1>2, <1>8, OthersWait DEF UndoTap, MountTunDevice
<1>9. CASE CreateContainer(s)
  BY <1>1, <1>2, <1>9, OthersWait DEF CreateContainer
<1>10. CASE LaunchContainer(s) \/ VerifyLaunch(s)
  BY <1>1, <1>4, <1>10, OthersWait DEF LaunchContainer, VerifyLaunch
<1>11. CASE CreateSession(s) \/ UpdateSession(s) \/ EnforceTimeout(s) \/ PruneSession(s)
            \/ ContainerVanishes(s)
  BY <1>11 DEF CreateSession, UpdateSession, EnforceTimeout, PruneSession, ContainerVanishes
<1>12. CASE AcceptRestore(s) \/ AcceptStop(s) \/ AcceptDelete(s)
  BY <1>1, <1>12, OthersWait DEF AcceptRestore, AcceptStop, AcceptDelete
<1>13. CASE HaltContainer(s) \/ ForgetSession(s) \/ RemoveContainer(s) \/ WriteBack(s)
  BY <1>2, <1>13, OthersWait DEF HaltContainer, ForgetSession, RemoveContainer, WriteBack
<1>14. CASE CleanTap(s) \/ LookMembers(s) \/ DropBridge(s)
  BY <1>2, <1>14, OthersWait DEF CleanTap, LookMembers, DropBridge
<1> QED
  BY <1>5, <1>6, <1>7, <1>8, <1>9, <1>10, <1>11, <1>12, <1>13, <1>14 DEF Start, Handle

(* What the step of s takes down, its own `ip tuntap add` has made. *)
TakesOwn(s) ==
    \A t \in Taps : On(t) /\ ~On(t)' =>
       t \in job[s].made
       \/ \E i \in DOMAIN Copy(s).taps : Copy(s).taps[i].uart /\ Copy(s).taps[i].host = t

LEMMA RemovalTakesOwn ==
    ASSUME HostInv, NEW s \in Sessions, Loop(s), RemoveTap(s, Tap(s).host),
           NEW i, i = job[s].i, Own(s, i)
    PROVE  TakesOwn(s)
<1>1. HostTyped
  BY DEF HostInv
<1>2. \A t \in Taps : On(t) /\ ~On(t)' => t = Tap(s).host
  BY <1>1, RemoveTapIs
<1>3. i \in DOMAIN Copy(s).taps /\ Tap(s) = Copy(s).taps[i]
  BY <1>1, TurnIs
<1> QED
  BY <1>2, <1>3 DEF TakesOwn, Own

LEMMA DropTakesOwn ==
    ASSUME HostInv, NEW s \in Sessions, pc[s] \in Claiming, DropTap(s)
    PROVE  TakesOwn(s)
<1> PICK i : i = job[s].i
  OBVIOUS
<1>1. Loop(s) /\ Own(s, i)
  BY SoundOf DEF CarrySound, ClaimSound
<1> QED
  BY <1>1, RemovalTakesOwn DEF DropTap

LEMMA StartTakesOwn ==
    ASSUME HostInv, NEW s \in Sessions, Starting(s), Start(s) \/ Handle(s)
    PROVE  TakesOwn(s)
<1>1. HostTyped /\ TypeOK /\ CarrySound(s) /\ ClaimSound(s)
  BY SoundOf
<1>2. link \in [Taps \cup Bridges -> Link]
  BY <1>1 DEF TypeOK
<1>3. (\A t \in Taps : On(t) => On(t)') => TakesOwn(s)
  BY DEF TakesOwn
<1>4. UNCHANGED link => \A t \in Taps : On(t) => On(t)'
  BY DEF On
<1>5. CASE \/ AcceptStart(s) \/ MountsFail(s) \/ MountTunDevice(s) \/ CreateContainer(s)
           \/ LaunchContainer(s) \/ VerifyLaunch(s) \/ CreateSession(s) \/ UpdateSession(s)
           \/ AcceptRestore(s) \/ AcceptStop(s) \/ HaltContainer(s) \/ AcceptDelete(s)
           \/ ForgetSession(s) \/ RemoveContainer(s) \/ LookMembers(s) \/ WriteBack(s)
  <2>1. UNCHANGED link
    BY <1>5 DEF AcceptStart, MountsFail, MountTunDevice, CreateContainer, LaunchContainer,
          VerifyLaunch, CreateSession, UpdateSession, AcceptRestore, AcceptStop, HaltContainer,
          AcceptDelete, ForgetSession, RemoveContainer, LookMembers, WriteBack
  <2> QED
    BY <1>3, <1>4, <2>1
<1>6. CASE AddTap(s)
  <2>1. ASSUME NEW n, link' = [link EXCEPT ![n].on = TRUE] PROVE \A t \in Taps : On(t) => On(t)'
    BY <1>2, <2>1 DEF On, Link
  <2>2. UNCHANGED link \/ \E n : link' = [link EXCEPT ![n].on = TRUE]
    BY <1>6 DEF AddTap
  <2> QED
    BY <1>3, <1>4, <2>1, <2>2
<1>7. CASE UpTap(s)
  <2>1. ASSUME NEW n, link' = [link EXCEPT ![n].up = TRUE] PROVE \A t \in Taps : On(t) => On(t)'
    BY <1>2, <2>1 DEF On, Link
  <2>2. DropTap(s) \/ \E n : link' = [link EXCEPT ![n].up = TRUE]
    BY <1>7 DEF UpTap
  <2>3. pc[s] \in Claiming
    BY <1>7 DEF UpTap, Claiming
  <2> QED
    BY <1>3, <2>1, <2>2, <2>3, DropTakesOwn
<1>8. CASE LookBridge(s)
  <2>1. (DropTap(s) \/ UNCHANGED link) /\ pc[s] \in Claiming
    BY <1>8 DEF LookBridge, Claiming
  <2> QED
    BY <1>3, <1>4, <2>1, DropTakesOwn
<1>9. CASE AddBridge(s)
  <2>1. ASSUME NEW n, ~On(n), link' = [link EXCEPT ![n] = [Off EXCEPT !.on = TRUE, !.up = TRUE]]
        PROVE  \A t \in Taps : On(t) => On(t)'
    BY <1>2, <2>1 DEF On
  <2>2. DropTap(s) \/ \E n : ~On(n) /\ link' = [link EXCEPT ![n] = [Off EXCEPT !.on = TRUE, !.up = TRUE]]
    BY <1>9 DEF AddBridge
  <2>3. pc[s] \in Claiming
    BY <1>9 DEF AddBridge, Claiming
  <2> QED
    BY <1>3, <2>1, <2>2, <2>3, DropTakesOwn
<1>10. CASE AttachTap(s)
  <2>1. ASSUME NEW n, NEW b, link' = [link EXCEPT ![n].master = b]
        PROVE  \A t \in Taps : On(t) => On(t)'
    BY <1>2, <2>1 DEF On, Link
  <2>2. DropTap(s) \/ \E n, b : link' = [link EXCEPT ![n].master = b]
    BY <1>10 DEF AttachTap, Attach
  <2>3. pc[s] \in Claiming
    BY <1>10 DEF AttachTap, Claiming
  <2> QED
    BY <1>3, <2>1, <2>2, <2>3, DropTakesOwn
<1>11. CASE UndoTap(s) \/ CleanTap(s)
  <2>1. CASE Loop(s)
    <3> PICK i : i = job[s].i
      OBVIOUS
    <3>1. i \in DOMAIN Copy(s).taps /\ i <= job[s].n
      BY <1>1, <2>1, TurnIs DEF Loop
    <3>2. pc[s] = "undo" \/ (pc[s] \in Cleaning /\ job[s].after = "failed")
      BY <1>11 DEF UndoTap, CleanTap, Starting, Cleaning
    <3>3. Own(s, i)
      BY <1>1, <3>1, <3>2 DEF ClaimSound
    <3> QED
      BY <1>11, <2>1, <3>3, RemovalTakesOwn DEF UndoTap, CleanTap
  <2>2. CASE ~Loop(s)
    <3>1. UNCHANGED link
      BY <1>11, <2>2 DEF UndoTap, CleanTap
    <3> QED
      BY <1>3, <1>4, <3>1
  <2> QED
    BY <2>1, <2>2
<1>12. CASE DropBridge(s)
  BY <1>12 DEF DropBridge, Starting
<1> QED
  BY <1>5, <1>6, <1>7, <1>8, <1>9, <1>10, <1>11, <1>12 DEF Start, Handle

(* No failing start takes down an interface that it did not make itself,   *)
(* but for one a TUN-over-UART entry of its own names: a session that runs *)
(* on the same name keeps it.                                              *)
THEOREM FailedStartsAreHarmless == Spec => FailedStartHarmless
<1> DEFINE Step(s) ==
        Starting(s) /\ <<pc[s], job[s]>>' # <<pc[s], job[s]>> => TakesOwn(s)
<1>1. ASSUME HostInv, [Next]_vars, NEW s \in Sessions PROVE Step(s)
  <2>1. TypeOK
    BY <1>1 DEF HostInv, HostTyped
  <2> SUFFICES ASSUME Starting(s), pc'[s] # pc[s] \/ job'[s] # job[s] PROVE TakesOwn(s)
    OBVIOUS
  <2>2. PICK x \in Sessions : \/ Start(x) \/ Handle(x)
                              \/ EnforceTimeout(x) \/ PruneSession(x) \/ ContainerVanishes(x)
    BY <1>1 DEF Next, vars, SetupBridge
  <2>3. x = s
    BY <2>1, <2>2, OwnStepOnly
  <2>4. Start(s) \/ Handle(s)
    BY <2>2, <2>3 DEF EnforceTimeout, PruneSession, ContainerVanishes
  <2> QED
    BY <1>1, <2>4, StartTakesOwn
<1>2. HostInv /\ [Next]_vars =>
         [\A s \in Sessions :
             Starting(s) /\ <<pc[s], job[s]>>' # <<pc[s], job[s]>> =>
                \A t \in Taps : On(t) /\ ~On(t)' =>
                   t \in job[s].made
                   \/ \E i \in DOMAIN Copy(s).taps :
                         Copy(s).taps[i].uart /\ Copy(s).taps[i].host = t]_vars
  BY <1>1 DEF TakesOwn
<1> QED
  BY <1>2, HostInvariant, PTL DEF Spec, FailedStartHarmless

=============================================================================
