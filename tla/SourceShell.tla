------------------------------ MODULE SourceShell ------------------------------
(***************************************************************************)
(* What OBS sees of a native source, and the source behind it.  A public   *)
(* VDO.Ninja source is a wrapper: it creates a private child that plays    *)
(* the stream, a browser source or an internal native source, and mirrors  *)
(* to it whether OBS shows it and whether it is active.  The internal      *)
(* native source connects while it is active.                              *)
(*                                                                         *)
(* OBS calls a source from its tick, one callback at a time: a changed     *)
(* setting is applied at the next tick, and so is a change of the counts   *)
(* of its showing and active references.  The user changes them between    *)
(* any two callbacks.  The child is ticked the same way.                   *)
(*                                                                         *)
(* Left out: rendering, the audio that is passed on and its activation,    *)
(* and the properties dialog.                                              *)
(***************************************************************************)
EXTENDS Integers

CONSTANTS
  Streams,       \* the stream ids a user types
  Sizes,         \* the dimensions he types
  MaxChanges,    \* bound on the changes of the settings and references
  MaxAccidents   \* bound on the failures to create a child or to connect

ASSUME ShellAssumption ==
  "" \notin Streams /\ MaxChanges \in Nat /\ MaxAccidents \in Nat

VARIABLES
  user,      \* what the user last set: settings and references
  wrapper,   \* the wrapper's own fields
  child,     \* the children, by kind
  inner,     \* the internal native source behind the native child
  used       \* changes and accidents so far

shellVars == <<user, wrapper, child, inner, used>>

Kinds == {"browser", "native"}
Settings == [native: BOOLEAN, stream: Streams \cup {""}, size: Sizes]
Uses == {"showing", "active"}

NoSettings == [native |-> FALSE, stream |-> "", size |-> 0]

\* configured holds the settings the wrapper last handed to the child, refs
\* the references it took on it, pending an update OBS has not applied.
NoChild == [live |-> FALSE, configured |-> NoSettings,
            refs |-> [u \in Uses |-> 0], pending |-> FALSE]

NoInner == [settings |-> NoSettings, active |-> FALSE, running |-> FALSE,
            session |-> ""]

KindOf(settings) == IF settings.native THEN "native" ELSE "browser"

(***************************************************************************)
(* Steps of the wrapper, on a state [w, c, i] of wrapper, child and inner. *)
(***************************************************************************)
\* syncChildLifecycleState: what the callbacks said, or what OBS counts.
Synced(st, k) ==
  LET wants == [u \in Uses |-> st.w[u] \/ user[u]]
      step(u) == (IF wants[u] THEN 1 ELSE 0) - (IF st.w.mirrored[u] THEN 1 ELSE 0)
  IN [st EXCEPT !.w.mirrored = wants,
                !.c[k].refs = [u \in Uses |-> @[u] + step(u)]]

\* Mutant: the mirrored state outlives the child.
ReleasedMirrored(st, k) ==
  IF ~st.c[k].live THEN st
  ELSE [st EXCEPT !.c[k] = NoChild, !.i = IF k = "native" THEN NoInner ELSE @]

\* releaseNativeReceiverSource and releaseBrowserSource, with
\* detachChildLifecycleState; the last reference ends the internal source.
Released(st, k) ==
  IF ~st.c[k].live THEN st
  ELSE [st EXCEPT !.w.mirrored = [u \in Uses |-> FALSE],
                  !.c[k] = NoChild,
                  !.i = IF k = "native" THEN NoInner ELSE @]

\* ensureNativeReceiverSource and ensureBrowserSource, when OBS creates the
\* child and when it does not.
Ensured(st, k, creates) ==
  IF st.c[k].live THEN st
  ELSE IF ~creates THEN st
  ELSE Synced([st EXCEPT !.c[k] = [NoChild EXCEPT !.live = TRUE,
                                     !.configured = st.w.settings],
                         !.i = IF k = "native"
                               THEN [NoInner EXCEPT !.settings = st.w.settings]
                               ELSE @], k)

\* updateNativeReceiverSource and updateBrowserSource.
Updated(st, k, creates) ==
  IF st.w.settings.stream = "" THEN Released(st, k)
  ELSE LET there == Ensured(st, k, creates)
       IN IF ~there.c[k].live THEN there
          ELSE IF there.c[k].configured = st.w.settings THEN Synced(there, k)
          ELSE Synced([there EXCEPT !.c[k].configured = st.w.settings,
                                    !.c[k].pending = TRUE], k)

\* updateWrapperChildSource
ChildUpdated(st, creates) ==
  LET k == KindOf(st.w.settings)
      other == CHOOSE o \in Kinds : o # k
  IN Updated(Released(st, other), k, creates)

Now == [w |-> wrapper, c |-> child, i |-> inner]
Becomes(st) == wrapper' = st.w /\ child' = st.c /\ inner' = st.i

\* acquireActiveChildSource and syncChildLifecycleState
ActiveChildSynced(st) ==
  LET k == KindOf(st.w.settings)
  IN IF st.c[k].live THEN Synced(st, k) ELSE st

Created(creates) ==
  IF creates THEN used' = used
  ELSE used.accidents < MaxAccidents
         /\ used' = [used EXCEPT !.accidents = @ + 1]

(***************************************************************************)
(* The user, and the callbacks of the wrapper.                             *)
(***************************************************************************)
Change == used.changes < MaxChanges /\ used' = [used EXCEPT !.changes = @ + 1]

UserSets(settings) ==
  /\ Change /\ settings # user.settings
  /\ user' = [user EXCEPT !.settings = settings]
  /\ UNCHANGED <<wrapper, child, inner>>

UserUses(u) ==
  /\ Change /\ user' = [user EXCEPT ![u] = ~@]
  /\ UNCHANGED <<wrapper, child, inner>>

\* update()
Update(creates) ==
  /\ wrapper.settings # user.settings
  /\ Becomes(ChildUpdated([Now EXCEPT !.w.settings = user.settings], creates))
  /\ Created(creates) /\ UNCHANGED user

\* activate() and show()
Begin(u, creates) ==
  /\ user[u] /\ ~wrapper[u]
  /\ Becomes(ActiveChildSynced(
       ChildUpdated([Now EXCEPT !.w[u] = TRUE], creates)))
  /\ Created(creates) /\ UNCHANGED user

\* deactivate() and hide()
End(u) ==
  /\ ~user[u] /\ wrapper[u]
  /\ Becomes(ActiveChildSynced([Now EXCEPT !.w[u] = FALSE]))
  /\ UNCHANGED <<user, used>>

\* The destructor releases both children.
Destroy ==
  /\ \A u \in Uses : ~user[u] /\ ~wrapper[u]
  /\ wrapper.settings # NoSettings
  /\ Becomes([Released(Released(Now, "browser"), "native")
                EXCEPT !.w.settings = NoSettings])
  /\ user' = [user EXCEPT !.settings = NoSettings]
  /\ UNCHANGED used

(***************************************************************************)
(* The tick of the internal native source.                                 *)
(***************************************************************************)
\* connect() returns without a stream id; disconnect() ends the session.
Connected(i) ==
  IF i.settings.stream = "" THEN i
  ELSE [i EXCEPT !.running = TRUE, !.session = i.settings.stream]
Disconnected(i) == [i EXCEPT !.running = FALSE, !.session = ""]

\* sourceSettingsEqualForChild compares all but the dimensions.
ConnectionChanged(i, settings) == settings.stream # i.settings.stream

\* update() of the internal source
InnerUpdated(i, settings) ==
  LET loaded == [i EXCEPT !.settings = settings]
  IN IF ~i.active
     THEN IF i.running /\ ConnectionChanged(i, settings)
          THEN Disconnected(loaded) ELSE loaded
     ELSE IF ConnectionChanged(i, settings) THEN Connected(Disconnected(loaded))
     ELSE IF ~i.running THEN Connected(loaded)
     ELSE loaded

InnerUpdate ==
  /\ child["native"].live /\ child["native"].pending
  /\ inner' = InnerUpdated(inner, child["native"].configured)
  /\ child' = [child EXCEPT !["native"].pending = FALSE]
  /\ UNCHANGED <<user, wrapper, used>>

InnerActivate ==
  /\ child["native"].refs["active"] > 0 /\ ~inner.active
  /\ inner' = Connected([inner EXCEPT !.active = TRUE])
  /\ UNCHANGED <<user, wrapper, child, used>>

InnerDeactivate ==
  /\ child["native"].refs["active"] = 0 /\ inner.active
  /\ inner' = Disconnected([inner EXCEPT !.active = FALSE])
  /\ UNCHANGED <<user, wrapper, child, used>>

\* The connection thread fails: nativeRunning_ = false.
ConnectionFails ==
  /\ inner.running /\ used.accidents < MaxAccidents
  /\ inner' = [inner EXCEPT !.running = FALSE]
  /\ used' = [used EXCEPT !.accidents = @ + 1]
  /\ UNCHANGED <<user, wrapper, child>>

ShellInit ==
  /\ user \in [settings: {s \in Settings : s.stream # ""},
               showing: {FALSE}, active: {FALSE}]
  /\ wrapper = [settings |-> user.settings, showing |-> FALSE, active |-> FALSE,
                mirrored |-> [u \in Uses |-> FALSE]]
  /\ child = [k \in Kinds |-> NoChild]
  /\ inner = NoInner /\ used = [changes |-> 0, accidents |-> 0]

ShellNext ==
  \/ \E settings \in Settings : UserSets(settings)
  \/ \E u \in Uses : UserUses(u) \/ End(u) \/ \E c \in BOOLEAN : Begin(u, c)
  \/ \E c \in BOOLEAN : Update(c)
  \/ Destroy
  \/ InnerUpdate \/ InnerActivate \/ InnerDeactivate \/ ConnectionFails

ShellSpec == ShellInit /\ [][ShellNext]_shellVars

(***************************************************************************)
(* Properties.                                                             *)
(***************************************************************************)
\* Every variable has its type.
ShellTypeOK ==
  /\ user.settings \in Settings \cup {NoSettings}
  /\ wrapper.settings \in Settings \cup {NoSettings}
  /\ wrapper.mirrored \in [Uses -> BOOLEAN]
  /\ \A k \in Kinds : child[k].refs \in [Uses -> {0, 1}]
  /\ inner.running \in BOOLEAN

\* There is at most one child, of the kind and with the settings that the
\* wrapper has, and it is shown and active whenever the wrapper is, through
\* every change of mode, size and stream and every failure to create it; and
\* an internal source that plays is active, and plays what it was last told.
ChildFollowsWrapper ==
  /\ \A k \in Kinds : child[k].live =>
       /\ k = KindOf(wrapper.settings) /\ wrapper.settings.stream # ""
       /\ child[k].configured = wrapper.settings
       /\ \A u \in Uses : wrapper[u] => child[k].refs[u] = 1
  /\ inner.running => inner.active /\ inner.session = inner.settings.stream
===============================================================================
