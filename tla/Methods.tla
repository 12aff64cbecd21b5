------------------------------- MODULE Methods -------------------------------
(***************************************************************************)
(* The MFA methods a node offers (internal/webserver/authenticators), and  *)
(* how they follow the login settings in etcd (webserver/statemachine.go). *)
(*                                                                         *)
(* SetLoginSettings writes all settings in one transaction, so every save  *)
(* is an event of each of the four topics a node listens to, each handled  *)
(* in a goroutine of its own; settings are never deleted, and created      *)
(* before any node listens.  Settings other than the enabled methods are   *)
(* the number of the save they come from.  An Init reads them under the    *)
(* registry's lock, here in one step: the first of its reads, so that what *)
(* it read of a save in between counts as old.                             *)
(***************************************************************************)
EXTENDS Integers

CONSTANTS
  Mfa,        \* methods
  Fallible,   \* those whose Init may fail
  Oidc,
  ByIssuer,   \* totp and webauthn
  Broken,     \* what an Init that failed half way leaves of a method
  MaxSaves    \* bound: saves of the login settings

ASSUME MethodsAssumption ==
  /\ Fallible \subseteq Mfa /\ Oidc \in Mfa /\ ByIssuer \subseteq Mfa
  /\ MaxSaves \in Nat /\ Broken \notin Nat

VARIABLES
  setting,    \* the methods enabled in etcd, and the save they come from
  enabled,    \* methods switched on in this node
  built,      \* the save whose settings each was initialised with
  started,    \* whether AddMFARoutes has read the settings
  listening,  \* the topics webserver.Start has a listener for
  events,     \* handlers at work
  \* history
  failed,     \* methods whose Init failed since the last save
  overlapped  \* a save came between AddMFARoutes and the last listener, or
              \* before enabledMethodsChanged was done with another

methods == <<setting, enabled, built, started, listening, events, failed, overlapped>>

Topics == {"oidc", "domain", "methods", "issuer"}

\* The topics a topic is registered after.
Before == [oidc |-> {}, domain |-> {"oidc"}, methods |-> {"oidc", "domain"},
           issuer |-> {"oidc", "domain", "methods"}]

EventRecord == [topic: Topics, save: 1..MaxSaves, step: 1..3,
                current: SUBSET Mfa, previous: SUBSET Mfa]

InitMethods ==
  /\ setting \in [enabled: SUBSET Mfa \ {{}}, save: {0}]
  /\ enabled = {}
  /\ built = [m \in Mfa |-> 0]
  /\ started = FALSE /\ listening = {}
  /\ events = {}
  /\ failed = {} /\ overlapped = FALSE

-----------------------------------------------------------------------------
(* ReinitaliseMethods, called for the methods ms: those of fails fail.     *)
(* Every other one takes the settings as they are now.  One that fails may *)
(* have got rid of the details, provider or executor it had by then, and   *)
(* stays enabled if it was.                                                *)
Reinitialised(ms, fails) ==
  /\ \E halfway \in SUBSET fails :
       built' = [m \in Mfa |-> IF m \in halfway THEN Broken
                              ELSE IF m \in ms \ fails THEN setting.save ELSE built[m]]
  /\ failed' = failed \cup fails

Failures(ms) == SUBSET (ms \cap Fallible)

(* The methods it returns: the first failure is left out, and a second     *)
(* one, for want of a continue, is not.                                    *)
Initialised(ms, fails) ==
  IF fails = {} THEN {ms} ELSE {ms \ {first} : first \in fails}

\* A save overlaps with the start or with another save.
Overlapping ==
  (started /\ listening # Topics) \/ \E e \in events : e.topic = "methods"

\* What became of the methods is of use to enabledMethodsChanged only.
Event(t, ms) ==
  [topic |-> t, save |-> setting.save + 1, step |-> 1,
   current |-> IF t = "methods" THEN ms ELSE {},
   previous |-> IF t = "methods" THEN setting.enabled ELSE {}]

SetLoginSettings ==
  /\ setting.save < MaxSaves
  /\ \E ms \in SUBSET Mfa \ {{}} :
       /\ setting' = [enabled |-> ms, save |-> setting.save + 1]
       /\ events' = events \cup {Event(t, ms) : t \in listening}
  /\ failed' = {}
  /\ overlapped' = (overlapped \/ Overlapping)
  /\ UNCHANGED <<enabled, built, started, listening>>

(* webserver.Start: AddMFARoutes reads the methods, and one by one         *)
(* initialises and enables them; listening starts after that, one topic    *)
(* after the other.                                                        *)
AddMFARoutes ==
  /\ ~started
  /\ \E fails \in Failures(setting.enabled) :
       /\ Reinitialised(setting.enabled, fails)
       /\ enabled' = setting.enabled \ fails
  /\ started' = TRUE
  /\ UNCHANGED <<setting, listening, events, overlapped>>

RegisterListeners ==
  /\ started
  /\ \E t \in Topics \ listening :
       Before[t] \subseteq listening /\ listening' = listening \cup {t}
  /\ UNCHANGED <<setting, enabled, built, started, events, failed, overlapped>>

-----------------------------------------------------------------------------
Advanced(e) == [e EXCEPT !.step = @ + 1]

Continue(e) == events' = (events \ {e}) \cup {Advanced(e)}

Done(e) == events' = events \ {e}

(* oidcChanges and domainChanged read the methods and, if oidc is among    *)
(* them, initialise it.  If they cannot be read the handler returns.       *)
OidcChanges(e) ==
  /\ e.topic \in {"oidc", "domain"}
  /\ \/ /\ e.step = 1
        /\ (Oidc \in setting.enabled /\ Continue(e)) \/ Done(e)
        /\ UNCHANGED <<built, failed>>
     \/ /\ e.step = 2
        /\ \E fails \in Failures({Oidc}) : Reinitialised({Oidc}, fails)
        /\ Done(e)
  /\ UNCHANGED <<setting, enabled, started, listening, overlapped>>

\* Mistake: the methods that are new are disabled.
DisabledNew(e) == enabled \ e.current

(* DisableMethods, called with the methods of before, not with the new     *)
(* ones.                                                                   *)
Disabled(e) == enabled \ e.previous

(* enabledMethodsChanged takes the lock three times: DisableMethods,       *)
(* ReinitaliseMethods, EnableMethods.                                      *)
EnabledMethodsChanged(e) ==
  /\ e.topic = "methods"
  /\ \/ /\ e.step = 1
        /\ enabled' = Disabled(e)
        /\ Continue(e)
        /\ UNCHANGED <<built, failed>>
     \/ /\ e.step = 2
        /\ \E fails \in Failures(e.current) :
             /\ Reinitialised(e.current, fails)
             /\ \E out \in Initialised(e.current, fails) :
                  events' = (events \ {e}) \cup {[Advanced(e) EXCEPT !.current = out]}
        /\ UNCHANGED enabled
     \/ /\ e.step = 3
        /\ enabled' = enabled \cup e.current
        /\ Done(e)
        /\ UNCHANGED <<built, failed>>
  /\ UNCHANGED <<setting, started, listening, overlapped>>

IssuerKeyChanged(e) ==
  /\ e.topic = "issuer"
  /\ \E fails \in Failures(ByIssuer) : Reinitialised(ByIssuer, fails)
  /\ Done(e)
  /\ UNCHANGED <<setting, enabled, started, listening, overlapped>>

Handle(e) == OidcChanges(e) \/ EnabledMethodsChanged(e) \/ IssuerKeyChanged(e)

NextMethods ==
  \/ SetLoginSettings \/ AddMFARoutes \/ RegisterListeners
  \/ \E e \in events : Handle(e)

SpecMethods == InitMethods /\ [][NextMethods]_methods

-----------------------------------------------------------------------------
MethodsTypeOK ==
  /\ setting \in [enabled: SUBSET Mfa \ {{}}, save: 0..MaxSaves]
  /\ enabled \subseteq Mfa
  /\ built \in [Mfa -> 0..MaxSaves \cup {Broken}]
  /\ started \in BOOLEAN /\ listening \subseteq Topics /\ overlapped \in BOOLEAN
  /\ events \subseteq EventRecord
  /\ failed \subseteq Mfa

(* Of the methods the settings name none is off, of the others none is on, *)
(* and each has the settings as they were saved last; except that one      *)
(* whose Init has failed since may be off, old or broken.                  *)
InStep ==
  /\ enabled \subseteq setting.enabled
  /\ setting.enabled \subseteq enabled \cup failed
  /\ \A m \in enabled : built[m] = setting.save \/ m \in failed

Settled == listening = Topics /\ events = {}

(* Once its handlers are done a node is in step with the settings, in      *)
(* whichever order the four handlers of a save, their steps, and those of  *)
(* the other handlers of the next save come.  This is of a node on which   *)
(* no save came between its reading the settings and its listening to all  *)
(* of them, nor before enabledMethodsChanged was done with the save before *)
(* (overlapped).  Nothing in the code sees to that: of two saves in a row  *)
(* the older handler may end last, and a method it has switched on is not  *)
(* among those the newer one switches off.                                 *)
MethodsFollowSettings == Settled /\ ~overlapped => InStep
=============================================================================
