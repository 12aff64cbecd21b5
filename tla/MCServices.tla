----------------------------- MODULE MCServices -----------------------------
(***************************************************************************)
(* The components that share no variable, checked in one run: a behaviour  *)
(* is one of a component, while the others stay as they begin.             *)
(***************************************************************************)
EXTENDS SafeUpdate, AdminLogin, Methods, Bootstrap, Routes, WebAuthn

CONSTANT Parts    \* the components a behaviour may be one of

VARIABLE part

services == <<part, update, logins, methods, bootstrap, tables, ceremonies>>

\* A record is the set of those who changed it.  One updater at most may find
\* it changed by the other, and refuses.
MutateDef(u, v) ==
  IF v = Missing THEN {u}
  ELSE IF u \in v \/ (u \notin Creators /\ Cardinality(v) > 1) THEN Error
  ELSE v \cup {u}

\* "bob" is the beginning of "bobby".
BeginsDef(m, n) == m = n \/ (m = "bob" /\ n = "bobby")

ValuesDef == {{u} : u \in Updaters} \cup {Updaters}

SectionDef == [login |-> {"issuer", "methods"}, general |-> {"mail", "file"}]

OrderDef == <<"mail", "issuer", "file", "methods">>

\* Two hosts of a network; one name is both of them.
AboveDef == [host |-> {"host", "net"}, other |-> {"other", "net"}, net |-> {"net"}]

ResolveDef ==
  [host |-> <<"host">>, other |-> <<"other">>, net |-> <<"net">>, name |-> <<"host", "other">>]

Rule(kind, target, list) == [kind |-> kind, target |-> target, services |-> list]

ListsDef ==
  {<<>>,
   <<Rule("public", "net", <<"ssh", "web">>), Rule("deny", "host", <<"ssh">>)>>,
   <<Rule("mfa", "host", <<"web">>), Rule("public", "host", <<"ssh", "web">>)>>,
   <<Rule("mfa", "name", <<"web">>), Rule("deny", "name", <<"ssh">>)>>,
   <<Rule("mfa", "name", <<"web">>), Rule("public", "net", <<"ssh">>)>>,
   <<Rule("mfa", "other", <<"web">>), Rule("public", "name", <<"ssh">>)>>,
   <<Rule("mfa", "host", <<"web">>), Rule("mfa", "other", <<"web">>), Rule("deny", "net", <<"web">>)>>}

Init ==
  /\ part \in Parts
  /\ InitUpdate /\ InitLogin /\ InitMethods /\ InitBootstrap /\ InitRoutes
  /\ InitWebAuthn
  /\ part # "update" => stored = Missing
  /\ part # "login" => \A n \in AdminNames : admin[n] = NoAdmin
  /\ part # "methods" => setting.enabled = Mfa

Others(p) ==
  /\ part = p
  /\ UNCHANGED part
  /\ p # "update" => UNCHANGED update
  /\ p # "login" => UNCHANGED logins
  /\ p # "methods" => UNCHANGED methods
  /\ p # "bootstrap" => UNCHANGED bootstrap
  /\ p # "routes" => UNCHANGED tables
  /\ p # "webauthn" => UNCHANGED ceremonies

\* Bound: a behaviour of Methods ends with the save that overlaps, after which
\* MethodsFollowSettings says nothing.
Next ==
  \/ NextUpdate /\ Others("update")
  \/ NextLogin /\ Others("login")
  \/ NextMethods /\ ~overlapped /\ Others("methods")
  \/ NextBootstrap /\ Others("bootstrap")
  \/ NextRoutes /\ Others("routes")
  \/ NextWebAuthn /\ Others("webauthn")

Spec == Init /\ [][Next]_services

\* A component is as it began but in the behaviours of its own.
ServicesTypeOK ==
  CASE part = "update" -> UpdateTypeOK
    [] part = "login" -> LoginTypeOK
    [] part = "methods" -> MethodsTypeOK
    [] part = "bootstrap" -> BootstrapTypeOK
    [] part = "routes" -> RoutesTypeOK
    [] part = "webauthn" -> WebAuthnTypeOK
=============================================================================
