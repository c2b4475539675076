---------------------------- MODULE StartupProofs -----------------------------
(***************************************************************************)
(* For every list of ServiceRoot keys, every ServiceRoot and every guard:  *)
(* on each way through startup the client is closed once, the credentials  *)
(* travel together, and the UI is not drawn past a 401.                    *)
(***************************************************************************)
EXTENDS Startup, DataTheorems

\* clients is 0 or 1 only because every way out closes what was opened.
StartupInv == TypeOK /\ ClientsAreClosed

\* It holds at the start.
LEMMA InitStartupInv == Init => StartupInv
<1>1. [username |-> FALSE, password |-> FALSE] \in Config
  BY DEF Config
<1> QED
  BY <1>1, Zenon DEF Init, StartupInv, TypeOK, ClientsAreClosed, Stage

\* Every step keeps it.
LEMMA NextStartupInv == StartupInv /\ [Next]_vars => StartupInv'
<1> SUFFICES ASSUME StartupInv, [Next]_vars PROVE StartupInv'
  OBVIOUS
<1> USE DEF StartupInv, TypeOK, ClientsAreClosed, Stage, exit, goOn, given
<1>1. CASE parseFlags
  <2>1. resolved \in Config
    BY DEF resolved, Config, Args
  <2> QED
    BY <1>1, <2>1 DEF parseFlags
<1>2. CASE clientConfig
  BY <1>2 DEF clientConfig
<1>3. CASE connect
  BY <1>3 DEF connect
<1>4. CASE readRoot
  BY <1>4 DEF readRoot, abandon
<1>5. CASE probe
  BY <1>5 DEF probe, abandon
<1>6. CASE runUI
  BY <1>6 DEF runUI
<1>7. CASE Expire
  BY <1>7 DEF Expire
<1>8. CASE UNCHANGED vars
  BY <1>8 DEF vars
<1> QED
  BY <1>1, <1>2, <1>3, <1>4, <1>5, <1>6, <1>7, <1>8 DEF Next, Starting

\* It holds always.
LEMMA StartupInvariant == Spec => []StartupInv
  BY InitStartupInv, NextStartupInv, PTL DEF Spec

\* Startup's variables keep their types: no way through opens a second client, or
\* closes one twice.
THEOREM StartupTypes == Spec => []TypeOK
<1>1. StartupInv => TypeOK
  BY DEF StartupInv
<1> QED
  BY <1>1, StartupInvariant, PTL

\* From the moment gofish is connected to the end of run exactly one client is open,
\* and whatever fails after that closes it.
THEOREM NoClientIsLeft == Spec => []ClientsAreClosed
<1>1. StartupInv => ClientsAreClosed
  BY DEF StartupInv
<1> QED
  BY <1>1, StartupInvariant, PTL

-----------------------------------------------------------------------------
\* After parseFlags nothing changes who asks.
LEMMA ConfigStands ==
  ASSUME [Next]_vars, ~parseFlags
  PROVE  /\ UNCHANGED <<given, config>>
         /\ stage' # "flags" \/ stage = "flags"
         /\ stage = "flags" => stage' = "flags"
         /\ stage = "exited" => stage' = "exited"
<1> USE DEF exit, goOn
<1>1. CASE clientConfig \/ connect \/ readRoot \/ probe
  BY <1>1 DEF clientConfig, connect, readRoot, probe, abandon
<1>2. CASE runUI \/ Expire
  BY <1>2 DEF runUI, Expire
<1>3. CASE UNCHANGED vars
  BY <1>3 DEF vars
<1> QED
  BY <1>1, <1>2, <1>3 DEF Next, Starting

\* No request goes out with half of the credentials, and none anonymously when a
\* password was given.
THEOREM NoHalfCredentials == Spec => []CredentialsComeTogether
<1>1. Init => CredentialsComeTogether
  <2>1. /\ [username |-> FALSE, password |-> FALSE].username = FALSE
        /\ [username |-> FALSE, password |-> FALSE].password = FALSE
    OBVIOUS
  <2> QED
    BY <2>1, Zenon DEF Init, CredentialsComeTogether
<1>2. TypeOK /\ CredentialsComeTogether /\ [Next]_vars => CredentialsComeTogether'
  <2> SUFFICES ASSUME TypeOK, CredentialsComeTogether, [Next]_vars
               PROVE  CredentialsComeTogether'
    OBVIOUS
  <2>1. CASE ~parseFlags
    BY <2>1, ConfigStands DEF CredentialsComeTogether, given
  <2>2. CASE parseFlags /\ stage' = "exited"
    <3>1. UNCHANGED config
      BY <2>2 DEF parseFlags, exit, goOn
    <3> QED
      BY <2>2, <3>1 DEF CredentialsComeTogether
  <2>3. CASE parseFlags /\ stage' # "exited"
    <3>1. config' = resolved /\ ~incomplete /\ UNCHANGED given
      BY <2>3 DEF parseFlags, exit
    <3>2. /\ resolved.username = args.username
          /\ resolved.password = (args.password \/ env)
      BY DEF resolved
    <3> QED
      BY <3>1, <3>2, Zenon DEF CredentialsComeTogether, incomplete, given
  <2> QED
    BY <2>1, <2>2, <2>3
<1> QED
  BY <1>1, <1>2, StartupTypes, PTL DEF Spec

-----------------------------------------------------------------------------
\* A ServiceRoot that offers anything has something to probe: the first key with a
\* resource, however many of the keys before it are of no use.
LEMMA SomethingToProbe ==
  ASSUME rootReadable, \E key \in Key : usable(key)
  PROVE  \E key \in Key : isProbe(key)
<1> DEFINE Offers == {i \in DOMAIN Probes : usable(Probes[i])}
<1>1. DOMAIN Probes = 1..Len(Probes) /\ Len(Probes) \in Nat
  BY ProbesAssumption
<1>2. Offers \in SUBSET Nat /\ Offers # {}
  BY <1>1 DEF Key
<1>3. PICK i \in Offers : \A j \in Offers : i <= j
  <2> HIDE DEF Offers
  <2> QED
    BY <1>2, LeastElement
<1>4. ASSUME NEW j \in 1..(i - 1) PROVE ~usable(Probes[j])
  <2>1. j \in Nat /\ i \in Nat /\ i \in DOMAIN Probes /\ j < i
    BY <1>1, <1>3
  <2>2. j \in DOMAIN Probes /\ j \notin Offers
    BY <1>1, <1>3, <2>1
  <2> QED
    BY <2>2
<1> QED
  BY <1>3, <1>4 DEF isProbe, Key

\* The UI is not drawn for a user to whom the service answers nothing of what its
\* ServiceRoot offers, whichever of the keys the probe ends up with.
THEOREM NoUIWithoutAccess == Spec => []UIIsEntitled
<1>1. Init => UIIsEntitled
  BY DEF Init, UIIsEntitled
<1>2. UIIsEntitled /\ [Next]_vars => UIIsEntitled'
  <2> SUFFICES ASSUME UIIsEntitled, [Next]_vars PROVE UIIsEntitled'
    OBVIOUS
  <2> USE DEF exit, goOn
  <2>1. CASE stage' # "ui"
    BY <2>1 DEF UIIsEntitled
  <2>2. CASE stage' = "ui" /\ readRoot
    <3>1. UNCHANGED <<given, config>> /\ ~\E key \in Key : isProbe(key)
      BY <2>2 DEF readRoot, abandon
    <3>2. ~(rootReadable /\ \E key \in Key : usable(key))
      BY <3>1, SomethingToProbe
    <3> QED
      BY <3>1, <3>2 DEF UIIsEntitled, rootReadable, usable, given
  <2>3. CASE stage' = "ui" /\ probe
    <3>1. PICK key \in Key : isProbe(key) /\ ~unauthorized(key)
      BY <2>3 DEF probe, abandon
    <3>2. UNCHANGED <<given, config>>
      BY <2>3 DEF probe
    <3>3. usable(key)
      BY <3>1 DEF isProbe
    <3> QED
      BY <3>1, <3>2, <3>3 DEF UIIsEntitled, rootReadable, usable, unauthorized, given
  <2>4. CASE stage' = "ui" /\ UNCHANGED vars
    BY <2>4 DEF UIIsEntitled, rootReadable, usable, unauthorized, vars, given
  <2> QED
    BY <2>1, <2>2, <2>3, <2>4
       DEF Next, Starting, parseFlags, clientConfig, connect, runUI, Expire
<1> QED
  BY <1>1, <1>2, PTL DEF Spec
=============================================================================
