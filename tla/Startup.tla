------------------------------- MODULE Startup --------------------------------
(***************************************************************************)
(* From the command line to the terminal UI: run in cmd/rfx/main.go and    *)
(* Connect in internal/redfish/client.go.  Everything that can be wrong    *)
(* with the host or the credentials is meant to be found before anything   *)
(* is drawn, within one deadline, and the client is closed on every path.  *)
(***************************************************************************)
EXTENDS Integers, Sequences

CONSTANTS
    Probes   \* the ServiceRoot keys probeTarget tries, in its order

ASSUME ProbesAssumption == Probes \in Seq(STRING)

Key == {Probes[i] : i \in DOMAIN Probes}

\* What the ServiceRoot says under a key: nothing, something without a usable
\* @odata.id, a resource of the endpoint, or one that Resolve refuses.
Advert == {"absent", "broken", "here", "elsewhere"}

\* Who may read that resource: anybody, whoever logs in, or nobody (a 403).
Guard == {"open", "login", "forbidden"}

Args == [ask : {"run", "help", "version", "nonsense"},
         host : {"none", "bad", "good"},
         username : BOOLEAN, password : BOOLEAN]

VARIABLES
    args,       \* the command line
    env,        \* $RFX_PASSWORD is set
    right,      \* the service knows the credentials
    strict,     \* the service answers credentials it does not know with a 401,
                \* even where it would have answered none at all
    root,       \* what the ServiceRoot offers: [Key -> Advert]
    guards,     \* who may read it: [Key -> Guard]
    stage,      \* what run is about to do
    config,     \* is there a user name, is there a password
    clients,    \* clients opened and not closed
    expired,    \* connectTimeout has passed
    exitCode    \* main's

given == <<args, env, right, strict, root, guards>>
vars == <<given, stage, config, clients, expired, exitCode>>

Stage == {"flags", "config", "connect", "verify", "probe", "ui", "exited"}

Config == [username : BOOLEAN, password : BOOLEAN]

Init ==
    /\ args \in Args
    /\ env \in BOOLEAN /\ right \in BOOLEAN /\ strict \in BOOLEAN
    /\ root \in [Key -> Advert] /\ guards \in [Key -> Guard]
    /\ stage = "flags"
    /\ config = [username |-> FALSE, password |-> FALSE]
    /\ clients = 0 /\ expired = FALSE /\ exitCode = 0

\* run returns, and main exits.
exit(code) == stage' = "exited" /\ exitCode' = code

goOn(next) == stage' = next /\ UNCHANGED exitCode

-----------------------------------------------------------------------------
\* The environment stands in for a password that was not given.
resolved == [username |-> args.username, password |-> args.password \/ env]

\* Mutant of incomplete: the environment is read too late.
incomplete_ArgsOnly == args.username # args.password

\* resolve: a user name and a password come together or not at all.
incomplete == resolved.username # resolved.password

parseFlags ==
    /\ stage = "flags"
    /\ UNCHANGED <<given, clients, expired>>
    /\ \/ args.ask \in {"help", "version"} /\ exit(0) /\ UNCHANGED config
       \/ args.ask = "nonsense" /\ exit(1) /\ UNCHANGED config
       \/ /\ args.ask = "run"
          /\ args.host = "none" \/ incomplete
          /\ exit(1)
          /\ UNCHANGED config
       \/ /\ args.ask = "run"
          /\ args.host # "none" /\ ~incomplete
          /\ config' = resolved
          /\ goOn("config")

\* NormalizeHost may refuse the host.
clientConfig ==
    /\ stage = "config"
    /\ UNCHANGED <<given, config, clients, expired>>
    /\ \/ args.host = "bad" /\ exit(1)
       \/ args.host # "bad" /\ goOn("connect")

-----------------------------------------------------------------------------
(* Connect.  Any request may fail, and once the deadline has passed all do. *)

inTime == ~expired

\* Mutant of connect: the deadline does not reach gofish.
connect_Waits ==
    /\ stage = "connect"
    /\ UNCHANGED <<given, config, expired>>
    /\ inTime
    /\ \/ exit(1) /\ UNCHANGED clients
       \/ goOn("verify") /\ clients' = clients + 1

\* gofish reads the ServiceRoot, without credentials.
connect ==
    /\ stage = "connect"
    /\ UNCHANGED <<given, config, expired>>
    /\ \/ exit(1) /\ UNCHANGED clients
       \/ inTime /\ goOn("verify") /\ clients' = clients + 1

\* Mutants of abandon: the client stays open; verifyAccess closes it as well.
abandon_KeepsClient == exit(1) /\ UNCHANGED clients
abandon_ClosesTwice == exit(1) /\ clients' = clients - 2

\* verifyAccess fails: Connect closes what it opened.
abandon == exit(1) /\ clients' = clients - 1

\* Whether the ServiceRoot comes back when it is asked for with credentials.
rootReadable == ~(strict /\ config.username /\ ~right)

usable(key) == root[key] \in {"here", "elsewhere"}

\* Mutant of isProbe: only the first key there is gets a try.
isProbe_Present(key) ==
    /\ rootReadable
    /\ usable(key)
    /\ \E i \in DOMAIN Probes :
           Probes[i] = key /\ \A j \in 1..(i - 1) : root[Probes[j]] = "absent"

\* probeTarget: the first key with a resource to offer.  A body that is not a
\* ServiceRoot, such as that of a 401, offers none.
isProbe(key) ==
    /\ rootReadable
    /\ usable(key)
    /\ \E i \in DOMAIN Probes :
           Probes[i] = key /\ \A j \in 1..(i - 1) : ~usable(Probes[j])

\* verifyAccess reads the ServiceRoot, whatever its status, and picks what to
\* probe.
readRoot ==
    /\ stage = "verify"
    /\ UNCHANGED <<given, config, expired>>
    /\ \/ abandon
       \/ /\ inTime
          /\ \E key \in Key : isProbe(key)
          /\ goOn("probe")
          /\ UNCHANGED clients
       \/ /\ inTime
          /\ ~\E key \in Key : isProbe(key)
          /\ goOn("ui")
          /\ UNCHANGED clients

\* The probe is answered with a 401.  A 403 says that the credentials are good.
unauthorized(key) ==
    \/ guards[key] # "open" /\ ~(config.username /\ right)
    \/ ~rootReadable

\* verifyAccess probes.  A resource that does not resolve is not even requested.
probe ==
    /\ stage = "probe"
    /\ UNCHANGED <<given, config, expired>>
    /\ \/ abandon
       \/ /\ inTime
          /\ \E key \in Key : isProbe(key) /\ root[key] = "here" /\ ~unauthorized(key)
          /\ goOn("ui")
          /\ UNCHANGED clients

\* The UI runs and ends, well or not, and the deferred Close runs.
runUI ==
    /\ stage = "ui"
    /\ UNCHANGED <<given, config, expired>>
    /\ clients' = clients - 1
    /\ exit(0) \/ exit(1)

\* connectTimeout passes.
Expire ==
    /\ stage \in {"connect", "verify", "probe"}
    /\ inTime
    /\ expired' = TRUE
    /\ UNCHANGED <<given, stage, config, clients, exitCode>>

Starting == parseFlags \/ clientConfig \/ connect \/ readRoot \/ probe
Next == Starting \/ runUI \/ Expire
Spec == Init /\ [][Next]_vars

\* What run does by itself goes on, the deadline passes, and behind it no request is
\* waited for.  Nothing obliges the service to answer before, or the user to quit.
FairSpec ==
    /\ Spec
    /\ WF_vars(parseFlags \/ clientConfig)
    /\ WF_vars(Expire)
    /\ WF_vars(expired /\ Starting)

-----------------------------------------------------------------------------
TypeOK ==
    /\ args \in Args /\ env \in BOOLEAN /\ right \in BOOLEAN /\ strict \in BOOLEAN
    /\ root \in [Key -> Advert] /\ guards \in [Key -> Guard]
    /\ stage \in Stage /\ config \in Config
    /\ clients \in {0, 1} /\ expired \in BOOLEAN /\ exitCode \in {0, 1}

\* One client is open from the moment gofish is connected to the end of run, and
\* none is left open on any way out (client.go:136-141, main.go:92).
ClientsAreClosed ==
    clients = IF stage \in {"verify", "probe", "ui"} THEN 1 ELSE 0

\* The UI is not drawn for a user to whom the service answers nothing of what its
\* ServiceRoot offers: then the probe, whichever it is, has seen a 401
\* (client.go:209-236, 282-313).
UIIsEntitled ==
    stage = "ui" /\ rootReadable /\ (\E key \in Key : usable(key)) =>
        \E key \in Key : usable(key) /\ ~unauthorized(key)

\* No request goes out with half of the credentials: "a password without a user
\* name is an error rather than a silently anonymous request" (README.md:83-84),
\* wherever the password came from.
CredentialsComeTogether ==
    /\ config.username = config.password
    /\ stage \notin {"flags", "exited"} /\ (args.password \/ env) => config.username

\* Whatever the service does, a plain terminal does not hang: the UI appears or
\* rfx gives up (main.go:30-33, 81-85).
StartupEnds == <>(stage \in {"ui", "exited"})

-----------------------------------------------------------------------------
\* "Wrong credentials ... are reported on a plain terminal and exit 1"
\* (README.md:79-81): where all that the ServiceRoot offers is guarded, rfx never
\* draws its UI for credentials the service does not know.  A service that refuses
\* them at the ServiceRoot already has its 401 taken for a ServiceRoot that offers
\* nothing to probe (client.go:283-292).
WrongCredentialsAreReported ==
    stage = "ui" /\ config.username /\ ~right /\ (\E key \in Key : usable(key)) =>
        \E key \in Key : usable(key) /\ guards[key] = "open"
=============================================================================
