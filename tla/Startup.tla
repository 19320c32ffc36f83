------------------------------- MODULE Startup -------------------------------
(***************************************************************************)
(* From the program's entry to a controller (application.cpp): Config reads*)
(* the configuration file (gateway/config.cpp), section by section, then   *)
(* the controller is constructed member by member (gateway/controller.cpp  *)
(* lines 28-39 and 65-68): the accounts, each with its credentials, then   *)
(* the shared state with the API.  log::fatal ends the process.            *)
(*                                                                         *)
(* External: the file and the reader, and the server, which constructs the *)
(* controller, has the configuration dispatched to it, and may check the   *)
(* API for itself with Controller::parse_api.                              *)
(***************************************************************************)
EXTENDS Integers, Sequences, SequencesExt

CONSTANTS
    Name,       \* the names of accounts, users and rate limits
    Value,      \* the contents of a section that matter to the server alone
    File        \* the files that may be there: sequences of sections

(* The text of the API: one of those known, in capitals or not.            *)
Api == {"SPOT", "LINEAR", "INVERSE", "OPTION"}
ApiText == Api \cup {"UNDEFINED", "other"}

Symbols == [kind : {"symbols"}, value : Value]
Account == [kind : {"account"}, name : Name, master : BOOLEAN, login : BOOLEAN, secret : BOOLEAN]
User == [kind : {"user"}, name : Name]
RateLimit == [kind : {"rate_limit"}, name : Name, value : Value]
RequestTemplate == [kind : {"request_template"}]
Unknown == [kind : {"unknown"}]

Section == Symbols \cup Account \cup User \cup RateLimit \cup RequestTemplate \cup Unknown

(* Sections that would be one key of the TOML file: there is one array of  *)
(* symbols, and accounts, users and rate limits are tables by their names. *)
SameKey(one, other) ==
    /\ one.kind = other.kind
    /\ \/ one.kind = "symbols"
       \/ one.kind \in {"account", "user", "rate_limit"} /\ one.name = other.name

ASSUME FileAssumption ==
    \A f \in File :
        /\ f \in Seq(Section)
        /\ \A i, j \in DOMAIN f : SameKey(f[i], f[j]) => i = j

VARIABLES
    file,               \* external: the sections of the file
    api,                \* settings.app.api
    process,            \* "config", "controller", "started", "terminated"
    position,           \* external: the number of sections that were read
    symbols,            \* config.symbols: {} or {the section}
    accounts,           \* config.accounts: by name
    users,              \* config.users
    rate_limits,        \* config.rate_limits: by name
    master_account,     \* config.master_account_: {} or {the name}
    account_objects,    \* accounts_ of the controller: the names
    parsed,             \* external: was Controller::parse_api called?
    server              \* external: what was dispatched to the server

configVars == <<symbols, accounts, users, rate_limits, master_account>>
vars == <<file, api, process, position, configVars, account_objects, parsed, server>>

Init ==
    /\ file \in File
    /\ api \in ApiText
    /\ process = "config"
    /\ position = 0
    /\ symbols = {}
    /\ accounts = << >>
    /\ users = <<>>
    /\ rate_limits = << >>
    /\ master_account = {}
    /\ account_objects = {}
    /\ parsed = FALSE
    /\ server = {}

-----------------------------------------------------------------------------
(* Config::Config *)

(* The reader has another section of some kind.                            *)
Read(kind) ==
    /\ process = "config"
    /\ position < Len(file)
    /\ file[position + 1].kind = kind
    /\ position' = position + 1
    /\ UNCHANGED <<file, api, account_objects, parsed, server>>

(* Mutant of Emplace: the name is taken from the section after it is moved.*)
EmplaceMoved(map, section) ==
    LET moved == CHOOSE name \in Name : TRUE
    IN  [name \in DOMAIN map \cup {moved} |-> IF name \in DOMAIN map THEN map[name] ELSE section]

(* map.emplace: a key that is there keeps what it has.                     *)
Emplace(map, section) ==
    [name \in DOMAIN map \cup {section.name} |-> IF name \in DOMAIN map THEN map[name] ELSE section]

ReadSymbols ==
    /\ Read("symbols")
    /\ symbols' = {file[position + 1]}
    /\ UNCHANGED <<process, accounts, users, rate_limits, master_account>>

(* Mutant of ReadAccount: a master account is kept apart.                  *)
ReadAccountApart ==
    LET account == file[position + 1]
    IN  /\ Read("account")
        /\ master_account' = IF account.master THEN {account.name} ELSE master_account
        /\ accounts' = IF account.master THEN accounts ELSE Emplace(accounts, account)
        /\ UNCHANGED <<process, symbols, users, rate_limits>>

(* The last one that is the master counts as such.                         *)
ReadAccount ==
    LET account == file[position + 1]
    IN  /\ Read("account")
        /\ master_account' = IF account.master THEN {account.name} ELSE master_account
        /\ accounts' = Emplace(accounts, account)
        /\ UNCHANGED <<process, symbols, users, rate_limits>>

ReadUser ==
    /\ Read("user")
    /\ users' = Append(users, file[position + 1])
    /\ UNCHANGED <<process, symbols, accounts, rate_limits, master_account>>

ReadRateLimit ==
    /\ Read("rate_limit")
    /\ rate_limits' = Emplace(rate_limits, file[position + 1])
    /\ UNCHANGED <<process, symbols, accounts, users, master_account>>

(* log::fatal                                                              *)
ReadRequestTemplate ==
    /\ Read("request_template")
    /\ process' = "terminated"
    /\ UNCHANGED configVars

(* A warning only.                                                         *)
ReadUnknown ==
    /\ Read("unknown")
    /\ UNCHANGED <<process, configVars>>

ConfigRead ==
    /\ process = "config"
    /\ position = Len(file)
    /\ process' = "controller"
    /\ UNCHANGED <<file, api, position, configVars, account_objects, parsed, server>>

-----------------------------------------------------------------------------
(* The server and Controller::Controller *)

(* Controller::parse_api, on its own: UNDEFINED is fatal, too.             *)
ParseApi ==
    /\ process \in {"controller", "started"}
    /\ ~parsed
    /\ parsed' = TRUE
    /\ process' = IF api \in Api THEN process ELSE "terminated"
    /\ UNCHANGED <<file, api, position, configVars, account_objects, server>>

(* Config::dispatch: all of the configuration, whenever the server wants.  *)
Dispatch ==
    /\ process \in {"controller", "started"}
    /\ server = {}
    /\ server' = {[symbols |-> symbols, users |-> users,
                   accounts |-> {accounts[name] : name \in DOMAIN accounts},
                   rate_limits |-> {rate_limits[name] : name \in DOMAIN rate_limits}]}
    /\ UNCHANGED <<file, api, process, position, configVars, account_objects, parsed>>

(* Mutant of Ready: any of the two is enough.                              *)
ReadyHalf(account) == account.login \/ account.secret

(* create_crypto: the key and the secret of the account have to be there.  *)
Ready(account) == account.login /\ account.secret

(* create_accounts, one of them, in the order of an unordered map.         *)
CreateAccount(name) ==
    /\ process = "controller"
    /\ name \in DOMAIN accounts \ account_objects
    /\ IF Ready(accounts[name])
       THEN account_objects' = account_objects \cup {name} /\ UNCHANGED process
       ELSE process' = "terminated" /\ UNCHANGED account_objects
    /\ UNCHANGED <<file, api, position, configVars, parsed, server>>

(* The rest of the controller: API::create in Shared, then the REST stream.*)
CreateController ==
    /\ process = "controller"
    /\ account_objects = DOMAIN accounts
    /\ process' = IF api = "other" THEN "terminated" ELSE "started"
    /\ UNCHANGED <<file, api, position, configVars, account_objects, parsed, server>>

Reading ==
    \/ ReadSymbols \/ ReadAccount \/ ReadUser \/ ReadRateLimit
    \/ ReadRequestTemplate \/ ReadUnknown \/ ConfigRead

Creating == (\E name \in Name : CreateAccount(name)) \/ CreateController

Next == Reading \/ Creating \/ ParseApi \/ Dispatch

Spec == Init /\ [][Next]_vars

-----------------------------------------------------------------------------

(* Type invariant of the startup. *)
TypeOK ==
    /\ file \in Seq(Section) /\ api \in ApiText
    /\ process \in {"config", "controller", "started", "terminated"}
    /\ position \in 0 .. Len(file)
    /\ symbols \subseteq Symbols
    /\ DOMAIN accounts \subseteq Name /\ \A name \in DOMAIN accounts : accounts[name] \in Account
    /\ users \in Seq(User)
    /\ DOMAIN rate_limits \subseteq Name /\ \A name \in DOMAIN rate_limits : rate_limits[name] \in RateLimit
    /\ master_account \subseteq DOMAIN accounts
    /\ account_objects \subseteq DOMAIN accounts
    /\ parsed \in BOOLEAN

(* What a file and an API have to be, whatever the order of the sections.  *)
Acceptable ==
    /\ \A i \in DOMAIN file : file[i].kind # "request_template"
    /\ \A i \in DOMAIN file : file[i].kind = "account" => file[i].login /\ file[i].secret
    /\ api \in Api \cup (IF parsed THEN {} ELSE {"UNDEFINED"})

(***************************************************************************)
(* The gateway starts exactly with what is acceptable: no section that     *)
(* comes early or late, no account that is created first and no check that *)
(* the server makes lets an unusable configuration through, or turns a     *)
(* usable one away (config.cpp lines 112-137, account.cpp lines 21-37).    *)
(***************************************************************************)
OutcomeRight ==
    /\ process = "started" => Acceptable
    /\ process = "terminated" => ~Acceptable

(* The list is that of all sections of the kind among the first n, in the  *)
(* order of the file.                                                      *)
Lists(list, kind, n) ==
    \E at \in [DOMAIN list -> 1 .. n] :
        /\ \A j, k \in DOMAIN list : j < k => at[j] < at[k]
        /\ \A i \in 1 .. n : file[i].kind = kind <=> \E k \in DOMAIN list : at[k] = i
        /\ \A k \in DOMAIN list : list[k] = file[at[k]]

(* The sections of a kind.                                                 *)
Sections(kind) == {file[i] : i \in {j \in DOMAIN file : file[j].kind = kind}}

(***************************************************************************)
(* What the server is told is the file: the symbols, every account and rate*)
(* limit, every user in order (config.cpp lines 97-129); the accounts that *)
(* it is told of are those of the controller.                              *)
(***************************************************************************)
ServerHasFile ==
    \A told \in server :
        /\ told.symbols = Sections("symbols")
        /\ told.accounts = Sections("account")
        /\ told.rate_limits = Sections("rate_limit")
        /\ Lists(told.users, "user", Len(file))
        /\ process = "started" => {account.name : account \in told.accounts} = account_objects
=============================================================================
