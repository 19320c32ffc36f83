---------------------------- MODULE StartupProofs ----------------------------
(***************************************************************************)
(* Proofs about the startup, for every configuration file: of any length,  *)
(* in any order, with any names.                                           *)
(***************************************************************************)
EXTENDS Startup, SequenceTheorems, TLAPS

USE FileAssumption

(* The map holds the sections of the kind among the first n, by their names*)
KeepsAll(map, kind, n) ==
    /\ \A i \in 1 .. n : file[i].kind = kind => file[i].name \in DOMAIN map
    /\ \A name \in DOMAIN map :
          \E i \in 1 .. n : file[i].kind = kind /\ file[i].name = name /\ map[name] = file[i]

(* What the configuration holds is what was read of the file.              *)
AccountsLoaded == KeepsAll(accounts, "account", position)
RateLimitsLoaded == KeepsAll(rate_limits, "rate_limit", position)
SymbolsLoaded == symbols = {file[i] : i \in {j \in 1 .. position : file[j].kind = "symbols"}}
UsersLoaded == Lists(users, "user", position)

Loaded == AccountsLoaded /\ RateLimitsLoaded /\ SymbolsLoaded /\ UsersLoaded

(* What the way to this point has made sure of.                            *)
ChecksPassed ==
    process # "terminated" =>
        /\ \A i \in 1 .. position : file[i].kind # "request_template"
        /\ \A name \in account_objects : Ready(accounts[name])
        /\ parsed => api \in Api
        /\ process # "config" => position = Len(file)
        /\ process = "config" => account_objects = {}
        /\ process = "started" => account_objects = DOMAIN accounts /\ api # "other"

FatalRightly == process = "terminated" => ~Acceptable

(* The server is told once, of all of a configuration that is complete.    *)
ServerTold ==
    server # {} =>
        /\ process # "config" /\ position = Len(file)
        /\ server = {[symbols |-> symbols, users |-> users,
                      accounts |-> {accounts[name] : name \in DOMAIN accounts},
                      rate_limits |-> {rate_limits[name] : name \in DOMAIN rate_limits}]}

(* The file stays what it is.                                              *)
FileKept == file \in File

(* The inductive invariant.                                                *)
IInv == TypeOK /\ FileKept /\ Loaded /\ ChecksPassed /\ FatalRightly /\ ServerTold

-----------------------------------------------------------------------------

(* A file has each key once.                                               *)
LEMMA FileFacts ==
  ASSUME file \in File
  PROVE  /\ file \in Seq(Section) /\ Len(file) \in Nat /\ DOMAIN file = 1 .. Len(file)
         /\ \A i, j \in DOMAIN file : SameKey(file[i], file[j]) => i = j
OBVIOUS

(* An account that is not ready makes the file one that is not acceptable. *)
LEMMA IncompleteAccount ==
  ASSUME IInv, NEW name \in DOMAIN accounts, ~Ready(accounts[name])
  PROVE  ~Acceptable
<1>1. PICK i \in 1 .. position : file[i].kind = "account" /\ accounts[name] = file[i]
  BY DEF IInv, Loaded, AccountsLoaded, KeepsAll
<1>2. i \in DOMAIN file
  BY <1>1, FileFacts DEF IInv, FileKept, TypeOK
<1> QED
  BY <1>1, <1>2 DEF Acceptable, Ready

(* A section of another kind leaves a map as it is.                        *)
LEMMA OtherSection ==
  ASSUME NEW map, NEW kind, NEW n \in Nat,
         KeepsAll(map, kind, n), file[n + 1].kind # kind
  PROVE  KeepsAll(map, kind, n + 1)
<1>1. \A i \in 1 .. n + 1 : i \in 1 .. n \/ i = n + 1
  OBVIOUS
<1>2. 1 .. n \subseteq 1 .. n + 1
  OBVIOUS
<1> QED
  BY <1>1, <1>2 DEF KeepsAll

(* Emplace keeps every section, as each has a name of its own.             *)
LEMMA EmplaceSection ==
  ASSUME NEW map, NEW kind \in {"account", "user", "rate_limit"}, NEW n \in Nat, KeepsAll(map, kind, n),
         file \in File, n + 1 \in DOMAIN file, file[n + 1].kind = kind
  PROVE  KeepsAll(Emplace(map, file[n + 1]), kind, n + 1)
<1> DEFINE section == file[n + 1]
           new == section.name
           after == Emplace(map, section)
<1>1. new \notin DOMAIN map
  <2> SUFFICES ASSUME new \in DOMAIN map PROVE FALSE
    OBVIOUS
  <2>1. PICK i \in 1 .. n : file[i].kind = kind /\ file[i].name = new
    BY DEF KeepsAll
  <2>2. SameKey(file[i], file[n + 1])
    BY <2>1 DEF SameKey
  <2>3. i \in DOMAIN file /\ i # n + 1
    BY FileFacts
  <2> QED
    BY <2>2, <2>3, FileFacts
<1>2. /\ DOMAIN after = DOMAIN map \cup {new}
      /\ \A name \in DOMAIN map : after[name] = map[name]
      /\ after[new] = section
  BY <1>1 DEF Emplace
<1> HIDE DEF section, new, after
<1>3. \A i \in 1 .. n + 1 : i \in 1 .. n \/ i = n + 1
  OBVIOUS
<1>4. 1 .. n \subseteq 1 .. n + 1 /\ n + 1 \in 1 .. n + 1
  OBVIOUS
<1> QED
  BY <1>2, <1>3, <1>4 DEF KeepsAll, after, section, new

(* They are all there, as each has a name of its own.                      *)
LEMMA KeepsEach ==
  ASSUME file \in File, NEW map, NEW kind \in {"account", "user", "rate_limit"},
         KeepsAll(map, kind, Len(file)), NEW i \in DOMAIN file, file[i].kind = kind
  PROVE  map[file[i].name] = file[i]
<1>1. i \in 1 .. Len(file)
  BY FileFacts
<1>2. PICK j \in 1 .. Len(file) :
         file[j].kind = kind /\ file[j].name = file[i].name /\ map[file[i].name] = file[j]
  BY <1>1 DEF KeepsAll
<1>3. j \in DOMAIN file /\ SameKey(file[i], file[j])
  BY <1>2, FileFacts DEF SameKey
<1> QED
  BY <1>2, <1>3, FileFacts

(* A list gets the section appended that is of its kind, and no other.     *)
LEMMA ListsSection ==
  ASSUME NEW S, NEW list \in Seq(S), NEW kind, NEW n \in Nat, Lists(list, kind, n)
  PROVE  /\ file[n + 1].kind = kind => Lists(Append(list, file[n + 1]), kind, n + 1)
         /\ file[n + 1].kind # kind => Lists(list, kind, n + 1)
<1>1. PICK at \in [DOMAIN list -> 1 .. n] :
          /\ \A j, k \in DOMAIN list : j < k => at[j] < at[k]
          /\ \A i \in 1 .. n : file[i].kind = kind <=> \E k \in DOMAIN list : at[k] = i
          /\ \A k \in DOMAIN list : list[k] = file[at[k]]
  BY DEF Lists
<1>2. \A i \in 1 .. n + 1 : i \in 1 .. n \/ i = n + 1
  OBVIOUS
<1>3. \A k \in DOMAIN list : at[k] \in 1 .. n /\ at[k] \in 1 .. n + 1 /\ at[k] < n + 1
  BY <1>1
<1>4. ASSUME file[n + 1].kind # kind
      PROVE  Lists(list, kind, n + 1)
  <2>1. at \in [DOMAIN list -> 1 .. n + 1]
    BY <1>1, <1>3
  <2>2. \A i \in 1 .. n + 1 : file[i].kind = kind <=> \E k \in DOMAIN list : at[k] = i
    BY <1>1, <1>2, <1>3, <1>4
  <2> QED
    BY <1>1, <2>1, <2>2 DEF Lists
<1>5. ASSUME file[n + 1].kind = kind
      PROVE  Lists(Append(list, file[n + 1]), kind, n + 1)
  <2> DEFINE longer == Append(list, file[n + 1])
             last == Len(list) + 1
             further == [k \in DOMAIN longer |-> IF k = last THEN n + 1 ELSE at[k]]
  <2>1. /\ DOMAIN longer = 1 .. last /\ DOMAIN list = 1 .. Len(list) /\ Len(list) \in Nat
        /\ longer[last] = file[n + 1]
        /\ \A k \in DOMAIN list : longer[k] = list[k]
    OBVIOUS
  <2>2. /\ \A k \in DOMAIN longer : k \in DOMAIN list \/ k = last
        /\ \A k \in DOMAIN list : k \in DOMAIN longer /\ k # last /\ k < last
        /\ last \in DOMAIN longer
    BY <2>1
  <2>3. /\ further[last] = n + 1
        /\ \A k \in DOMAIN list : further[k] = at[k]
        /\ DOMAIN further = DOMAIN longer
    BY <2>2
  <2>4. further \in [DOMAIN longer -> 1 .. n + 1]
    BY <1>3, <2>2
  <2> HIDE DEF longer, last, further
  <2>5. \A j, k \in DOMAIN longer : j < k => further[j] < further[k]
    <3> SUFFICES ASSUME NEW j \in DOMAIN longer, NEW k \in DOMAIN longer, j < k
                 PROVE  further[j] < further[k]
      OBVIOUS
    <3>1. j \in DOMAIN list
      BY <2>1, <2>2
    <3> QED
      BY <1>1, <1>3, <2>2, <2>3, <3>1
  <2>6. \A i \in 1 .. n + 1 : file[i].kind = kind <=> \E k \in DOMAIN longer : further[k] = i
    <3>1. ASSUME NEW i \in 1 .. n
          PROVE  file[i].kind = kind <=> \E k \in DOMAIN longer : further[k] = i
      <4>1. i # n + 1
        OBVIOUS
      <4> QED
        BY <1>1, <2>2, <2>3, <4>1
    <3> QED
      BY <1>2, <1>5, <2>2, <2>3, <3>1
  <2>7. \A k \in DOMAIN longer : longer[k] = file[further[k]]
    BY <1>1, <2>1, <2>2, <2>3
  <2>8. Lists(longer, kind, n + 1)
    BY <2>4, <2>5, <2>6, <2>7 DEF Lists
  <2> QED
    BY <2>8 DEF longer
<1> QED
  BY <1>4, <1>5

(* What the reader hands over is a section of the file, of its kind.       *)
LEMMA ReadFacts ==
  ASSUME IInv, NEW kind, Read(kind)
  PROVE  /\ process = "config" /\ position' \in 0 .. Len(file)
         /\ position' = position + 1 /\ position + 1 \in DOMAIN file /\ position \in Nat
         /\ file[position + 1] \in Section /\ file[position + 1].kind = kind
         /\ UNCHANGED <<file, api, account_objects, parsed, server>>
         /\ \A i \in 1 .. position' : i \in 1 .. position \/ i = position + 1
BY FileFacts DEF IInv, FileKept, TypeOK, Read

(* A section is of the type that its kind says.                            *)
LEMMA SectionType ==
  ASSUME NEW section \in Section
  PROVE  /\ section.kind = "symbols" => section \in Symbols
         /\ section.kind = "account" => section \in Account /\ section.name \in Name
         /\ section.kind = "user" => section \in User
         /\ section.kind = "rate_limit" => section \in RateLimit /\ section.name \in Name
BY DEF Section, Symbols, Account, User, RateLimit, RequestTemplate, Unknown

(* As long as the file is the same, so is the meaning of what was read.    *)
LEMMA SameFile ==
  ASSUME file' = file
  PROVE  /\ AccountsLoaded' <=> KeepsAll(accounts', "account", position')
         /\ RateLimitsLoaded' <=> KeepsAll(rate_limits', "rate_limit", position')
         /\ UsersLoaded' <=> Lists(users', "user", position')
BY DEF AccountsLoaded, RateLimitsLoaded, UsersLoaded, KeepsAll, Lists

(* Once the file is read, the configuration stays what it is.              *)
LEMMA UnchangedLoaded ==
  ASSUME Loaded, UNCHANGED <<file, position, symbols, accounts, users, rate_limits>>
  PROVE  Loaded'
BY SameFile DEF Loaded, AccountsLoaded, RateLimitsLoaded, SymbolsLoaded, UsersLoaded

(* Reading a section: each part of the configuration takes those of its    *)
(* own kind and no others (config.cpp, lines 97-129).                      *)
LEMMA ReadLoaded ==
  ASSUME IInv, NEW kind, Read(kind),
         symbols' = IF kind = "symbols" THEN {file[position + 1]} ELSE symbols,
         accounts' = IF kind = "account" THEN Emplace(accounts, file[position + 1]) ELSE accounts,
         users' = IF kind = "user" THEN Append(users, file[position + 1]) ELSE users,
         rate_limits' = IF kind = "rate_limit" THEN Emplace(rate_limits, file[position + 1]) ELSE rate_limits
  PROVE  Loaded' /\ FileKept'
<1>1. /\ position \in Nat /\ position' = position + 1 /\ file' = file
      /\ position + 1 \in DOMAIN file /\ file[position + 1].kind = kind
  BY ReadFacts
<1>2. Loaded /\ users \in Seq(User) /\ file \in File
  BY DEF IInv, FileKept, TypeOK
<1>4. KeepsAll(accounts', "account", position + 1)
  BY <1>1, <1>2, EmplaceSection, OtherSection DEF Loaded, AccountsLoaded
<1>5. KeepsAll(rate_limits', "rate_limit", position + 1)
  BY <1>1, <1>2, EmplaceSection, OtherSection DEF Loaded, RateLimitsLoaded
<1>6. SymbolsLoaded'
  <2>1. \A i \in 1 .. position + 1 : i \in 1 .. position \/ i = position + 1
    BY <1>1
  <2>2. 1 .. position \subseteq 1 .. position + 1 /\ position + 1 \in 1 .. position + 1
    BY <1>1
  <2>3. CASE kind = "symbols"
    <3>1. \A i \in 1 .. position : i \in DOMAIN file /\ i # position + 1
      BY <1>1, <1>2, FileFacts
    <3>2. \A i \in 1 .. position : file[i].kind # "symbols"
      BY <1>1, <1>2, <2>3, <3>1, FileFacts DEF SameKey
    <3> QED
      BY <1>1, <2>1, <2>2, <2>3, <3>2 DEF SymbolsLoaded
  <2>4. CASE kind # "symbols"
    BY <1>1, <1>2, <2>1, <2>2, <2>4 DEF Loaded, SymbolsLoaded
  <2> QED
    BY <2>3, <2>4
<1>7. Lists(users', "user", position + 1)
  BY <1>1, <1>2, ListsSection DEF Loaded, UsersLoaded
<1> QED
  BY <1>1, <1>4, <1>5, <1>6, <1>7, <1>2, SameFile DEF Loaded, FileKept

(* A map of sections stays one.                                            *)
LEMMA EmplaceType ==
  ASSUME NEW S, NEW map, NEW section \in S, section.name \in Name,
         DOMAIN map \subseteq Name, \A name \in DOMAIN map : map[name] \in S
  PROVE  /\ DOMAIN map \subseteq DOMAIN Emplace(map, section)
         /\ section.name \in DOMAIN Emplace(map, section)
         /\ DOMAIN Emplace(map, section) \subseteq Name
         /\ \A name \in DOMAIN Emplace(map, section) : Emplace(map, section)[name] \in S
BY DEF Emplace

(* A section that is not fatal keeps what has been made sure of.           *)
LEMMA ReadChecks ==
  ASSUME IInv, NEW kind, kind # "request_template", Read(kind), process' = "config"
  PROVE  ChecksPassed' /\ FatalRightly' /\ ServerTold'
BY ReadFacts DEF IInv, FileKept, ChecksPassed, FatalRightly, ServerTold

LEMMA ReadingIInv ==
  ASSUME IInv, Reading
  PROVE  IInv'
<1>1. CASE ReadSymbols
  <2>1. Read("symbols") /\ symbols' = {file[position + 1]}
        /\ UNCHANGED <<process, accounts, users, rate_limits, master_account>>
    BY <1>1 DEF ReadSymbols
  <2>2. file[position + 1] \in Symbols
    BY <2>1, ReadFacts, SectionType
  <2>3. TypeOK'
    BY <2>1, <2>2, ReadFacts DEF IInv, TypeOK
  <2>4. process' = "config"
    BY <2>1 DEF Read
  <2>5. Loaded' /\ FileKept'
    BY <2>1, ReadLoaded
  <2> QED
    BY <2>1, <2>3, <2>4, <2>5, ReadChecks DEF IInv
<1>2. CASE ReadAccount
  <2>1. /\ Read("account") /\ UNCHANGED <<process, symbols, users, rate_limits>>
        /\ master_account' = IF file[position + 1].master THEN {file[position + 1].name} ELSE master_account
        /\ accounts' = Emplace(accounts, file[position + 1])
    BY <1>2 DEF ReadAccount
  <2>2. file[position + 1] \in Account /\ file[position + 1].name \in Name
    BY <2>1, ReadFacts, SectionType
  <2>3. /\ DOMAIN accounts \subseteq DOMAIN accounts' /\ file[position + 1].name \in DOMAIN accounts'
        /\ DOMAIN accounts' \subseteq Name
        /\ \A name \in DOMAIN accounts' : accounts'[name] \in Account
    BY <2>1, <2>2, EmplaceType DEF IInv, TypeOK
  <2>4. TypeOK'
    BY <2>1, <2>3, ReadFacts DEF IInv, TypeOK
  <2>5. process' = "config"
    BY <2>1 DEF Read
  <2>6. Loaded' /\ FileKept'
    BY <2>1, ReadLoaded
  <2> QED
    BY <2>1, <2>4, <2>5, <2>6, ReadChecks DEF IInv
<1>3. CASE ReadUser
  <2>1. Read("user") /\ users' = Append(users, file[position + 1])
        /\ UNCHANGED <<process, symbols, accounts, rate_limits, master_account>>
    BY <1>3 DEF ReadUser
  <2>2. file[position + 1] \in User
    BY <2>1, ReadFacts, SectionType
  <2>3. TypeOK'
    BY <2>1, <2>2, ReadFacts DEF IInv, TypeOK
  <2>4. process' = "config"
    BY <2>1 DEF Read
  <2>5. Loaded' /\ FileKept'
    BY <2>1, ReadLoaded
  <2> QED
    BY <2>1, <2>3, <2>4, <2>5, ReadChecks DEF IInv
<1>4. CASE ReadRateLimit
  <2>1. Read("rate_limit") /\ rate_limits' = Emplace(rate_limits, file[position + 1])
        /\ UNCHANGED <<process, symbols, accounts, users, master_account>>
    BY <1>4 DEF ReadRateLimit
  <2>2. file[position + 1] \in RateLimit /\ file[position + 1].name \in Name
    BY <2>1, ReadFacts, SectionType
  <2>3. DOMAIN rate_limits' \subseteq Name /\ \A name \in DOMAIN rate_limits' : rate_limits'[name] \in RateLimit
    BY <2>1, <2>2, EmplaceType DEF IInv, TypeOK
  <2>4. TypeOK'
    BY <2>1, <2>3, ReadFacts DEF IInv, TypeOK
  <2>5. process' = "config"
    BY <2>1 DEF Read
  <2>6. Loaded' /\ FileKept'
    BY <2>1, ReadLoaded
  <2> QED
    BY <2>1, <2>4, <2>5, <2>6, ReadChecks DEF IInv
<1>5. CASE ReadRequestTemplate
  <2>1. /\ Read("request_template") /\ process' = "terminated"
        /\ UNCHANGED <<symbols, accounts, users, rate_limits, master_account>>
    BY <1>5 DEF ReadRequestTemplate, configVars
  <2>2. TypeOK'
    BY <2>1, ReadFacts DEF IInv, TypeOK
  <2>3. ~Acceptable'
    BY <2>1, ReadFacts DEF Acceptable
  <2>4. ServerTold'
    BY <2>1, ReadFacts DEF IInv, ServerTold
  <2>5. Loaded' /\ FileKept'
    BY <2>1, ReadLoaded
  <2> QED
    BY <2>1, <2>2, <2>3, <2>4, <2>5 DEF IInv, FileKept, ChecksPassed, FatalRightly
<1>6. CASE ReadUnknown
  <2>1. /\ Read("unknown") /\ UNCHANGED <<process, symbols, accounts, users, rate_limits, master_account>>
    BY <1>6 DEF ReadUnknown, configVars
  <2>2. TypeOK'
    BY <2>1, ReadFacts DEF IInv, TypeOK
  <2>3. process' = "config"
    BY <2>1 DEF Read
  <2>4. Loaded' /\ FileKept'
    BY <2>1, ReadLoaded
  <2> QED
    BY <2>1, <2>2, <2>3, <2>4, ReadChecks DEF IInv
<1>7. CASE ConfigRead
  <2>1. /\ process = "config" /\ process' = "controller" /\ position = Len(file)
        /\ UNCHANGED <<file, api, position, symbols, accounts, users, rate_limits, master_account,
                       account_objects, parsed, server>>
    BY <1>7 DEF ConfigRead, configVars
  <2>2. TypeOK'
    BY <2>1 DEF IInv, TypeOK
  <2>3. Loaded'
    BY <2>1, UnchangedLoaded DEF IInv
  <2>4. ServerTold'
    BY <2>1 DEF IInv, ServerTold
  <2> QED
    BY <2>1, <2>2, <2>3, <2>4 DEF IInv, FileKept, ChecksPassed, FatalRightly, TypeOK
<1> QED
  BY <1>1, <1>2, <1>3, <1>4, <1>5, <1>6, <1>7 DEF Reading

LEMMA CreatingIInv ==
  ASSUME IInv, Creating
  PROVE  IInv'
<1>1. /\ process = "controller"
      /\ UNCHANGED <<file, api, position, symbols, accounts, users, rate_limits, master_account, parsed, server>>
  BY DEF Creating, CreateAccount, CreateController, configVars
<1>2. Loaded' /\ (Acceptable' <=> Acceptable)
  BY <1>1, UnchangedLoaded DEF IInv, Acceptable
<1>3. ASSUME NEW name \in Name, CreateAccount(name)
      PROVE  IInv'
  <2>1. /\ name \in DOMAIN accounts
        /\ IF Ready(accounts[name])
           THEN account_objects' = account_objects \cup {name} /\ UNCHANGED process
           ELSE process' = "terminated" /\ UNCHANGED account_objects
    BY <1>3 DEF CreateAccount
  <2>2. CASE Ready(accounts[name])
    BY <1>1, <1>2, <2>1, <2>2 DEF IInv, FileKept, TypeOK, ChecksPassed, FatalRightly, ServerTold, Ready
  <2>3. CASE ~Ready(accounts[name])
    <3>1. ~Acceptable
      BY <2>1, <2>3, IncompleteAccount
    <3> QED
      BY <1>1, <1>2, <2>1, <2>3, <3>1 DEF IInv, FileKept, TypeOK, ChecksPassed, FatalRightly, ServerTold
  <2> QED
    BY <2>2, <2>3
<1>4. CASE CreateController
  <2>1. /\ account_objects = DOMAIN accounts /\ UNCHANGED account_objects
        /\ process' = IF api = "other" THEN "terminated" ELSE "started"
    BY <1>4 DEF CreateController
  <2>2. api = "other" => ~Acceptable
    BY DEF Acceptable, Api
  <2> QED
    BY <1>1, <1>2, <2>1, <2>2 DEF IInv, FileKept, TypeOK, ChecksPassed, FatalRightly, ServerTold, Ready
<1> QED
  BY <1>3, <1>4 DEF Creating

(* The server's own check of the API comes at any time after Config.       *)
LEMMA ParseApiIInv ==
  ASSUME IInv, ParseApi
  PROVE  IInv'
<1>1. /\ process \in {"controller", "started"} /\ parsed' = TRUE
      /\ process' = IF api \in Api THEN process ELSE "terminated"
      /\ UNCHANGED <<file, api, position, symbols, accounts, users, rate_limits, master_account,
                     account_objects, server>>
  BY DEF ParseApi, configVars
<1>2. Loaded' /\ TypeOK'
  BY <1>1, UnchangedLoaded DEF IInv, TypeOK
<1>3. api \notin Api => ~Acceptable'
  BY <1>1 DEF Acceptable
<1> QED
  BY <1>1, <1>2, <1>3 DEF IInv, FileKept, ChecksPassed, FatalRightly, Ready, ServerTold

(* What the server is told is all of the configuration.                    *)
LEMMA DispatchIInv ==
  ASSUME IInv, Dispatch
  PROVE  IInv'
<1>1. /\ process \in {"controller", "started"}
      /\ UNCHANGED <<file, api, process, position, symbols, accounts, users, rate_limits, master_account,
                     account_objects, parsed>>
      /\ server' = {[symbols |-> symbols, users |-> users,
                     accounts |-> {accounts[name] : name \in DOMAIN accounts},
                     rate_limits |-> {rate_limits[name] : name \in DOMAIN rate_limits}]}
  BY DEF Dispatch, configVars
<1>2. position = Len(file)
  BY <1>1 DEF IInv, ChecksPassed
<1>3. ServerTold'
  BY <1>1, <1>2 DEF ServerTold
<1>4. Loaded' /\ TypeOK' /\ (Acceptable' <=> Acceptable)
  BY <1>1, UnchangedLoaded DEF IInv, TypeOK, Acceptable
<1> QED
  BY <1>1, <1>3, <1>4 DEF IInv, FileKept, ChecksPassed, FatalRightly, Ready

LEMMA UnchangedIInv ==
  ASSUME IInv, UNCHANGED vars
  PROVE  IInv'
<1>1. UNCHANGED <<file, api, process, position, symbols, accounts, users, rate_limits, master_account,
                  account_objects, parsed, server>>
  BY DEF vars, configVars
<1>2. TypeOK' /\ Loaded' /\ (Acceptable' <=> Acceptable)
  BY <1>1, UnchangedLoaded DEF IInv, TypeOK, Acceptable
<1> QED
  BY <1>1, <1>2 DEF IInv, FileKept, ChecksPassed, FatalRightly, Ready, ServerTold

LEMMA InitIInv == Init => IInv
<1> SUFFICES ASSUME Init PROVE IInv
  OBVIOUS
<1>1. TypeOK
  <2>1. file \in Seq(Section) /\ Len(file) \in Nat
    BY FileAssumption DEF Init
  <2>2. position \in 0 .. Len(file)
    BY <2>1 DEF Init
  <2>3. DOMAIN accounts = {} /\ DOMAIN rate_limits = {}
    BY DEF Init
  <2>4. users \in Seq(User)
    BY DEF Init
  <2> QED
    BY <2>1, <2>2, <2>3, <2>4 DEF Init, TypeOK
<1>2. position = 0 /\ 1 .. 0 = {}
  BY DEF Init
<1>3. Lists(users, "user", 0)
  <2>1. DOMAIN users = {}
    BY DEF Init
  <2>2. [k \in {} |-> 0] \in [DOMAIN users -> 1 .. 0]
    BY <2>1
  <2> QED
    BY <1>2, <2>1, <2>2 DEF Lists
<1>4. Loaded
  BY <1>2, <1>3 DEF Init, Loaded, AccountsLoaded, RateLimitsLoaded, KeepsAll, SymbolsLoaded, UsersLoaded
<1> QED
  BY <1>1, <1>4 DEF Init, IInv, FileKept, ChecksPassed, FatalRightly, ServerTold

LEMMA NextIInv == IInv /\ [Next]_vars => IInv'
<1> SUFFICES ASSUME IInv, [Next]_vars PROVE IInv'
  OBVIOUS
<1> QED
  BY ReadingIInv, CreatingIInv, ParseApiIInv, DispatchIInv, UnchangedIInv DEF Next

-----------------------------------------------------------------------------
(* The theorems *)

(* The inductive invariant holds.                                          *)
THEOREM StartupInvariant == Spec => []IInv
BY InitIInv, NextIInv, PTL DEF Spec

(* The state of the startup is of its type.                                *)
THEOREM StartupTypeCorrect == Spec => []TypeOK
<1>1. IInv => TypeOK
  BY DEF IInv
<1> QED
  BY <1>1, StartupInvariant, PTL

(* For every file and API: the gateway starts only with an acceptable one  *)
(* and is ended only with one that is not.                                 *)
THEOREM StartupOutcomeRight == Spec => []OutcomeRight
<1>1. IInv => OutcomeRight
  <2>1. ASSUME IInv, process = "started"
        PROVE  Acceptable
    <3>1. /\ position = Len(file) /\ DOMAIN file = 1 .. Len(file) /\ api \in ApiText
          /\ api # "other" /\ (parsed => api \in Api)
          /\ account_objects = DOMAIN accounts
      BY <2>1, FileFacts DEF IInv, FileKept, TypeOK, ChecksPassed
    <3>2. \A i \in DOMAIN file : file[i].kind # "request_template"
      BY <2>1, <3>1 DEF IInv, ChecksPassed
    <3>3. ASSUME NEW i \in DOMAIN file, file[i].kind = "account"
          PROVE  file[i].login /\ file[i].secret
      <4>1. KeepsAll(accounts, "account", Len(file)) /\ file \in File
        BY <2>1, <3>1 DEF IInv, FileKept, TypeOK, Loaded, AccountsLoaded
      <4>2. file[i].name \in DOMAIN accounts /\ accounts[file[i].name] = file[i]
        BY <3>1, <3>3, <4>1, KeepsEach DEF KeepsAll
      <4> QED
        BY <2>1, <3>1, <4>2 DEF IInv, ChecksPassed, Ready
    <3>4. api \in Api \cup (IF parsed THEN {} ELSE {"UNDEFINED"})
      BY <3>1 DEF ApiText, Api
    <3> QED
      BY <3>2, <3>3, <3>4 DEF Acceptable
  <2> QED
    BY <2>1 DEF OutcomeRight, IInv, FatalRightly
<1> QED
  BY <1>1, StartupInvariant, PTL

(* The sections of a map that keeps those of all of the file.              *)
LEMMA AllSections ==
  ASSUME NEW map, NEW kind, KeepsAll(map, kind, Len(file)), file \in Seq(Section),
         \A i \in DOMAIN file : file[i].kind = kind => map[file[i].name] = file[i]
  PROVE  /\ {map[name] : name \in DOMAIN map} = Sections(kind)
         /\ {section.name : section \in {map[name] : name \in DOMAIN map}} = DOMAIN map
<1>1. DOMAIN file = 1 .. Len(file)
  OBVIOUS
<1>2. \A name \in DOMAIN map : map[name].name = name
  BY DEF KeepsAll
<1>3. {map[name] : name \in DOMAIN map} \subseteq Sections(kind)
  BY <1>1 DEF KeepsAll, Sections
<1>4. Sections(kind) \subseteq {map[name] : name \in DOMAIN map}
  BY <1>1 DEF KeepsAll, Sections
<1>5. {section.name : section \in {map[name] : name \in DOMAIN map}} = DOMAIN map
  BY <1>2
<1>6. {map[name] : name \in DOMAIN map} = Sections(kind)
  BY <1>3, <1>4, Zenon
<1> QED
  BY <1>5, <1>6

(* For every file: what the server is told is the file, with the accounts  *)
(* of the controller (config.cpp, lines 50-72 and 97-129).                 *)
THEOREM StartupServerHasFile == Spec => []ServerHasFile
<1>1. IInv => ServerHasFile
  <2> SUFFICES ASSUME IInv, NEW told \in server
               PROVE  /\ told.symbols = Sections("symbols")
                      /\ told.accounts = Sections("account")
                      /\ told.rate_limits = Sections("rate_limit")
                      /\ Lists(told.users, "user", Len(file))
                      /\ process = "started" => {account.name : account \in told.accounts} = account_objects
    BY DEF ServerHasFile
  <2>1. /\ position = Len(file) /\ file \in File
        /\ told.symbols = symbols /\ told.users = users
        /\ told.accounts = {accounts[name] : name \in DOMAIN accounts}
        /\ told.rate_limits = {rate_limits[name] : name \in DOMAIN rate_limits}
    BY DEF IInv, FileKept, TypeOK, ServerTold
  <2>2. /\ KeepsAll(accounts, "account", Len(file)) /\ KeepsAll(rate_limits, "rate_limit", Len(file))
        /\ Lists(users, "user", Len(file))
        /\ symbols = {file[i] : i \in {j \in 1 .. Len(file) : file[j].kind = "symbols"}}
    BY <2>1 DEF IInv, Loaded, AccountsLoaded, RateLimitsLoaded, SymbolsLoaded, UsersLoaded
  <2>3. process = "started" => account_objects = DOMAIN accounts
    BY DEF IInv, ChecksPassed
  <2>4. file \in Seq(Section) /\ DOMAIN file = 1 .. Len(file)
    BY <2>1, FileFacts
  <2>5. /\ \A i \in DOMAIN file : file[i].kind = "account" => accounts[file[i].name] = file[i]
        /\ \A i \in DOMAIN file : file[i].kind = "rate_limit" => rate_limits[file[i].name] = file[i]
    BY <2>1, <2>2, KeepsEach
  <2>6. /\ told.accounts = Sections("account")
        /\ {account.name : account \in told.accounts} = DOMAIN accounts
    BY <2>1, <2>2, <2>4, <2>5, AllSections
  <2>7. told.rate_limits = Sections("rate_limit")
    BY <2>1, <2>2, <2>4, <2>5, AllSections
  <2>8. told.symbols = Sections("symbols")
    BY <2>1, <2>2, <2>4 DEF Sections
  <2> QED
    BY <2>1, <2>2, <2>3, <2>6, <2>7, <2>8
<1> QED
  BY <1>1, StartupInvariant, PTL
=============================================================================
