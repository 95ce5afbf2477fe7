---------------------------- MODULE Configuration ----------------------------
(***************************************************************************)
(* Where the parameters of a connection come from: conUtils.ts and         *)
(* credentials.ts of packages/gel/src.  parseConnectDsnAndArgs() looks at  *)
(* the options of createClient(), at the environment and at the project,   *)
(* in this order, and stops at the first that says which server is meant   *)
(* (a compound option: DSN, instance, credentials, host or port).          *)
(*                                                                         *)
(* A parameter's value is the name of the source it was taken from, except *)
(* for tlsSecurity, which is computed with.  Error stands for every        *)
(* exception; reading files and the environment is part of the input.      *)
(***************************************************************************)
EXTENDS Naturals, Sequences, FiniteSetsExt

None == "none"
Refused == "refused"

(* The parameters a level may give one by one, and those of a DSN. *)
Single == {"database", "branch", "user", "secretKey", "cloudProfile", "tlsCA", "tlsSecurity", "wait"}
Params == Single \cup {"host", "port"}
DsnParams == Params \ {"cloudProfile", "database", "branch"}
Error == [p \in Params |-> Refused]
Unset == [p \in Params |-> None]

Securities == {"default", "strict", "no_host_verification", "insecure"}

(* Steps are chained, and stop at the first error. *)
Then(c, Step(_)) == IF c = Error THEN Error ELSE Step(c)

(* setTlsSecurity(): GEL_CLIENT_SECURITY has a say in every value. *)
ClientSecurity(value, env) ==
  IF value \notin Securities \/ env \notin {None, "default", "insecure_dev_mode", "strict"} THEN Refused
  ELSE IF env = "insecure_dev_mode" /\ value = "default" THEN "insecure"
  ELSE IF env = "strict" THEN IF value \in {"insecure", "no_host_verification"} THEN Refused ELSE "strict"
  ELSE value

(* _setParam(): the first source of a parameter wins, and only a value     *)
(* that is used is validated.                                              *)
SetParam(c, p, value, env) ==
  IF c = Error \/ value = None THEN c
  ELSE IF c[p] # None THEN c
  ELSE IF value = "invalid" THEN Error
  ELSE IF p = "tlsSecurity" THEN
    LET security == ClientSecurity(value, env) IN
    IF security = Refused THEN Error ELSE [c EXCEPT ![p] = security]
  ELSE [c EXCEPT ![p] = value]

(* Mutant: a source may add a branch to the database of another. *)
SetEitherUnguarded(c, values) ==
  [c EXCEPT !["database"] = IF @ = None THEN values["database"] ELSE @,
            !["branch"] = IF @ = None THEN values["branch"] ELSE @]

(* Of database and branch the first source gives one, and never both; an   *)
(* empty name is invalid.                                                  *)
SetEither(c, values) ==
  IF c["database"] # None \/ c["branch"] # None THEN c
  ELSE LET p == IF values["database"] # None THEN "database" ELSE "branch"
       IN SetParam(c, p, values[p], None)

(* All other parameters of a source, in any order: they do not depend on   *)
(* each other.                                                             *)
SetAll(c, values, env) ==
  LET rest == DOMAIN values \ {"database", "branch"}
      new == [p \in rest |-> SetParam(c, p, values[p], env)]
  IN IF \E p \in rest : new[p] = Error THEN Error
     ELSE [p \in Params |-> IF p \in rest THEN new[p][p] ELSE c[p]]

Given(values, p) == IF p \in DOMAIN values THEN values[p] ELSE None
SetSource(c, values, env) ==
  Then(SetAll(c, values, env), LAMBDA d : SetEither(d, [p \in {"database", "branch"} |-> Given(values, p)]))

----------------------------------------------------------------------------
(* validateCredentials(): a credentials file may say the same thing twice, *)
(* in an old and in a new way, if it says the same.                        *)
Verify(data) == CASE data.verifyHostname = None -> None
                  [] data.verifyHostname = "true" -> "strict"
                  [] data.verifyHostname = "false" -> "no_host_verification"
                  [] OTHER -> Refused

Disagree(a, b) == a # None /\ b # None /\ a # b

ValidateCredentials(data) ==
  LET verify == Verify(data) IN
  IF \/ data.port = "invalid" \/ data.user = None
     \/ Disagree(data.branch, data.database)
     \/ Disagree(data.certData, data.ca)
     \/ verify = Refused
     \/ data.security \notin Securities \cup {None}
     \/ Disagree(verify, data.security)
          /\ ~(verify = "no_host_verification" /\ data.security = "insecure")
  THEN Error
  ELSE [port |-> data.port, user |-> data.user, host |-> data.host,
        database |-> data.database,
        branch |-> IF data.database = None THEN data.branch ELSE None,
        tlsCA |-> IF data.certData = None THEN data.ca ELSE data.certData,
        tlsSecurity |-> IF data.security = None THEN verify ELSE data.security]

----------------------------------------------------------------------------
(* parseDSNIntoConfig().  dsn.parts[p] holds the ways a DSN gives p: "url",  *)
(* "query" (?p=), "env", "file", or "env_missing" for ?p_env= with a       *)
(* variable that does not exist, which only matters when p is needed.      *)
(* More than one way is an error, needed or not.  ?tls_ca_file= counts as  *)
(* a way of tls_ca.                                                        *)
DsnPart(c, p, ways, value, env) ==
  IF Cardinality(ways) > 1 THEN Error
  ELSE IF c[p] # None \/ ways = {} THEN c
  ELSE IF ways = {"env_missing"} THEN Error
  ELSE SetParam(c, p, value, env)

DsnValue(dsn, p) == IF p = "tlsSecurity" THEN dsn.security ELSE "dsn"

(* The path of the URL names the branch if a parameter mentions one, and   *)
(* the database otherwise.  If the one is known already the other is not   *)
(* even looked at.                                                         *)
DsnEither(c, dsn, env) ==
  IF dsn.branch # {} THEN
    IF dsn.database # {} THEN Error
    ELSE IF c["database"] # None THEN c
    ELSE DsnPart(c, "branch", dsn.path \cup dsn.branch, "dsn", env)
  ELSE IF c["branch"] # None THEN c
  ELSE DsnPart(c, "database", dsn.path \cup dsn.database, "dsn", env)

ParseDSN(c, dsn, env) ==
  IF ~dsn.wellFormed THEN Error
  ELSE LET parts == [p \in DsnParams |-> DsnPart(c, p, dsn.parts[p], DsnValue(dsn, p), env)] IN
       IF \E p \in DsnParams : parts[p] = Error THEN Error
       ELSE DsnEither([p \in Params |-> IF p \in DsnParams THEN parts[p][p] ELSE c[p]], dsn, env)

----------------------------------------------------------------------------
(* parseCloudInstanceNameIntoConfig(): the secret key comes from the cloud *)
(* profile if nothing gave one before, and the host is computed from it.   *)
CloudInstance(c, cloud) ==
  IF c["secretKey"] = None /\ cloud.profile = None THEN Error
  ELSE LET key == IF c["secretKey"] = None THEN "cloud-credentials" ELSE c["secretKey"] IN
       IF cloud.keyValid THEN [c EXCEPT !["secretKey"] = key,
                                        !["host"] = IF @ = None THEN "cloud" ELSE @]
       ELSE Error

(* resolveConfigOptions(): what a level gives one by one is set before its *)
(* compound option is looked at.  compounds is the set of those it has.    *)
ResolveOptions(c, level, env) ==
  IF \/ level.caTwice
     \/ level.single["database"] # None /\ level.single["branch"] # None
  THEN Error
  ELSE Then(SetSource(c, level.single, env), LAMBDA d :
    IF level.compound = {} THEN d
    ELSE IF Cardinality(level.compound) > 1 THEN Error
    ELSE LET compound == CHOOSE x \in level.compound : TRUE IN
      CASE compound.kind = "dsn" -> ParseDSN(d, compound, env)
        [] compound.kind = "address" ->
             SetSource(d, [host |-> compound.host, port |-> compound.port], env)
        [] compound.kind = "credentials" ->
             Then(ValidateCredentials(compound.data), LAMBDA creds : SetSource(d, creds, env))
        [] compound.kind = "cloud" -> CloudInstance(d, compound)
        [] OTHER -> Error)

(* The files of a linked project may give the database and the branch, if  *)
(* they are the same: then it is the branch.  Without an instance, no project.     *)
ResolveProject(c, project, env) ==
  IF project.compound = {} THEN Error
  ELSE IF Disagree(project.single["database"], project.single["branch"]) THEN Error
  ELSE ResolveOptions(c, IF project.single["branch"] = None THEN project
                         ELSE [project EXCEPT !.single["database"] = None], env)

(* parseConnectDsnAndArgs(): the environment and the project are asked     *)
(* only if no compound option was found before.                            *)
Resolve(input) ==
  LET env == input.clientSecurity
      options == ResolveOptions(Unset, input.options, env)
      environment == Then(options, LAMBDA c : ResolveOptions(c, input.environment, env))
      project == Then(environment, LAMBDA c : ResolveProject(c, input.project, env))
      chosen == IF input.options.compound # {} THEN options
                ELSE IF input.environment.compound # {} THEN environment ELSE project
  IN Then(chosen, LAMBDA c : SetParam(c, "tlsSecurity", "default", env))

----------------------------------------------------------------------------
(* What the documentation of connection parameters promises: each          *)
(* parameter has the value of the first source that offers it, database    *)
(* and branch being one parameter with two names.                          *)
FirstOf(a, b) == IF a # None THEN a ELSE b
Says(d) == [p \in Params |-> Given(d, p)]

Offer(x) ==
  CASE x.kind = "dsn" ->
         [p \in Params |->
            CASE p = "branch" -> IF x.branch # {} THEN "dsn" ELSE None
              [] p = "database" -> IF x.branch = {} /\ x.path \cup x.database # {} THEN "dsn" ELSE None
              [] p = "cloudProfile" -> None
              [] OTHER -> IF x.parts[p] # {} THEN DsnValue(x, p) ELSE None]
    [] x.kind = "address" -> Says([host |-> x.host, port |-> x.port])
    [] x.kind = "credentials" ->
         Says([host |-> x.data.host, port |-> x.data.port, user |-> x.data.user,
               database |-> x.data.database, branch |-> x.data.branch,
               tlsCA |-> FirstOf(x.data.ca, x.data.certData),
               tlsSecurity |-> FirstOf(x.data.security, Verify(x.data))])
    [] x.kind = "cloud" -> Says([secretKey |-> "cloud-credentials", host |-> "cloud"])

OffersOf(level) ==
  <<Says(level.single)>> \o (IF level.compound = {} THEN <<>>
                             ELSE <<Offer(CHOOSE x \in level.compound : TRUE)>>)

(* The project names its instance itself; a source that is not asked does  *)
(* not matter, be it wrong or missing.                                     *)
Offers(input) ==
  OffersOf(input.options) \o
    (IF input.options.compound # {} THEN <<>>
     ELSE OffersOf(input.environment) \o
            (IF input.environment.compound # {} THEN <<>>
             ELSE OffersOf(input.project)))

FirstOffer(offers, p) ==
  LET giving == {n \in DOMAIN offers : offers[n][p] # None} IN
  IF giving = {} THEN None ELSE offers[Min(giving)][p]

(* The getters `database' and `branch' tell the same name. *)
Name(c) == FirstOf(c["database"], c["branch"])
Named(o) == [o EXCEPT !["database"] = Name(o)]

AsOffered(c, input) ==
  LET offers == Offers(input) IN
  /\ \A p \in Params \ {"database", "branch", "tlsSecurity"} : c[p] = FirstOffer(offers, p)
  /\ None \in {c["database"], c["branch"]}
  /\ Name(c) = FirstOffer([n \in DOMAIN offers |-> Named(offers[n])], "database")
  /\ c["tlsSecurity"] =
       ClientSecurity(FirstOf(FirstOffer(offers, "tlsSecurity"), "default"), input.clientSecurity)
  /\ input.clientSecurity = "strict" => c["tlsSecurity"] = "strict"
=============================================================================
