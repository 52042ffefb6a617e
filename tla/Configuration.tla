--------------------------- MODULE Configuration ---------------------------
(***************************************************************************)
(* ROUTER_CONFIG_JSON as validate (route-authority/src/main.rs) judges it: *)
(* the targets, and who may do what to them with which bearer token.  A    *)
(* configuration keeps the lists of the document, in which an entry may    *)
(* stand twice.  Strings are model values; Blank is the empty one.         *)
(***************************************************************************)
EXTENDS Integers, Sequences, FiniteSets

CONSTANTS
  Text,     \* names, groups, routes, sources and reporters
  Token,    \* bearer tokens
  Blank     \* an empty string, also one of spaces where the code trims it

String == Text \cup {Blank}
Secret == Token \cup {Blank}

TargetConfig == [name : String, idleRoute : String, group : String]
AdapterSecret ==
  [token : Secret, source : String, targets : SUBSET String, routes : SUBSET String,
   minTtl : Nat, maxTtl : Nat]
ReporterSecret == [token : Secret, reporter : String, targets : SUBSET String]

Config ==
  [targets : Seq(TargetConfig), adapters : Seq(AdapterSecret),
   reporters : Seq(ReporterSecret), readers : Seq(Secret), admins : Seq(Secret),
   urlOk : BOOLEAN]

Entries(s) == {s[i] : i \in DOMAIN s}

\* No two entries agree on what f tells of them.
Differ(s, f(_)) == \A i, j \in DOMAIN s : f(s[i]) = f(s[j]) => i = j

Name(t) == t.name
Group(t) == t.group
TokenOf(p) == p.token
SourceOf(p) == p.source
ReporterOf(p) == p.reporter
Itself(x) == x

Names(c) == {t.name : t \in Entries(c.targets)}
AdapterTokens(c) == {p.token : p \in Entries(c.adapters)}
ReporterTokens(c) == {p.token : p \in Entries(c.reporters)}
ReaderTokens(c) == Entries(c.readers)
AdminTokens(c) == Entries(c.admins)

ValidTargets(c) ==
  /\ c.targets # <<>>
  /\ \A t \in Entries(c.targets) : Blank \notin {t.name, t.idleRoute, t.group}
  /\ Differ(c.targets, Name)
  /\ Differ(c.targets, Group)

ValidAdapters(c) ==
  /\ c.adapters # <<>>
  /\ \A p \in Entries(c.adapters) :
       /\ p.source # Blank
       /\ p.targets # {} /\ p.targets \subseteq Names(c)
       /\ p.routes # {} /\ Blank \notin p.routes
       /\ p.minTtl <= p.maxTtl
  /\ Differ(c.adapters, SourceOf)

ValidReporters(c) ==
  /\ c.reporters # <<>>
  /\ \A p \in Entries(c.reporters) :
       /\ p.reporter # Blank
       /\ p.targets # {} /\ p.targets \subseteq Names(c)
  /\ Differ(c.reporters, ReporterOf)

Reporting(c, name) == {i \in DOMAIN c.reporters : name \in c.reporters[i].targets}

\* Mutation: a target needs a reporter, but may have several.
SomeReporter(c) == \A name \in Names(c) : Reporting(c, name) # {}

OneReporter(c) == \A name \in Names(c) : Cardinality(Reporting(c, name)) = 1

\* Mutation: a token is unique within its role only.
TokensUniqueByRole(c) ==
  /\ Differ(c.adapters, TokenOf) /\ Differ(c.reporters, TokenOf)
  /\ Differ(c.readers, Itself) /\ Differ(c.admins, Itself)

\* No token stands twice, in one role or in two.
TokensUnique(c) ==
  /\ Differ(c.adapters, TokenOf) /\ Differ(c.reporters, TokenOf)
  /\ Differ(c.readers, Itself) /\ Differ(c.admins, Itself)
  /\ AdapterTokens(c) \cap ReporterTokens(c) = {}
  /\ (AdapterTokens(c) \cup ReporterTokens(c)) \cap (ReaderTokens(c) \cup AdminTokens(c)) = {}
  /\ ReaderTokens(c) \cap AdminTokens(c) = {}

ValidTokens(c) ==
  /\ c.readers # <<>> /\ c.admins # <<>>
  /\ Blank \notin AdapterTokens(c) \cup ReporterTokens(c)
                    \cup ReaderTokens(c) \cup AdminTokens(c)
  /\ TokensUnique(c)

Valid(c) ==
  /\ c.urlOk
  /\ ValidTargets(c)
  /\ ValidAdapters(c)
  /\ ValidReporters(c)
  /\ OneReporter(c)
  /\ ValidTokens(c)

\* Authority::new checks the targets again, without their groups' uniqueness.
Constructible(c) ==
  /\ c.targets # <<>>
  /\ \A t \in Entries(c.targets) : Blank \notin {t.name, t.idleRoute, t.group}
  /\ Differ(c.targets, Name)
=============================================================================
