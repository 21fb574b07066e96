------------------------------- MODULE Scope -------------------------------
(***************************************************************************)
(* Addresses and the scope of a scan (src/audit/crawler/url_policy.py):    *)
(* which spellings of an address are one page, what a seed covers, and     *)
(* when pages of two scans are the same.                                   *)
(*                                                                         *)
(* An address is what the code takes apart.  Its path is a sequence of     *)
(* segments that ends in a slash or not; the address without a path is     *)
(* <<>> without a slash.  A site may be spelled with the other case or     *)
(* with the port that is the default anyway.                               *)
(*                                                                         *)
(* isUnder is wrong on purpose: a slip of the definition it precedes, kept *)
(* to show that the property notices it.                                   *)
(***************************************************************************)
EXTENDS Naturals, Sequences, SequencesExt, TLC

CONSTANTS
  Host,      \* host names (not IPv6 addresses, whose brackets normalize drops)
  Domain,    \* the registrable domain of each
  Apex,      \* each without a leading www
  Loopback,  \* the names of this computer
  Segment,   \* path segments
  File,      \* those that look like a file's name
  Param      \* query parameters, numbers

ASSUME ScopeAssumption ==
  /\ Apex \in [Host -> Host] /\ Domain \in [Host -> Host] /\ Loopback \subseteq Host
  /\ \A h \in Host : Apex[Apex[h]] = Apex[h] /\ Domain[Apex[h]] = Domain[h]
  /\ File \subseteq Segment /\ Param \subseteq Nat

Path == {<<>>} \cup {<<s>> : s \in Segment} \cup {<<s, t>> : s, t \in Segment}
SiteUrl == [host : Host, plainCase : BOOLEAN, port : {"none", "default", "other"},
            path : Path, slash : BOOLEAN,
            query : {q \in {<<>>} \cup {<<p>> : p \in Param} \cup {<<p, r>> : p, r \in Param} : IsInjective(q)},
            fragment : {"none", "anchor", "route"}]

-----------------------------------------------------------------------------
(* Spelling *)

\* _spa_route_fragment: only a route of the page's own router is kept.
SpaRoute(fragment) == IF fragment = "route" THEN fragment ELSE "none"

\* The parameters by their names, of which an address here has two at most.
Sorted(query) ==
  IF Len(query) = 2 /\ query[1] > query[2] THEN <<query[2], query[1]>> ELSE query

normalize(a) ==
  [a EXCEPT !.plainCase = TRUE, !.port = IF @ = "default" THEN "none" ELSE @,
            !.slash = @ \/ a.path = <<>>,
            !.query = Sorted(@), !.fragment = SpaRoute(@)]

LooksLikeFilename(segment) == segment \in File

\* normalize_seed_url: a seed that names a directory gets its slash.
normalizeSeed(a) ==
  IF a.path = <<>> \/ a.slash THEN a
  ELSE [a EXCEPT !.slash = ~LooksLikeFilename(Last(a.path))]

\* _canonical_scan_seed: the seed as it is stored, and as run_crawl reads it.
Canonical(a) == normalize(normalizeSeed(a))

-----------------------------------------------------------------------------
(* Scope *)

\* _path_prefix_for: the directory a seed stands for.
PathPrefix(a) ==
  IF a.slash \/ a.path = <<>> \/ ~LooksLikeFilename(Last(a.path)) THEN a.path ELSE Front(a.path)

buildScope(seed, wholeHost) ==
  [domain |-> Domain[seed.host], host |-> seed.host,
   prefix |-> IF wholeHost THEN <<>> ELSE PathPrefix(seed)]

\* A path starts with a prefix that ends in a slash.
StartsWith(a, prefix) ==
  /\ IsPrefix(prefix, a.path)
  /\ Len(a.path) > Len(prefix) \/ a.slash

isUnder(a, scope, subdomains) ==
  /\ IF subdomains THEN Domain[a.host] = scope.domain ELSE Apex[a.host] = Apex[scope.host]
  /\ scope.prefix = <<>> \/ StartsWith(a, scope.prefix)

isInScope(a, scope, subdomains) ==
  /\ IF subdomains THEN Domain[a.host] = scope.domain ELSE Apex[a.host] = Apex[scope.host]
  /\ \/ scope.prefix = <<>>
     \/ a.path = scope.prefix /\ ~a.slash
     \/ StartsWith(a, scope.prefix)

\* is_excluded: the address is the entry, or under it.
isExcluded(a, entry) ==
  /\ a.host = entry.host /\ a.port = entry.port /\ a.plainCase = entry.plainCase
  /\ IsPrefix(entry.path, a.path)
  /\ a.path = entry.path /\ ~a.slash => a.query # <<>> \/ a.fragment = "none"

\* compare_key: on this computer neither the port nor the host's name counts.
Local == CHOOSE h \in Loopback : TRUE
compareKey(a) ==
  IF a.host \notin Loopback THEN a
  ELSE [a EXCEPT !.host = Local, !.plainCase = TRUE, !.port = "none", !.slash = @ \/ a.path = <<>>,
                 !.query = Sorted(@), !.fragment = SpaRoute(@)]

\* _signed_in_entry_url: where sign-in ended keeps its fragment.
EntryUrl(a) == [normalize(a) EXCEPT !.fragment = a.fragment]

-----------------------------------------------------------------------------
(* Properties *)

\* Normalizing is done once: again changes nothing, and it never moves an
\* address in or out of a scope.  A seed is in the scope it gives, whichever
\* way it is spelled, a scope is a directory with all under it, on one site,
\* and a wider setting covers what the narrower one does (url_policy.py).
ScopeIsSound ==
  /\ \A a \in SiteUrl :
       /\ normalize(normalize(a)) = normalize(a) /\ compareKey(compareKey(a)) = compareKey(a)
       /\ Canonical(Canonical(a)) = Canonical(a)
       /\ \A wide, subdomains \in BOOLEAN :
            LET scope == buildScope(Canonical(a), wide)
            IN /\ isInScope(Canonical(a), scope, subdomains)
               /\ isInScope(EntryUrl(a), scope, subdomains)
               /\ (a.path = <<>> \/ a.slash \/ Last(a.path) \notin File) =>
                    buildScope([a EXCEPT !.slash = TRUE], wide) = scope
  /\ \A a, b \in [host : Host, plainCase : {TRUE}, port : {"none"}, path : Path, slash : BOOLEAN,
                  query : {<<>>}, fragment : {"none", "anchor"}] :
       LET narrow == buildScope(Canonical(a), FALSE)
           whole == buildScope(Canonical(a), TRUE)
       IN /\ isInScope(b, narrow, FALSE) <=> isInScope(normalize(b), narrow, FALSE)
          /\ isInScope(b, narrow, FALSE) <=> Apex[a.host] = Apex[b.host] /\ IsPrefix(narrow.prefix, b.path)
          /\ isInScope(b, narrow, FALSE) => isInScope(b, whole, FALSE) /\ isInScope(b, narrow, TRUE)
=============================================================================
