-------------------------- MODULE RbumEnumeration --------------------------
(***************************************************************************)
(* The integer encodings of the rbum enumerations,                         *)
(* src/basic/src/rbum/rbum_enumeration.rs.  Each kind has a from_int, a    *)
(* match from the i16 column value to the variant with a format error for  *)
(* any other value, and a to_int, a match from the variant to the i16.     *)
(* try_get reads the column and turns a from_int error into                *)
(* RecordNotFound.  The two matches are written separately in the code, so *)
(* they are written separately here, each as the function its match arms  *)
(* list.                                                                    *)
(***************************************************************************)
EXTENDS Integers, TLC

\* The outcome of from_int for a value no arm matches, and of try_get then.
FormatError == "406-rbum-*-enum-init-error"
RecordNotFound == "record_not_found"

\* from_int(s): the arms of the match; OTHER values are the `_` arm.
FromInt(arms, s) == IF s \in DOMAIN arms THEN arms[s] ELSE FormatError

\* TryGetable::try_get: i16 from the column, then from_int, errors mapped.
TryGet(arms, s) == IF s \in DOMAIN arms THEN arms[s] ELSE RecordNotFound

\* RbumScopeLevelKind, lines 24-45.
ScopeLevelFromInt == (-1 :> "Private") @@ (0 :> "Root") @@ (1 :> "L1") @@ (2 :> "L2") @@ (3 :> "L3")
ScopeLevelToInt == [Private |-> -1, Root |-> 0, L1 |-> 1, L2 |-> 2, L3 |-> 3]

\* RbumCertRelKind, lines 67-84.
CertRelFromInt == (0 :> "Item") @@ (1 :> "Set") @@ (2 :> "Rel")
CertRelToInt == [Item |-> 0, Set |-> 1, Rel |-> 2]

\* RbumRelFromKind, lines 107-126.
RelFromFromInt == (0 :> "Item") @@ (1 :> "Set") @@ (2 :> "SetCate") @@ (3 :> "Cert")
RelFromToInt == [Item |-> 0, Set |-> 1, SetCate |-> 2, Cert |-> 3]

\* RbumCertConfStatusKind, lines 146-161.
CertConfStatusFromInt == (0 :> "Disabled") @@ (1 :> "Enabled")
CertConfStatusToInt == [Disabled |-> 0, Enabled |-> 1]

\* RbumCertStatusKind, lines 170-187.
CertStatusFromInt == (0 :> "Disabled") @@ (1 :> "Enabled") @@ (2 :> "Pending")
\* Mutant: to_int with the Enabled and Pending arms swapped.
CertStatusToIntSwapped == [Disabled |-> 0, Enabled |-> 2, Pending |-> 1]
CertStatusToInt == [Disabled |-> 0, Enabled |-> 1, Pending |-> 2]

\* RbumRelEnvKind, lines 209-226.
RelEnvFromInt == (0 :> "DatetimeRange") @@ (1 :> "TimeRange") @@ (2 :> "Ips")
RelEnvToInt == [DatetimeRange |-> 0, TimeRange |-> 1, Ips |-> 2]

\* The six kinds, each as its pair of matches.
Encodings ==
    { [from |-> ScopeLevelFromInt, to |-> ScopeLevelToInt],
      [from |-> CertRelFromInt, to |-> CertRelToInt],
      [from |-> RelFromFromInt, to |-> RelFromToInt],
      [from |-> CertConfStatusFromInt, to |-> CertConfStatusToInt],
      [from |-> CertStatusFromInt, to |-> CertStatusToInt],
      [from |-> RelEnvFromInt, to |-> RelEnvToInt] }

\* The i16 values read back: each arm's value, its neighbours, and the
\* extremes of the column type.
I16Samples == (-2..4) \cup {-32768, 32767}

(***************************************************************************)
(* Every variant a row is written with (to_int) is read back as itself by  *)
(* from_int and by try_get, and every i16 that from_int accepts is what    *)
(* to_int writes for the variant it yields: the two hand-written matches   *)
(* of each kind are inverse, so no stored status, rel kind or scope level  *)
(* is read back as another one or rejected as corrupt.                     *)
(***************************************************************************)
EnumRoundTrip ==
    \A e \in Encodings :
        /\ \A k \in DOMAIN e.to : FromInt(e.from, e.to[k]) = k /\ TryGet(e.from, e.to[k]) = k
        /\ \A s \in I16Samples :
              FromInt(e.from, s) # FormatError => e.to[FromInt(e.from, s)] = s
=============================================================================
