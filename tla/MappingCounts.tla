---------------------------- MODULE MappingCounts ----------------------------
(***************************************************************************)
(* What holds of a dictionary that one thread uses: its counters, the      *)
(* references it owns and what it stores.                                  *)
(***************************************************************************)
EXTENDS MappingFields

VARIABLE refs   \* [Objects -> Int]: references the dictionary owns

Objects == Key \cup Value \cup {Dummy}

\* The table; no slots if there is none.
OldTable == IF ma_table = NULL THEN NewTable(0) ELSE ma_table

\* "The value ma_fill is the number of non-NULL keys; ma_used is the number
\* of non-NULL, non-dummy keys" (mappingobject.c:81), and the invariant for
\* entries (mappingobject.c:67).
CountsExact ==
  /\ ma_fill = Cardinality(NonNull(OldTable))
  /\ ma_used = Cardinality(Items(OldTable))
  /\ \A i \in DOMAIN OldTable :
       OldTable[i].value # NULL <=> OldTable[i].key \in Key

\* The dictionary owns exactly one reference for every pointer in its table.
RefsExact ==
  \A x \in Objects :
    refs[x] = Cardinality({i \in DOMAIN OldTable : OldTable[i].key = x})
            + Cardinality({i \in DOMAIN OldTable : OldTable[i].value = x})

AsDictionary == INSTANCE Dictionary WITH d <- Contents(OldTable)

\* The hash table implements a dictionary: every operation has the effect of
\* the one called, also when it resizes the table or runs out of memory.
ActsAsDictionary == AsDictionary!DictionarySpec
=============================================================================
