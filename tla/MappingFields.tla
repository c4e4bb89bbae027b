---------------------------- MODULE MappingFields ----------------------------
(* The fields of struct mappingobject (Objects/mappingobject.c:86).        *)
EXTENDS HashTable

VARIABLES
  ma_table,   \* MappingObject: the table, MappingThreads: its address; or NULL
  ma_size,    \* its slots
  ma_fill,    \* non-NULL keys
  ma_used     \* items
=============================================================================
