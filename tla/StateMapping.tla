---------------------------- MODULE StateMapping ----------------------------
(***************************************************************************)
(* dim_to_zone in Python (embedding/service.py) and in C++                 *)
(* (state_to_hierarchy.cpp), scanned over all values of an int16: services *)
(* of both languages must place a query in the same zone.                  *)
(***************************************************************************)
EXTENDS Integers

CONSTANT ZoneNumbers  \* num_zones; the layout of the code has 27 everywhere

ASSUME ZonesAssumption ==
  \A zones \in ZoneNumbers : zones \in Nat /\ 1 <= zones /\ zones <= 65535

VARIABLES
  value,      \* a dimension of an embedding
  num_zones,
  py,         \* what Python returns for it
  cpp         \* what C++ returns for it

mappingVars == <<value, num_zones, py, cpp>>

AtMost(n, x) == IF x < n THEN x ELSE n
AtLeast(n, x) == IF x > n THEN x ELSE n

(* Faulty variant: the zone size is rounded up. *)
PythonRoundsUp(val, zones) ==
  AtMost(65535, AtLeast(0, val + 32768)) \div ((65536 + zones - 1) \div zones)

PythonZone(val, zones) ==
  LET normalized == AtMost(65535, AtLeast(0, val + 32768))
      zone_size == 65536 \div zones
  IN AtMost(zones - 1, normalized \div zone_size)

(* Faulty variant: the last zone is not cut off. *)
CppUnclamped(val, zones) == ((val + 32768) \div (65536 \div zones)) % 65536

(* The sum is at least 0, so its conversion to a uint32 keeps it; the zone *)
(* is returned as a uint16.                                                *)
CppZone(val, zones) ==
  LET normalized == val + 32768
      zone_size == 65536 \div zones
      zone == normalized \div zone_size
  IN (IF zone >= zones THEN zones - 1 ELSE zone) % 65536

MappingTypeOK ==
  /\ value \in Int /\ -32768 <= value /\ value <= 32767
  /\ num_zones \in ZoneNumbers
  /\ py \in 0..(num_zones - 1)
  /\ cpp \in 0..(num_zones - 1)

MappingInit ==
  /\ value = -32768
  /\ num_zones \in ZoneNumbers
  /\ py = PythonZone(value, num_zones)
  /\ cpp = CppZone(value, num_zones)

(* The next value. *)
Scan ==
  /\ value < 32767
  /\ value' = value + 1
  /\ py' = PythonZone(value + 1, num_zones)
  /\ cpp' = CppZone(value + 1, num_zones)
  /\ UNCHANGED num_zones

MappingNext == Scan

MappingSpec == MappingInit /\ [][MappingNext]_mappingVars

-----------------------------------------------------------------------------
(* A state vector made by the API and one made by the C++ core agree.      *)
SameZone == py = cpp
=============================================================================
