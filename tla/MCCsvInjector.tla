---------------------------- MODULE MCCsvInjector ----------------------------
(***************************************************************************)
(* A small instance of CsvInjector: two scopes, one of which is changed,   *)
(* two CSVs of one package, and a package that comes to be asked for without*)
(* having any.                                                             *)
(***************************************************************************)
EXTENDS CsvInjector

CONSTANTS scopeA, scopeB, cm1, cm2, n1, n2, p1, p2, c1, c2

OneMap == [s \in Scope |-> cm1]
FirstPackage == [c \in Csv |-> p1]

\* Both inject, or the one that will be changed does.
OneOrBoth == {{scopeA}, Scope}

\* No WATCH_NAMESPACE yet, or a plain one in the first CSV.
FirstPlain == {[c \in Csv |-> Absent], [c \in Csv |-> IF c = c1 THEN Plain ELSE Absent]}

\* The webhook of the first CSV was narrowed to one member.
Narrowed == [c \in Csv |-> IF c = c1 THEN {n1} ELSE {}]

AllValid == [s \in Scope |-> IF s = scopeA THEN {n1} ELSE {n2}]
=============================================================================
