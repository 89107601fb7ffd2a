----------------------------- MODULE MCModules -----------------------------
(* Binaries for TLC: an exporter, an importer that exports again what it   *)
(* imports, and modules whose instantiation fails at different steps.      *)
EXTENDS Modules

Base ==
  [has |-> {"func"}, imports |-> << >>, exports |-> {"func"}, type |-> 1, min |-> 0,
   max |-> 0, table_min |-> 0, table_max |-> 0, global |-> 0, is_mutable |-> FALSE,
   valid |-> TRUE, elems |-> 0, data |-> 0, offset_global |-> FALSE, start |-> FALSE]

(* Own memory and table, growable and exported, and a global.              *)
Exporter ==
  [Base EXCEPT !.has = Kinds, !.exports = Kinds, !.min = 2, !.max = 4,
               !.table_min = 1, !.table_max = 2, !.elems = 1, !.global = 1]

(* Imports all that from the module called A and exports it again.         *)
Importer ==
  [Base EXCEPT !.has = Kinds, !.exports = Kinds, !.imports = [k \in Kinds |-> "A"],
               !.min = 1, !.max = 4, !.table_min = 1, !.table_max = 2,
               !.data = 1, !.offset_global = TRUE, !.start = TRUE]

(* The second of a chain of importers: links to the first by its name.     *)
Chained == [Importer EXCEPT !.imports = [k \in Kinds |-> "B"], !.min = 2, !.start = FALSE]

(* Its data segment fits only once somebody grew the memory it shares.     *)
TooEarly == [Importer EXCEPT !.data = 2, !.imports = [k \in {"memory", "global"} |-> "A"],
                             !.has = Kinds, !.elems = 0]

(* Requires a smaller maximum than the exporter has.                       *)
Strict == [TooEarly EXCEPT !.max = 3, !.data = 0]

(* A global the guest may set, and a host function.                        *)
Setter == [Base EXCEPT !.has = {"func", "global"}, !.imports = [k \in {"func"} |-> "H"],
                       !.global = 1, !.is_mutable = TRUE]

(* Imports nothing but the global.                                         *)
Reader == [Base EXCEPT !.has = {"func", "global"}, !.exports = {"func", "global"},
                       !.imports = [k \in {"global"} |-> "A"]]

(* No memory, and code that Validate refuses.                              *)
Unvalidated == [Base EXCEPT !.valid = FALSE]

Load(n, b) == [name |-> n, binary |-> b]
CoreBinaries ==
  {Load("A", Exporter), Load("B", Importer), Load("C", Unvalidated)}
StoreBinaries ==
  {Load("A", Exporter), Load("B", Importer), Load("B", TooEarly), Load("C", Chained),
   Load("B", Strict), Load("B", Reader), Load("C", Setter), Load("C", Unvalidated)}
=============================================================================
