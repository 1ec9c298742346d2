-------------------------------- MODULE Columns --------------------------------
(***************************************************************************)
(* The fast fields of a segment: one file of numbers per field, one number *)
(* per document, in the order of the documents.  Both numeric types are    *)
(* integers here.  A document is written as the function from its numeric  *)
(* fields to their values.                                                 *)
(***************************************************************************)
EXTENDS Integers, SequencesExt

\* schema.fastFields() of the types FastFieldReader and doMerge know.
NumericFields(schema) ==
  {f \in ToSet(schema) : f.fast /\ f.type \in {"Int64", "Float32"}}

\* FixedField::writeFast: a missing field, or one of another type, is 0.
FastValue(f, fields) ==
  IF f.name \in DOMAIN fields /\ fields[f.name].kind = f.type THEN fields[f.name].val ELSE 0

Row(schema, fields) ==
  [name \in {f.name : f \in NumericFields(schema)} |->
     FastValue(CHOOSE f \in NumericFields(schema) : f.name = name, fields)]

\* addInt64 / addFloat32 for every document, then flush: the ff_<field> files.
WriteColumns(schema, rows) ==
  [name \in {f.name : f \in NumericFields(schema)} |->
     [p \in DOMAIN rows |-> rows[p][name]]]

\* FastFieldReader::load: the fields of the schema that have a file, as many
\* values as the segment has documents, 0 where the file is shorter.
LoadColumns(files, schema, docCount) ==
  [name \in {f.name : f \in NumericFields(schema)} \cap DOMAIN files |->
     [p \in 1 .. docCount |-> IF p <= Len(files[name]) THEN files[name][p] ELSE 0]]

\* getInt64 / getFloat32 at index p - 1.
Value(columns, name, p) ==
  IF name \in DOMAIN columns /\ p \in DOMAIN columns[name] THEN columns[name][p] ELSE 0

\* IndexSearcher::passesFilter: the column is read at doc_id - 1; ranged is
\* hasPubtimeRange, and uid = -1 asks for no uid.
PassesFilter(columns, id, filter) ==
  /\ filter.ranged => Value(columns, "pubtime", id) \in filter.lo .. filter.hi
  /\ filter.uid >= 0 => Value(columns, "uid", id) = filter.uid
=============================================================================
