------------------------------ MODULE MCGenList ------------------------------
EXTENDS GenList
ArgvProgram == <<<<"b", "a">>>>
\* Programs that make, take apart and print values, and programs that compare
\* them.
SomeSources ==
  {[kinds |-> {"create", "string", "add", "tuple", "head", "at", "concat", "print", "print_string", "print_tuple"},
    nodes |-> 7],
   [kinds |-> {"create", "tuple", "compare", "compare_tuple"}, nodes |-> 8]}
NestedCompares == {[kinds |-> {"create", "compare"}, nodes |-> 8]}
SomeStrings == {<<"a">>}
=============================================================================
