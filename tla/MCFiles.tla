------------------------------ MODULE MCFiles ------------------------------
(***************************************************************************)
(* All images with two blocks beside the root, each a file or a directory, *)
(* that the root, and the first of them, may name, also both by one name.  *)
(***************************************************************************)
EXTENDS FilesProps

\* The data of one begins with the last byte of a sector, that of the other with the first.
First == 4
Second == 8

Indexes == {<<>>,
            <<[name |-> "a", start |-> First]>>,
            <<[name |-> "b", start |-> Second]>>,
            <<[name |-> "b", start |-> Second], [name |-> "a", start |-> First]>>,
            <<[name |-> "a", start |-> First], [name |-> "a", start |-> Second]>>}

FirstSize(index) == IF index = <<>> THEN 0 ELSE Head(index).start

Dir(index) == [type |-> "directory", size |-> FirstSize(index), index |-> index]
File(size, index) == [type |-> "file", size |-> size, index |-> index]

\* The file at First may hold bytes that read as a directory.
MCDisks ==
  {[b \in {2, First, Second} |->
      CASE b = 2 -> Dir(top) [] b = First -> first [] OTHER -> second] :
    top \in Indexes \ {<<>>},
    first \in {Dir(<<[name |-> "b", start |-> Second]>>), File(3, <<>>),
               File(3, <<[name |-> "b", start |-> Second]>>)},
    second \in {File(1, <<>>), Dir(<<>>)}}

P(absolute, parts) == [absolute |-> absolute, parts |-> parts]

\* "/", "/a", "b", "/a/b", "a/b", "/a/", "/b/a", "//a", "/a/b/" and "/dev".
MCPaths ==
  {P(TRUE, <<"">>), P(TRUE, <<"a">>), P(FALSE, <<"b">>), P(TRUE, <<"a", "b">>),
   P(FALSE, <<"a", "b">>), P(TRUE, <<"a", "">>), P(TRUE, <<"b", "a">>),
   P(TRUE, <<"", "a">>), P(TRUE, <<"a", "b", "">>), P(TRUE, <<"dev">>)}

=============================================================================
