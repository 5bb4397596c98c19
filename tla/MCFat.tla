------------------------------- MODULE MCFat -------------------------------
(***************************************************************************)
(* Fat for TLC: seven clusters of two units or four entries, volumes that  *)
(* mkfs and other drivers have written, and two values: one whose bytes    *)
(* are no directory entry, one whose bytes are an entry of a file that     *)
(* starts at cluster 3, and the end of a directory after it.               *)
(***************************************************************************)
EXTENDS Fat

MCPaths == {"/", "/f", "/d", "/n", "/d/g", "/d/g/h", "/fs.log"}
MCDirs == {"/", "/d", "/d/g"}
MCParentOf == "/d/g" :> "/d" @@ "/d/g/h" :> "/d/g" @@ [p \in MCPaths \ {"/"} |-> "/"]
MCStray == "/" :> "/n" @@ "/d" :> "/d/g" @@ "/d/g" :> "/d/g/h"
MCReadAs ==
  "x" :> <<Junk, Junk>> @@ "log" :> <<Junk, Junk>>
    @@ "e" :> <<[path |-> Leftover, dir |-> FALSE, start |-> 3, size |-> 1], End>>

\* A volume with those data, and those entries in its directories.
Slots(entries) == [k \in 1..E |-> IF k <= Len(entries) THEN entries[k] ELSE End]
Volume(fat, slots, data) ==
  LET units == data @@ [c \in Clusters |-> [j \in 1..U |-> Stale]]
      bytes(unit, k) == IF unit = Stale THEN End ELSE ReadAs[unit][PlaceIn(k)]
  IN [fat |-> fat @@ [c \in Clusters |-> FREE],
      slots |-> slots @@ [c \in Clusters |-> [k \in 1..E |-> bytes(units[c][UnitOf(k)], k)]],
      data |-> units]
Sized(entry, n) == [entry EXCEPT !.size = n]

\* As mkfs leaves it.
Empty == Volume(2 :> EOC, 2 :> Slots(<<>>), <<>>)

\* A file of two clusters and an empty directory.
TwoEntries ==
  Volume(2 :> EOC @@ 3 :> 5 @@ 5 :> EOC @@ 4 :> EOC,
         2 :> Slots(<<Sized(Entry("/f", FALSE, 3), U + 1), Entry("/d", TRUE, 4)>>) @@ 4 :> Slots(<<>>),
         3 :> <<"x", "x">> @@ 5 :> <<"x", Stale>>)

\* A directory with a file, after a deleted entry, and a file.
Nested ==
  Volume(2 :> EOC @@ 3 :> EOC @@ 4 :> EOC @@ 6 :> EOC,
         2 :> Slots(<<Entry("/d", TRUE, 4), Sized(Entry("/f", FALSE, 6), U)>>)
           @@ 4 :> Slots(<<Entry(Erased, FALSE, 5), Sized(Entry("/d/g", FALSE, 3), 1)>>),
         3 :> <<"x", Stale>> @@ 6 :> <<"x", "x">>)

\* A directory with no room, whose files were deleted.
NoRoom ==
  Volume(2 :> EOC @@ 4 :> EOC,
         2 :> Slots(<<Entry("/d", TRUE, 4)>>) @@ 4 :> [k \in 1..E |-> Entry(Erased, FALSE, 5)], <<>>)

MCImages == {Empty, TwoEntries, Nested, NoRoom}
MCOneImage == {TwoEntries}

=============================================================================
