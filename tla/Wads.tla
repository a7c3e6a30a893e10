-------------------------------- MODULE Wads --------------------------------
(***************************************************************************)
(* The texture archives of a map: WadSet of pocket3d-bsp/src/wad.rs, and   *)
(* how a texture of the map is found (cook.rs, lib.rs): in the map itself, *)
(* else in the first archive that lists its name, else not at all.         *)
(*                                                                         *)
(* A file is known by what its bytes are: it may not be an archive, or its *)
(* directory may end early.                                                *)
(***************************************************************************)
EXTENDS Integers, Sequences, FiniteSets

CONSTANTS
    FILES,      \* files: whether it has the magic, what its directory lists
                \* (a name, and whether its block can be decoded), and how
                \* much of the directory there is
    NAMES       \* names of textures

VARIABLES
    offered,    \* the files that were read
    files,      \* those of the set, numbered from 1
    entries     \* name -> which file, and which block of it

vars == <<offered, files, entries>>

\* A block, or why there is none.
No(why) == [name |-> why, good |-> FALSE]

\* The blocks of a file, by place: a file has as many as its directory lists.
BlockAt(file, at) == IF at \in DOMAIN file.lists THEN file.lists[at] ELSE No("outside")

Listed(file) == {file.lists[at].name : at \in 1 .. file.whole}

-----------------------------------------------------------------------------
\* Mutation: a later archive's texture replaces that of an earlier one.
ReplacesEarlier(name) == TRUE

KeepsFirst(name) == name \notin DOMAIN entries

\* The entries after the directory of a file that will be number `next` was
\* read, as far as it goes.
Indexed(file, next) ==
    LET new == {n \in Listed(file) : KeepsFirst(n)}
        place(n) == CHOOSE at \in 1 .. file.whole :
                      /\ file.lists[at].name = n
                      /\ \A before \in 1 .. at - 1 : file.lists[before].name # n
    IN  [n \in DOMAIN entries \cup new |->
           IF n \in new THEN [file |-> next, at |-> place(n)] ELSE entries[n]]

\* WadSet::add_file, for the next file of add_dirs, which goes on after an
\* error. What was read of a directory that ends early stays in the index.
AddFile(file) ==
    /\ file \notin offered /\ offered' = offered \cup {file}
    /\ IF ~file.magic THEN UNCHANGED <<files, entries>>
       ELSE /\ entries' = Indexed(file, Len(files) + 1)
            /\ files' = IF file.whole = Len(file.lists) THEN Append(files, file) ELSE files

Init == offered = {} /\ files = <<>> /\ entries = [n \in {} |-> 0]

Next == \E file \in FILES : AddFile(file)

Spec == Init /\ [][Next]_vars

-----------------------------------------------------------------------------
\* WadSet::find_block: out of bounds if there is no such file.
Block(name) ==
    IF name \notin DOMAIN entries THEN No("none")
    ELSE IF entries[name].file \notin DOMAIN files THEN No("panic")
    ELSE BlockAt(files[entries[name].file], entries[name].at)

TypeOK ==
    /\ offered \subseteq FILES /\ DOMAIN entries \subseteq NAMES
    /\ \A n \in DOMAIN entries : entries[n].file \in 1 .. Len(files) + 1

\* "The raw miptex block for a texture, if present in any loaded WAD": what is
\* found for a name is the block of that name in the first archive that was
\* loaded with it, and nothing is found for another. (find_block)
FoundIsNamed ==
    \A name \in NAMES :
        LET having == {f \in DOMAIN files : name \in Listed(files[f])}
        IN  IF having = {} THEN Block(name) = No("none")
            ELSE /\ Block(name).name = name
                 /\ \A f \in having : entries[name].file <= f
=============================================================================
