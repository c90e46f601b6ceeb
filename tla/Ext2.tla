-------------------------------- MODULE Ext2 --------------------------------
(***************************************************************************)
(* The reader of ext2 images (fs/fs.c), a program for the host: it looks   *)
(* for one name in the root directory and reads its inode.  Positions in   *)
(* the image are bytes; what a read returns is what an ext2 image has      *)
(* there: descriptors of groups, inodes, or zeros.                         *)
(***************************************************************************)
EXTENDS Integers, Sequences, FiniteSets

CONSTANTS
    Names,      \* file names, also those that are searched for
    Ipgs,       \* values of s_inodes_per_group
    GroupCounts,  \* possible numbers of block groups
    Logs,       \* values of s_log_block_size
    MaxEntries, \* entries of the root directory
    MaxOthers,  \* entries that the block of another inode reads as
    Inodes      \* inode numbers of files

SIZE_BOOT == 1024
INODE_ROOT == 2
GroupDesc == 32    \* sizeof(ext2_group_desc)
InodeSize == 128   \* sizeof(ext2_inode)

ASSUME Ext2Assumption ==
    /\ GroupCounts \subseteq Nat \ {0} /\ Logs \subseteq Nat /\ Ipgs \subseteq Nat \ (0 .. INODE_ROOT)
    /\ MaxEntries \in Nat /\ MaxOthers \in Nat /\ Inodes \subseteq Nat \ {0}
    /\ "endless" \notin Names

\* Entries of a directory; one whose inode is 0 is not in use but keeps its name.
Entry == [name : Names, inode : Inodes \cup {0}]
Used(dir) == {k \in DOMAIN dir : dir[k].inode # 0}

Directories ==
    {dir \in UNION {[1 .. n -> Entry] : n \in 0 .. MaxEntries} :
        \A k, l \in Used(dir) : dir[k].name = dir[l].name => k = l}

\* An image: the root directory has one block, and before the superblock there is
\* no boot loader.
Image == [magic : BOOLEAN, log : Logs, groups : GroupCounts, ipg : Ipgs, dir : Directories]

\* What the first block of any other inode, a directory's or a file's, reads as:
\* entries that follow no rule, perhaps up to one from which the walk does not
\* come back, as its length is 0.
Endless == [name |-> "endless", inode |-> 0]
Others == UNION {[1 .. n -> Entry \cup {Endless}] : n \in 0 .. MaxOthers}

VARIABLES
    img, file,   \* the image and the name
    pc,          \* "superblock", "directory", "string2dir", "inode", "done"
    BLOCK_SIZE,
    lo,          \* the block: the entries string2dir walks through
    j,           \* entries it has left behind
    found,       \* its result, an inode number
    de,          \* desc->de
    ino,         \* the inode whose bytes desc->ino holds, 0: of none
    result       \* what string2file_desc returned

vars == <<img, file, pc, BLOCK_SIZE, lo, j, found, de, ino, result>>

None == [name |-> "none", inode |-> 0]

Init ==
    /\ img \in Image /\ file \in Names
    /\ pc = "superblock" /\ BLOCK_SIZE = 0
    /\ lo = << >> /\ j = 0 /\ found = 0 /\ de = None /\ ino = 0 /\ result = 0

-----------------------------------------------------------------------------
(* The image.  The descriptors follow the block of the superblock, and     *)
(* every group's inode table is where its descriptor says.                 *)

Pow2[n \in Nat] == IF n = 0 THEN 1 ELSE 2 * Pow2[n - 1]
ImageBlock == Pow2[img.log] * 1024
DescAt == IF img.log = 0 THEN 2048 ELSE ImageBlock
Table(g) == 20 + 10 * g

\* bg_inode_table of the descriptor at a position, 0 where there are zeros.
DescriptorAt(pos) ==
    LET n == (pos - DescAt) \div GroupDesc
    IN  IF pos >= DescAt /\ n < img.groups THEN Table(n) ELSE 0

Owner(n) == (n - 1) \div img.ipg
InodePosition(n) == Table(Owner(n)) * ImageBlock + InodeSize * ((n - 1) % img.ipg)

\* The number of the inode at a position, 0 where there is none.
InodeAt(pos) ==
    LET here == {n \in 1 .. img.groups * img.ipg : InodePosition(n) = pos}
    IN  IF here = {} THEN 0 ELSE CHOOSE n \in here : TRUE

-----------------------------------------------------------------------------
(* The program                                                             *)

block_size(block) == Pow2[block] * 1024

\* Mutant: the descriptors follow the superblock's own 1024 bytes.
groupAtOnce(n_group) == DescriptorAt(SIZE_BOOT + GroupDesc * n_group)

group(n_group) == DescriptorAt(SIZE_BOOT + BLOCK_SIZE + GroupDesc * n_group)

inode(n_inode, bg_inode_table) ==
    InodeAt(BLOCK_SIZE * bg_inode_table + InodeSize * (n_inode - 1))

Return(r) == result' = r /\ pc' = "done"

superblock ==
    /\ pc = "superblock"
    /\ IF img.magic
       THEN BLOCK_SIZE' = block_size(img.log) /\ pc' = "directory" /\ UNCHANGED result
       ELSE Return(2) /\ UNCHANGED BLOCK_SIZE
    /\ UNCHANGED <<img, file, lo, j, found, de, ino>>

\* The inode that is read as the root's, and its first block.  Zeros are an inode
\* of no size.
directory ==
    /\ pc = "directory" /\ pc' = "string2dir"
    /\ LET n == inode(INODE_ROOT, group(INODE_ROOT \div img.ipg)) IN
       lo' \in IF n = INODE_ROOT THEN {img.dir} ELSE IF n = 0 THEN {<< >>} ELSE Others
    /\ UNCHANGED <<img, file, BLOCK_SIZE, j, found, de, ino, result>>

\* Mutant: an entry that is not in use counts as found.
MatchedUnused(e) == de' = e /\ found' = INODE_ROOT

\* The last entry of the name stays, and its inode, which may be 0, is the result.
Matched(e) == de' = e /\ found' = e.inode

\* One entry of string2dir's walk.
string2dir ==
    /\ pc = "string2dir" /\ j < Len(lo) /\ lo[j + 1] # Endless
    /\ j' = j + 1
    /\ IF lo[j'].name = file THEN Matched(lo[j']) ELSE UNCHANGED <<de, found>>
    /\ UNCHANGED <<img, file, pc, BLOCK_SIZE, lo, ino, result>>

string2dirEnd ==
    /\ pc = "string2dir" /\ j >= Len(lo)
    /\ IF found = 0 THEN Return(3) ELSE pc' = "inode" /\ UNCHANGED result
    /\ UNCHANGED <<img, file, BLOCK_SIZE, lo, j, found, de, ino>>

\* The group's number is taken with %, and the inode's place in the table with n - 1.
fileInode ==
    /\ pc = "inode"
    /\ ino' = inode(de.inode, group(de.inode % img.ipg))
    /\ Return(0)
    /\ UNCHANGED <<img, file, BLOCK_SIZE, lo, j, found, de>>

Next == superblock \/ directory \/ string2dir \/ string2dirEnd \/ fileInode

Spec == Init /\ [][Next]_vars

-----------------------------------------------------------------------------
(* Properties                                                              *)

Named == {k \in DOMAIN img.dir : img.dir[k].name = file}

\* group() looks one block behind the superblock for the first descriptor.  In 1-KB
\* blocks it is there; otherwise this place is SIZE_BOOT bytes too far on, where
\* a small image has zeros and a larger one a later group's descriptor.
OnlyTheRoot == img.log = 0 \/ img.groups <= SIZE_BOOT \div GroupDesc

\* string2file_desc finds a file only if it is there, on an image with 1-KB blocks or
\* of at most 32 groups, whatever is left of removed files of the name; and it
\* finds every file on an image with 1-KB blocks, unless an entry out of use has
\* its name.  On any image it says "Error en superblock" when the magic number is
\* wrong and only then.
FindsTheEntry ==
    pc = "done" =>
        /\ result = 2 <=> ~img.magic
        /\ OnlyTheRoot /\ result = 0 => \E k \in Named \cap Used(img.dir) : de = img.dir[k]
        /\ (img.magic /\ img.log = 0 /\ Named \cap Used(img.dir) # {} /\ Named \subseteq Used(img.dir))
               => result = 0

\* The same without OnlyTheRoot: another inode's block, which is read as the root's,
\* gives an entry the root does not have.  No run checks it.
FoundIsThere ==
    pc = "done" /\ result = 0 => \E k \in Named \cap Used(img.dir) : de = img.dir[k]

\* "Archivo no encontrado": a file that is not found is not there.  Images with
\* larger blocks and names that an unused entry repeats break it; no run checks it.
NotFoundIsAbsent ==
    pc = "done" /\ result = 3 => Named \cap Used(img.dir) = {}

\* desc->ino is the inode of desc->de.  It is so only where the two mistakes of
\* fileInode cancel out; no run checks it.
InodeIsTheFiles == pc = "done" /\ result = 0 => ino = de.inode
=============================================================================
