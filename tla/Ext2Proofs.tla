----------------------------- MODULE Ext2Proofs -----------------------------
(***************************************************************************)
(* Proofs about the ext2 reader, for images with any number of groups,     *)
(* inodes and entries: what string2file_desc finds.                        *)
(***************************************************************************)
EXTENDS Ext2, NatLemmas

\* The walk has found the last entry of the name so far; with none in use of
\* which it could have kept a 0, nothing found means that no entry had the name.
Matches == {k \in DOMAIN lo : lo[k].name = file}

Walked ==
    /\ Len(lo) \in Nat /\ DOMAIN lo = 1 .. Len(lo) /\ j \in 0 .. Len(lo)
    /\ found # 0 => \E k \in 1 .. j : k \in Matches /\ de = lo[k] /\ found = lo[k].inode
    /\ found = 0 /\ Matches \subseteq Used(lo) => \A k \in 1 .. j : k \notin Matches

\* The block that is walked through: with blocks of 1 KB the root's, and otherwise,
\* if there are not too many groups, none.
RootOnly ==
    /\ img.log = 0 => lo = img.dir
    /\ OnlyTheRoot => lo \in {img.dir, << >>}

\* What the program knows at each place of it.
Reading ==
    /\ pc \in {"superblock", "directory"} => j = 0 /\ found = 0
    /\ pc \in {"directory", "string2dir", "inode"} => img.magic
    /\ pc = "directory" => BLOCK_SIZE = block_size(img.log)
    /\ pc \in {"string2dir", "inode"} => RootOnly
    /\ pc = "inode" => found # 0
    /\ pc = "done" => \/ result = 2 /\ ~img.magic
                      \/ result = 3 /\ img.magic /\ found = 0 /\ j >= Len(lo) /\ RootOnly
                      \/ result = 0 /\ img.magic /\ found # 0 /\ RootOnly

ReaderInv ==
    /\ img \in Image /\ pc \in {"superblock", "directory", "string2dir", "inode", "done"}
    /\ Walked /\ Reading

-----------------------------------------------------------------------------
(* The image                                                               *)

\* The root directory is a sequence of entries.
LEMMA Directory ==
    ASSUME img \in Image
    PROVE  /\ Len(img.dir) \in Nat /\ DOMAIN img.dir = 1 .. Len(img.dir)
           /\ img.ipg \in Nat /\ img.ipg > INODE_ROOT
           /\ img.groups \in Nat \ {0} /\ img.log \in Nat
<1>1. img.dir \in Directories /\ img.ipg \in Ipgs /\ img.groups \in GroupCounts /\ img.log \in Logs
  BY DEF Image
<1>2. PICK n \in 0 .. MaxEntries : img.dir \in [1 .. n -> Entry]
  BY <1>1 DEF Directories
<1>3. n \in Nat
  BY Ext2Assumption
<1>4. DOMAIN img.dir = 1 .. n /\ Len(img.dir) = n
  BY <1>2, <1>3
<1>5. img.ipg \in Nat /\ img.ipg > INODE_ROOT
  <2>1. img.ipg \in Nat /\ img.ipg \notin 0 .. INODE_ROOT
    BY <1>1, Ext2Assumption
  <2> QED BY <2>1 DEF INODE_ROOT
<1>6. img.groups \in Nat \ {0} /\ img.log \in Nat
  BY <1>1, Ext2Assumption
<1> QED BY <1>3, <1>4, <1>5, <1>6

\* The block size the reader computes is the image's.
LEMMA Blocks ==
    ASSUME img \in Image
    PROVE  /\ block_size(img.log) = ImageBlock /\ ImageBlock \in Nat /\ ImageBlock >= 1024
           /\ img.log = 0 => ImageBlock = 1024
<1>1. Pow2 \in [Nat -> Nat \ {0}] /\ Pow2[0] = 1
  BY Doubling, Zenon DEF Pow2
<1>2. img.log \in Nat
  BY Directory
<1>3. Pow2[img.log] \in Nat /\ Pow2[img.log] >= 1
  BY <1>1, <1>2
<1> QED BY <1>1, <1>3 DEF block_size, ImageBlock

\* In an image with blocks of 1 KB one inode lies where the reader looks for the
\* root's: the second of the first group.
LEMMA RootPlace ==
    ASSUME img \in Image, img.log = 0, NEW n \in 1 .. img.groups * img.ipg
    PROVE  InodePosition(n) = 1024 * Table(0) + InodeSize * (INODE_ROOT - 1) <=> n = INODE_ROOT
<1> DEFINE p == img.ipg
           g == Owner(n)
           r == (n - 1) % p
<1>1. p \in Nat \ {0} /\ p > 2 /\ n \in Int /\ n >= 1
  BY Directory, Ext2Assumption DEF INODE_ROOT
<1>2. n - 1 = p * g + r /\ g \in Int /\ r \in 0 .. p - 1
  <2>1. n - 1 \in Int
    BY <1>1
  <2>2. n - 1 = p * ((n - 1) \div p) + ((n - 1) % p) /\ (n - 1) \div p \in Int /\ (n - 1) % p \in 0 .. p - 1
    <3> HIDE DEF p
    <3> QED BY <1>1, <2>1, Divided
  <2> QED BY <2>2 DEF Owner
<1>3. InodePosition(n) = (20 + 10 * g) * 1024 + 128 * r
  BY Blocks DEF InodePosition, Table, InodeSize
<1>4. Table(0) = 20 /\ InodeSize = 128 /\ INODE_ROOT = 2
  BY DEF Table, InodeSize, INODE_ROOT
<1> HIDE DEF p, g, r
<1>5. g >= 0
  <2> SUFFICES ASSUME g <= -1 PROVE FALSE
    BY <1>2
  <2>1. p * g <= p * (-1)
    BY <1>1, <1>2, Scaled
  <2> QED BY <2>1, <1>1, <1>2
<1>6. CASE g = 0
  BY <1>1, <1>2, <1>3, <1>4, <1>6
<1>7. CASE g >= 1
  <2>1. p * 1 <= p * g
    BY <1>1, <1>2, <1>7, Scaled
  <2>2. n # 2
    BY <2>1, <1>1, <1>2
  <2>3. InodePosition(n) > 1024 * 20 + 128
    BY <1>2, <1>3, <1>7
  <2> QED BY <2>2, <2>3, <1>4
<1> QED BY <1>2, <1>5, <1>6, <1>7

\* Every inode lies behind the first block.
LEMMA NotInFront ==
    ASSUME img \in Image, NEW n \in 1 .. img.groups * img.ipg
    PROVE  InodePosition(n) >= 1024
<1> DEFINE p == img.ipg
           g == Owner(n)
           r == (n - 1) % p
<1>1. p \in Nat \ {0} /\ n - 1 \in Int /\ n - 1 >= 0
  BY Directory DEF INODE_ROOT
<1>2. n - 1 = p * g + r /\ g \in Int /\ r \in 0 .. p - 1
  <2>1. n - 1 = p * ((n - 1) \div p) + ((n - 1) % p) /\ (n - 1) \div p \in Int /\ (n - 1) % p \in 0 .. p - 1
    <3> HIDE DEF p
    <3> QED BY <1>1, Divided
  <2> QED BY <2>1 DEF Owner
<1>3. InodePosition(n) = (20 + 10 * g) * ImageBlock + 128 * r
  BY DEF InodePosition, Table, InodeSize
<1> HIDE DEF p, g, r
<1>4. g >= 0
  <2> SUFFICES ASSUME g <= -1 PROVE FALSE
    BY <1>2
  <2>1. p * g <= p * (-1)
    BY <1>1, <1>2, Scaled
  <2> QED BY <2>1, <1>1, <1>2
<1>5. PICK b \in Nat : b = ImageBlock /\ b >= 1024
  BY Blocks
<1>6. b * 1 <= b * (20 + 10 * g)
  BY <1>2, <1>4, <1>5, Scaled
<1>7. (20 + 10 * g) * b = b * (20 + 10 * g)
  BY <1>2, <1>5
<1>8. PICK q \in Int : q = b * (20 + 10 * g)
  BY <1>2, <1>5
<1> QED BY <1>2, <1>3, <1>5, <1>6, <1>7, <1>8

\* Which group the reader takes for the root's.
LEMMA RootGroup == img \in Image => INODE_ROOT \div img.ipg = 0
<1> SUFFICES ASSUME img \in Image PROVE INODE_ROOT \div img.ipg = 0
  OBVIOUS
<1>1. img.ipg \in Nat \ {0} /\ INODE_ROOT \in 0 .. img.ipg - 1 /\ INODE_ROOT = img.ipg * 0 + INODE_ROOT
  BY Directory DEF INODE_ROOT
<1> QED BY <1>1, DivUnique

\* With blocks of 1 KB the reader finds the root's inode.
LEMMA RootFound ==
    ASSUME img \in Image, img.log = 0, BLOCK_SIZE = block_size(img.log)
    PROVE  inode(INODE_ROOT, group(INODE_ROOT \div img.ipg)) = INODE_ROOT
<1>1. BLOCK_SIZE = 1024 /\ ImageBlock = 1024 /\ DescAt = 2048
  BY Blocks DEF DescAt
<1>2. INODE_ROOT \div img.ipg = 0
  BY RootGroup
<1>3. group(0) = Table(0)
  <2>1. SIZE_BOOT + BLOCK_SIZE + GroupDesc * 0 = 2048
    BY <1>1 DEF SIZE_BOOT, GroupDesc
  <2>2. (2048 - 2048) \div GroupDesc = 0
    BY DEF GroupDesc
  <2>3. img.groups \in Nat \ {0}
    BY Directory
  <2>4. DescriptorAt(2048) = Table(0)
    BY <1>1, <2>2, <2>3 DEF DescriptorAt
  <2> QED BY <2>1, <2>4 DEF group
<1>4. INODE_ROOT \in 1 .. img.groups * img.ipg
  <2>1. img.groups \in Nat /\ img.groups >= 1 /\ img.ipg \in Nat \ {0} /\ img.ipg > 2
    BY Directory DEF INODE_ROOT
  <2>2. img.ipg * 1 <= img.ipg * img.groups
    BY <2>1, Scaled
  <2>3. img.groups * img.ipg \in Int /\ img.groups * img.ipg = img.ipg * img.groups /\ img.ipg * 1 = img.ipg
    BY <2>1
  <2> QED BY <2>1, <2>2, <2>3 DEF INODE_ROOT
<1> DEFINE pos == 1024 * Table(0) + InodeSize * (INODE_ROOT - 1)
           here == {n \in 1 .. img.groups * img.ipg : InodePosition(n) = pos}
<1>5. here = {INODE_ROOT}
  BY <1>4, RootPlace
<1>6. InodeAt(pos) = INODE_ROOT
  <2>1. InodeAt(pos) = IF here = {} THEN 0 ELSE CHOOSE n \in here : TRUE
    BY DEF InodeAt
  <2> HIDE DEF here
  <2> QED BY <2>1, <1>5
<1> QED BY <1>1, <1>2, <1>3, <1>6 DEF inode

\* With larger blocks and at most 32 groups it reads zeros: a descriptor of zeros
\* behind the last one, and for its inode what lies in the first block.
LEMMA ZerosFound ==
    ASSUME img \in Image, img.log # 0, OnlyTheRoot, BLOCK_SIZE = block_size(img.log)
    PROVE  inode(INODE_ROOT, group(INODE_ROOT \div img.ipg)) = 0
<1>1. BLOCK_SIZE = ImageBlock /\ ImageBlock \in Nat /\ DescAt = ImageBlock
  BY Blocks DEF DescAt
<1>2. INODE_ROOT \div img.ipg = 0
  BY RootGroup
<1>3. img.groups \in Nat /\ img.groups <= 32
  <2>1. SIZE_BOOT \div GroupDesc = 32
    BY DEF SIZE_BOOT, GroupDesc
  <2> QED BY <2>1, Directory DEF OnlyTheRoot
<1>4. group(0) = 0
  <2>1. (SIZE_BOOT + BLOCK_SIZE + GroupDesc * 0) - DescAt = 1024
    BY <1>1 DEF SIZE_BOOT, GroupDesc
  <2>2. 1024 \div GroupDesc = 32
    BY DEF GroupDesc
  <2>3. DescriptorAt(SIZE_BOOT + BLOCK_SIZE + GroupDesc * 0) = 0
    BY <1>3, <2>1, <2>2 DEF DescriptorAt
  <2> QED BY <2>3 DEF group
<1>5. BLOCK_SIZE * 0 + InodeSize * (INODE_ROOT - 1) = 128
  BY <1>1 DEF InodeSize, INODE_ROOT
<1>6. InodeAt(128) = 0
  <2>1. \A n \in 1 .. img.groups * img.ipg : InodePosition(n) # 128
    <3>1. \A n \in 1 .. img.groups * img.ipg : InodePosition(n) >= 1024
      BY NotInFront
    <3> QED BY <3>1
  <2> QED BY <2>1 DEF InodeAt
<1> QED BY <1>2, <1>4, <1>5, <1>6 DEF inode

-----------------------------------------------------------------------------
(* The program                                                             *)

\* What is walked through is a sequence.
LEMMA AnyBlock ==
    ASSUME img \in Image, NEW b \in {img.dir, << >>} \cup Others
    PROVE  Len(b) \in Nat /\ DOMAIN b = 1 .. Len(b)
<1>1. CASE b = img.dir
  BY <1>1, Directory
<1>2. CASE b = << >>
  BY <1>2
<1>3. CASE b \in Others
  <2>1. PICK n \in 0 .. MaxOthers : b \in [1 .. n -> Entry \cup {Endless}]
    BY <1>3 DEF Others
  <2>2. n \in Nat
    BY Ext2Assumption
  <2> QED BY <2>1, <2>2
<1> QED BY <1>1, <1>2, <1>3

\* The block the reader takes for the root's.
LEMMA ReadBlock ==
    ASSUME ReaderInv, directory
    PROVE  Len(lo') \in Nat /\ DOMAIN lo' = 1 .. Len(lo') /\ RootOnly'
<1> DEFINE n == inode(INODE_ROOT, group(INODE_ROOT \div img.ipg))
<1>1. img \in Image /\ img' = img /\ BLOCK_SIZE = block_size(img.log)
  BY DEF ReaderInv, Reading, directory
<1>2. lo' \in IF n = INODE_ROOT THEN {img.dir} ELSE IF n = 0 THEN {<< >>} ELSE Others
  BY DEF directory
<1>3. img.log = 0 => n = INODE_ROOT
  BY <1>1, RootFound
<1>4. img.log # 0 /\ OnlyTheRoot => n = 0
  BY <1>1, ZerosFound
<1> HIDE DEF n
<1>5. 0 # INODE_ROOT
  BY DEF INODE_ROOT
<1>6. img.log = 0 => lo' = img.dir
  BY <1>2, <1>3
<1>7. OnlyTheRoot => lo' \in {img.dir, << >>}
  BY <1>2, <1>4, <1>5, <1>6
<1>8. OnlyTheRoot' <=> OnlyTheRoot
  BY <1>1 DEF OnlyTheRoot
<1>9. lo' \in {img.dir, << >>} \cup Others
  BY <1>2
<1>10. Len(lo') \in Nat /\ DOMAIN lo' = 1 .. Len(lo')
  BY <1>1, <1>9, AnyBlock
<1> QED BY <1>1, <1>6, <1>7, <1>8, <1>10 DEF RootOnly

\* One entry of the walk.
LEMMA WalkOn ==
    ASSUME ReaderInv, string2dir
    PROVE  Walked'
<1> DEFINE i == j + 1
           N == Matches
<1>0. Len(lo) \in Nat /\ DOMAIN lo = 1 .. Len(lo) /\ j \in 0 .. Len(lo)
  BY DEF ReaderInv, Walked
<1>1. i \in DOMAIN lo /\ j' = i /\ i \in 0 .. Len(lo)
  BY <1>0 DEF string2dir
<1>2. UNCHANGED <<lo, file>> /\ Matches' = N
  BY DEF string2dir, Matches
<1>3. i \in N <=> lo[i].name = file
  BY <1>1 DEF Matches
<1>4. IF i \in N THEN de' = lo[i] /\ found' = lo[i].inode ELSE UNCHANGED <<de, found>>
  BY <1>1, <1>3 DEF string2dir, Matched
<1>5. \A k \in 1 .. i : k = i \/ k \in 1 .. j
  BY <1>0
<1>6. 1 .. j \subseteq 1 .. i /\ i \in 1 .. i
  BY <1>0
<1>7. ASSUME found' # 0 PROVE \E k \in 1 .. i : k \in N /\ de' = lo[k] /\ found' = lo[k].inode
  <2>1. CASE i \in N
    BY <2>1, <1>4, <1>6
  <2>2. CASE i \notin N
    <3>1. PICK k \in 1 .. j : k \in N /\ de = lo[k] /\ found = lo[k].inode
      BY <1>4, <1>7, <2>2 DEF ReaderInv, Walked
    <3> QED BY <3>1, <1>4, <1>6, <2>2
  <2> QED BY <2>1, <2>2
<1>8. ASSUME found' = 0, N \subseteq Used(lo) PROVE \A k \in 1 .. i : k \notin N
  <2>1. i \notin N
    BY <1>4, <1>8 DEF Used
  <2>2. \A k \in 1 .. j : k \notin N
    BY <1>4, <1>8, <2>1 DEF ReaderInv, Walked
  <2> QED BY <2>1, <2>2, <1>5
<1>9. Used(lo)' = Used(lo)
  BY <1>2 DEF Used
<1> HIDE DEF N, i
<1> QED BY <1>0, <1>1, <1>2, <1>7, <1>8, <1>9 DEF Walked

\* A step that reads no entry leaves what was found.
LEMMA WalkKept ==
    ASSUME ReaderInv, UNCHANGED <<lo, file, j, found, de>>
    PROVE  Walked'
BY DEF ReaderInv, Walked, Matches, Used

LEMMA ReaderStep == ReaderInv /\ [Next]_vars => ReaderInv'
<1> SUFFICES ASSUME ReaderInv, [Next]_vars PROVE ReaderInv'
  OBVIOUS
<1>0. img \in Image
  BY DEF ReaderInv
<1>1. CASE superblock
  <2>1. UNCHANGED <<img, file, lo, j, found, de>>
    BY <1>1 DEF superblock
  <2>2. j = 0 /\ found = 0
    BY <1>1 DEF ReaderInv, Reading, superblock
  <2>3. Walked'
    BY <2>1, WalkKept
  <2>4. CASE img.magic
    <3>1. pc' = "directory" /\ BLOCK_SIZE' = block_size(img.log)
      BY <1>1, <2>4 DEF superblock
    <3>2. Reading'
      BY <2>1, <2>2, <2>4, <3>1 DEF Reading, block_size
    <3> QED BY <1>0, <2>1, <2>3, <3>1, <3>2 DEF ReaderInv
  <2>5. CASE ~img.magic
    <3>1. pc' = "done" /\ result' = 2
      BY <1>1, <2>5 DEF superblock, Return
    <3>2. Reading'
      BY <2>1, <2>5, <3>1 DEF Reading
    <3> QED BY <1>0, <2>1, <2>3, <3>1, <3>2 DEF ReaderInv
  <2> QED BY <2>4, <2>5
<1>2. CASE directory
  <2>1. UNCHANGED <<img, file, j, found, de>> /\ pc' = "string2dir"
    BY <1>2 DEF directory
  <2>2. j = 0 /\ found = 0 /\ img.magic
    BY <1>2 DEF ReaderInv, Reading, directory
  <2>3. Len(lo') \in Nat /\ DOMAIN lo' = 1 .. Len(lo') /\ RootOnly'
    BY <1>2, ReadBlock
  <2>4. Walked'
    BY <2>1, <2>2, <2>3 DEF Walked
  <2>5. Reading'
    BY <2>1, <2>2, <2>3 DEF Reading
  <2> QED BY <1>0, <2>1, <2>4, <2>5 DEF ReaderInv
<1>3. CASE string2dir
  <2>1. Walked'
    BY <1>3, WalkOn
  <2>2. UNCHANGED <<img, lo, pc>> /\ pc = "string2dir"
    BY <1>3 DEF string2dir
  <2>3. img.magic /\ RootOnly'
    BY <2>2 DEF ReaderInv, Reading, RootOnly, OnlyTheRoot
  <2>4. Reading'
    BY <2>2, <2>3 DEF Reading
  <2> QED BY <1>0, <2>1, <2>2, <2>4 DEF ReaderInv
<1>4. CASE string2dirEnd
  <2>1. UNCHANGED <<img, file, lo, j, found, de>>
    BY <1>4 DEF string2dirEnd
  <2>2. img.magic /\ j >= Len(lo) /\ RootOnly'
    BY <1>4, <2>1 DEF ReaderInv, Reading, RootOnly, OnlyTheRoot, string2dirEnd
  <2>3. Walked'
    BY <2>1, WalkKept
  <2>4. IF found = 0 THEN pc' = "done" /\ result' = 3 ELSE pc' = "inode"
    BY <1>4 DEF string2dirEnd, Return
  <2>5. Reading' /\ pc' \in {"inode", "done"}
    BY <2>1, <2>2, <2>4 DEF Reading
  <2> QED BY <1>0, <2>1, <2>3, <2>5 DEF ReaderInv
<1>5. CASE fileInode
  <2>1. UNCHANGED <<img, file, lo, j, found, de>> /\ pc' = "done" /\ result' = 0
    BY <1>5 DEF fileInode, Return
  <2>2. img.magic /\ found # 0 /\ RootOnly'
    BY <1>5, <2>1 DEF ReaderInv, Reading, RootOnly, OnlyTheRoot, fileInode
  <2>3. Walked'
    BY <2>1, WalkKept
  <2>4. Reading'
    BY <2>1, <2>2 DEF Reading
  <2> QED BY <1>0, <2>1, <2>3, <2>4 DEF ReaderInv
<1>6. CASE UNCHANGED vars
  <2>1. UNCHANGED <<img, file, pc, BLOCK_SIZE, lo, j, found, de, result>>
    BY <1>6 DEF vars
  <2>2. Walked'
    BY <2>1, WalkKept
  <2>3. Reading'
    BY <2>1 DEF ReaderInv, Reading, RootOnly, OnlyTheRoot, block_size
  <2> QED BY <1>0, <2>1, <2>2, <2>3 DEF ReaderInv
<1> QED BY <1>1, <1>2, <1>3, <1>4, <1>5, <1>6 DEF Next

\* At first nothing has been read.
LEMMA ReaderInit == Init => ReaderInv
<1> SUFFICES ASSUME Init PROVE ReaderInv
  OBVIOUS
<1>1. img \in Image /\ pc = "superblock" /\ lo = << >> /\ j = 0 /\ found = 0
  BY DEF Init
<1>2. Len(lo) = 0 /\ DOMAIN lo = 1 .. 0
  BY <1>1
<1> QED BY <1>1, <1>2 DEF ReaderInv, Walked, Reading

\* On an image with 1-KB blocks or at most 32 groups, what string2file_desc finds is
\* there; with blocks of 1 KB it finds what is there unless an entry that is not
\* in use has the name too.
THEOREM EntryFound == Spec => []FindsTheEntry
<1>1. ReaderInv => FindsTheEntry
  <2> SUFFICES ASSUME ReaderInv, pc = "done"
               PROVE  /\ result = 2 <=> ~img.magic
                      /\ OnlyTheRoot /\ result = 0 => \E k \in Named \cap Used(img.dir) : de = img.dir[k]
                      /\ (img.magic /\ img.log = 0 /\ Named \cap Used(img.dir) # {}
                             /\ Named \subseteq Used(img.dir)) => result = 0
    BY DEF FindsTheEntry
  <2>1. \/ result = 2 /\ ~img.magic
        \/ result = 3 /\ img.magic /\ found = 0 /\ j >= Len(lo) /\ RootOnly
        \/ result = 0 /\ img.magic /\ found # 0 /\ RootOnly
    BY DEF ReaderInv, Reading
  <2>2. ASSUME OnlyTheRoot, result = 0 PROVE \E k \in Named \cap Used(img.dir) : de = img.dir[k]
    <3>1. PICK k \in 1 .. j : k \in Matches /\ de = lo[k] /\ found = lo[k].inode
      BY <2>1, <2>2 DEF ReaderInv, Walked
    <3>2. lo = img.dir
      BY <2>1, <2>2, <3>1 DEF RootOnly, Matches
    <3>3. k \in Named \cap Used(img.dir)
      BY <2>1, <2>2, <3>1, <3>2 DEF Named, Used, Matches
    <3> QED BY <3>1, <3>2, <3>3
  <2>3. ASSUME img.magic, img.log = 0, Named \cap Used(img.dir) # {}, Named \subseteq Used(img.dir),
               result = 3
        PROVE  FALSE
    <3>1. found = 0 /\ j >= Len(lo) /\ lo = img.dir
      BY <2>1, <2>3 DEF RootOnly
    <3>2. Matches = Named
      BY <3>1 DEF Matches, Named
    <3>3. \A k \in DOMAIN lo : k \notin Named
      BY <2>3, <3>1, <3>2 DEF ReaderInv, Walked
    <3> QED BY <2>3, <3>1, <3>3 DEF Named
  <2> QED BY <2>1, <2>2, <2>3
<1> QED BY <1>1, ReaderInit, ReaderStep, PTL DEF Spec
=============================================================================
