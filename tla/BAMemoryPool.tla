----------------------------- MODULE BAMemoryPool -----------------------------
(***************************************************************************)
(* BACore's pool of cells for the objects of one class, behind             *)
(* operator new and operator delete.  Free cells are chained through their *)
(* first word, which belongs to the object while the cell is given out.    *)
(* Both operators hold the pool's lock.                                    *)
(***************************************************************************)
EXTENDS Naturals, FiniteSets

CONSTANTS
    PoolSize, \* POOL_SIZE
    MaxAllocs \* bound: blocks the heap provides

ASSUME PoolAssumption == PoolSize \in Nat \ {0} /\ MaxAllocs \in Nat

\* A block has PoolSize cells in a row; 0 is nullptr.
Cells == 1 .. PoolSize * MaxAllocs
Data == PoolSize * MaxAllocs + 1

VARIABLES
    fixSize, \* FIX_SIZE
    fix,     \* m_fix
    freePtr, \* m_free_ptr
    word,    \* the first word of each cell: a cell, nullptr, or an object's data
    blocks,  \* blocks taken from the heap
    inUse    \* history: cells given out and not deleted

poolVars == <<fixSize, fix, freePtr, word, blocks, inUse>>

PoolInit ==
    /\ fixSize \in BOOLEAN /\ fix = FALSE
    /\ freePtr = 0 /\ word = [c \in Cells |-> 0]
    /\ blocks = 0 /\ inUse = {}

\* Alloc links each cell of the new block to the one behind it, the last to
\* nullptr; a pool of fixed size allocates once.
Block(b) == b * PoolSize + 1 .. (b + 1) * PoolSize

Linked(b) == [c \in Cells |-> IF c \notin Block(b) THEN word[c]
                              ELSE IF c + 1 \in Block(b) THEN c + 1 ELSE 0]

Gives(c, words) ==
    /\ inUse' = inUse \cup {c}
    /\ freePtr' = words[c]
    /\ word' = words
    /\ UNCHANGED fixSize

\* operator new.
New == /\ freePtr # 0
       /\ Gives(freePtr, word)
       /\ UNCHANGED <<fix, blocks>>

NewAllocates ==
    /\ freePtr = 0 /\ ~fix /\ blocks < MaxAllocs
    /\ fix' = fixSize
    /\ blocks' = blocks + 1
    /\ Gives(blocks * PoolSize + 1, Linked(blocks))

\* The heap has no block to give: new[] throws, but m_fix has been set by then.
NewThrows ==
    /\ freePtr = 0 /\ ~fix
    /\ fix' = fixSize
    /\ UNCHANGED <<fixSize, freePtr, word, blocks, inUse>>

\* A pool of fixed size that is used up, or whose one block could not be had:
\* operator new returns nullptr.
NewFails == freePtr = 0 /\ fix /\ UNCHANGED poolVars

\* The object stores into its cell.
Writes(c) ==
    /\ c \in inUse
    /\ word' = [word EXCEPT ![c] = Data]
    /\ UNCHANGED <<fixSize, fix, freePtr, blocks, inUse>>

\* Mutant: the cell is cleared after it was linked.
DeleteClears(c) ==
    /\ c \in inUse /\ inUse' = inUse \ {c}
    /\ word' = [word EXCEPT ![c] = 0]
    /\ freePtr' = c
    /\ UNCHANGED <<fixSize, fix, blocks>>

\* operator delete clears the cell and puts it in front.
Delete(c) ==
    /\ c \in inUse /\ inUse' = inUse \ {c}
    /\ word' = [word EXCEPT ![c] = freePtr]
    /\ freePtr' = c
    /\ UNCHANGED <<fixSize, fix, blocks>>

PoolNext == \/ New \/ NewAllocates \/ NewThrows \/ NewFails
            \/ \E c \in Cells : Writes(c) \/ Delete(c)
            \/ UNCHANGED poolVars

----------------------------------------------------------------------------

PoolSpec == PoolInit /\ [][PoolNext]_poolVars

FreeCells == (1 .. blocks * PoolSize) \ inUse

\* In whatever order cells are taken, written to and given back, the chain
\* runs through every cell that is not in use once and through no other, so
\* no cell is given to two objects and none is lost.
PoolExclusive ==
    /\ \E chain \in [1 .. Cardinality(FreeCells) -> FreeCells] :
         /\ \A i, j \in DOMAIN chain : chain[i] = chain[j] => i = j
         /\ freePtr = IF FreeCells = {} THEN 0 ELSE chain[1]
         /\ \A i \in DOMAIN chain :
              word[chain[i]] = IF i + 1 \in DOMAIN chain THEN chain[i + 1] ELSE 0
    /\ fixSize => blocks <= 1

=============================================================================
