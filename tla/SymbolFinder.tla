---------------------------- MODULE SymbolFinder ----------------------------
(***************************************************************************)
(* Addresses of symbols a library does not export, for the modules that    *)
(* hook the engine.  ResolveSymbol (memutils) and SymbolFinder::FindSymbol *)
(* read the symbols of a library's file from where the last search that    *)
(* found its symbol stopped, and remember what they pass: memutils in a    *)
(* hash table that grows (sm_symtable.h), SymbolFinder in a map.           *)
(***************************************************************************)
EXTENDS Integers, SequencesExt

CONSTANTS
  Dlls,        \* the libraries
  lib_base,    \* library -> where it is loaded
  SymTab,      \* library -> the symbols of its file, each a name and whether it is defined
  SymbolNames, \* the names asked for
  HashString,  \* name -> its hash
  START_SIZE,  \* buckets of a new table, a power of two
  NoAddress

(* No library is where another was, and no symbol is where nothing is.     *)
ASSUME SymAssumption ==
  /\ \A l, m \in Dlls : lib_base[l] = lib_base[m] => l = m
  /\ \A l \in Dlls : SymTab[l] \in Seq([name : SymbolNames, defined : BOOLEAN])
  /\ HashString \in [SymbolNames -> Nat] /\ START_SIZE \in Nat \ {0}
  /\ \A l \in Dlls : \A i \in 1..Len(SymTab[l]) : <<lib_base[l], i>> # NoAddress

Bases == {lib_base[l] : l \in Dlls}

VARIABLES
  finder,   \* which of the two a module uses
  tables,   \* base -> g_SymTables or symbolTables: what is known of the library there
  resolved, \* the last answer
  located   \* what was found so far

symVars == <<finder, tables, resolved, located>>

NewSymbols(table) == [last_pos |-> 0, table |-> table]

SymInit ==
  /\ \/ /\ finder = "memutils"
        /\ tables = [b \in Bases |-> NewSymbols([i \in 1..START_SIZE |-> <<>>])]
     \/ /\ finder = "SymbolFinder"
        /\ tables = [b \in Bases |-> NewSymbols([s \in SymbolNames |-> NoAddress])]
  /\ resolved = NoAddress
  /\ located = {}

Address(l, i) == <<lib_base[l], i>>

Replies(l, s, address, failed) ==
  /\ resolved' = [lib |-> l, symbol |-> s, address |-> address, failed |-> failed]
  /\ located' = IF address = NoAddress THEN located ELSE located \cup {<<l, s>>}

(* The file cannot be read, or is stripped.                                *)
Unread(l, s) == Replies(l, s, NoAddress, TRUE) /\ UNCHANGED tables

Cached(l, s, address) == Replies(l, s, address, FALSE) /\ UNCHANGED tables

-----------------------------------------------------------------------------
(* The file of a library, read on from last_pos up to a defined symbol of  *)
(* the name, or to the end.                                                *)
Defined(l) == {i \in DOMAIN SymTab[l] : SymTab[l][i].defined}
Theirs(l, s) == {i \in Defined(l) : SymTab[l][i].name = s}

FirstIn(S) == CHOOSE i \in S : \A j \in S : i <= j

Hits(l, s, last_pos) == {i \in Theirs(l, s) : i > last_pos}

Scanned(l, s, last_pos) ==
  {i \in Defined(l) : i > last_pos /\ \A h \in Hits(l, s, last_pos) : i <= h}

LastPos(l, s, last_pos) ==
  LET hits == Hits(l, s, last_pos) IN IF hits = {} THEN last_pos ELSE FirstIn(hits)

(* What the search leaves of what was known, and what it answers.          *)
Searched(l, s, known, table) ==
  LET last_pos == LastPos(l, s, known.last_pos)
  IN /\ tables' = [tables EXCEPT ![lib_base[l]] = [last_pos |-> last_pos, table |-> table]]
     /\ Replies(l, s, IF last_pos = known.last_pos THEN NoAddress ELSE Address(l, last_pos), FALSE)

-----------------------------------------------------------------------------
(* sm_symtable.h: a table is a sequence of buckets, each a chain.          *)
Bucket(n, s) == 1 + (HashString[s] % n)

Chained(chain, s) == {k \in DOMAIN chain : chain[k].name = s}

FindSymbolBucket(table, s) == Chained(table[Bucket(Len(table), s)], s)

(* A bug: a symbol goes where the old mask says.                            *)
Rehashed_OldMask(table, n, i) ==
  LET syms == FlattenSeq(table)
      chain[k \in 0..Len(syms)] ==
        IF k = 0 THEN <<>>
        ELSE IF Bucket(Len(table), syms[k].name) = i THEN <<syms[k]>> \o chain[k - 1] ELSE chain[k - 1]
  IN chain[Len(syms)]

(* Bucket i of n: every symbol is put in front of those there.             *)
Rehashed(table, n, i) ==
  LET syms == FlattenSeq(table)
      chain[k \in 0..Len(syms)] ==
        IF k = 0 THEN <<>>
        ELSE IF Bucket(n, syms[k].name) = i THEN <<syms[k]>> \o chain[k - 1] ELSE chain[k - 1]
  IN chain[Len(syms)]

ResizeSymbolTable(table) ==
  LET n == 2 * Len(table) IN [i \in 1..n |-> Rehashed(table, n, i)]

nused(table) == Len(FlattenSeq(table))

InternSymbol(table, s, address) ==
  IF FindSymbolBucket(table, s) # {} THEN table
  ELSE LET longer == [table EXCEPT ![Bucket(Len(table), s)] =
                        Append(@, [name |-> s, address |-> address])]
       IN IF nused(longer) > Len(longer) THEN ResizeSymbolTable(longer) ELSE longer

Interned(table, l, s, last_pos) ==
  LET scanned == Scanned(l, s, last_pos)
      t[i \in 0..Len(SymTab[l])] ==
        IF i = 0 THEN table
        ELSE IF i \in scanned THEN InternSymbol(t[i - 1], SymTab[l][i].name, Address(l, i)) ELSE t[i - 1]
  IN t[Len(SymTab[l])]

(* memutils: the first symbol of a name stays in the table.                *)
ResolveSymbol(l, s) ==
  LET known == tables[lib_base[l]]
      cached == FindSymbolBucket(known.table, s)
  IN
  /\ finder = "memutils" /\ UNCHANGED finder
  /\ \/ /\ cached # {}
        /\ Cached(l, s, known.table[Bucket(Len(known.table), s)][FirstIn(cached)].address)
     \/ cached = {} /\ Unread(l, s)
     \/ cached = {} /\ Searched(l, s, known, Interned(known.table, l, s, known.last_pos))

-----------------------------------------------------------------------------
(* SymbolFinder: the last symbol of a name that was passed is in the map.  *)
Noted(table, l, s, last_pos) ==
  LET scanned == Scanned(l, s, last_pos)
      t[i \in 0..Len(SymTab[l])] ==
        IF i = 0 THEN table
        ELSE IF i \in scanned THEN [t[i - 1] EXCEPT ![SymTab[l][i].name] = Address(l, i)] ELSE t[i - 1]
  IN t[Len(SymTab[l])]

FindSymbol(l, s) ==
  LET known == tables[lib_base[l]]
      cached == known.table[s]
  IN
  /\ finder = "SymbolFinder" /\ UNCHANGED finder
  /\ \/ cached # NoAddress /\ Cached(l, s, cached)
     \/ cached = NoAddress /\ Unread(l, s)
     \/ cached = NoAddress /\ Searched(l, s, known, Noted(known.table, l, s, known.last_pos))

SymNext ==
  \E l \in Dlls, s \in SymbolNames :
    ResolveSymbol(l, s) \/ FindSymbol(l, s)

SymSpec == SymInit /\ [][SymNext]_symVars

-----------------------------------------------------------------------------
(* Whatever was asked before, in whatever order, and however often a file  *)
(* could not be read: an answer is the address of a symbol of that name in *)
(* that library, from ResolveSymbol always that of the first; there is     *)
(* none only if the library defines none or could not be read, and never   *)
(* once the symbol was found.                                              *)
SymbolsAreTheirs ==
  resolved # NoAddress =>
    LET theirs == Theirs(resolved.lib, resolved.symbol)
    IN IF resolved.address = NoAddress
       THEN <<resolved.lib, resolved.symbol>> \notin located /\ (theirs = {} \/ resolved.failed)
       ELSE /\ \E i \in theirs : resolved.address = Address(resolved.lib, i)
            /\ finder = "memutils" => resolved.address = Address(resolved.lib, FirstIn(theirs))
=============================================================================
