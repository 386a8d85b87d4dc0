-------------------------------- MODULE Vault --------------------------------
(***************************************************************************)
(* The vault (plugins/vault/vault.go) on its two drivers.  An entry is     *)
(* three objects: .vault has the keys, .meta the metadata, .bin the        *)
(* binary.  A call works on them one by one, without a lock, next to other *)
(* calls; the file system shows a file from its creation on and writes it  *)
(* in place, S3 shows an object when its writer is closed.                 *)
(*                                                                         *)
(* A call is named for the keys it generates.  Opening and writing .vault  *)
(* or .meta is one step: they are written by one Write, and nobody can     *)
(* tell a new empty one from one that cannot be decrypted.                 *)
(***************************************************************************)
EXTENDS VaultCipher

CONSTANTS
    Names, Calls,
    Algos, Drivers,     \* of "fs" and "s3"
    Uploads,            \* binaries, and the lengths of their encrypted metadata
    MaxActive,          \* bound on the calls under way at a time
    MaxFaults           \* bound on the steps that fail, and the ends of the process

VARIABLES
    driver, algo,
    element,    \* name -> the call whose keys .vault has, Absent or Partial
    meta,       \* name -> .meta as the calls that wrote each part, or Absent
    bin,        \* name -> the call that created this .bin, or Absent
    content,    \* call -> the cells of the .bin, or temporary file, it created
    op, pc, name, payload, metaLength,
    handle,     \* call -> the call that created the .bin it has open
    spooled,    \* call -> its temporary .meta file, or Absent
    written,    \* call -> the pieces of the binary it has written
    result,     \* call -> what it returned, "none" before
    alone,      \* call -> it began on no binary, and no other call has met it
    dropped,    \* call of Put -> an error was not reported
    faults

config == <<driver, algo>>
objects == <<element, meta, bin, content>>
frame == <<op, name, payload, metaLength>>
local == <<handle, spooled, written>>
ghosts == <<alone, dropped, faults>>
vars == <<config, objects, frame, pc, local, result, ghosts>>

Absent == <<"absent">>
Partial == <<"partial">>

\* A call is not a mark; Put is given bytes, and the length of its metadata.
ASSUME VaultAssumption ==
    /\ Names # {}
    /\ Algos \subseteq {"no_op", "aes_ofb", "aes_ctr", "aes_cbc", "aes_gcm"}
    /\ Drivers \subseteq {"fs", "s3"}
    /\ \A u \in Uploads : u.payload \in Seq(0..255) /\ u.metaLength \in Nat
    /\ Absent \notin Calls /\ Partial \notin Calls /\ "absent" \notin Calls

Active(n) == {c \in Calls : name[c] = n /\ pc[c] # "done"}

VaultTypeOK ==
    /\ driver \in Drivers /\ algo \in Algos
    /\ element \in [Names -> Calls \cup {Absent, Partial}]
    /\ bin \in [Names -> Calls \cup {Absent}]
    /\ \A n \in Names : meta[n] # Absent => \A i \in DOMAIN meta[n] : meta[n][i] \in Calls
    /\ op \in [Calls -> {"none", "put", "remove"}]
    /\ result \in [Calls -> {"none", "ok", "error", "exists", "crashed"}]
    /\ \A n \in Names : bin[n] # Absent => name[bin[n]] = n
    /\ \A c \in Calls : pc[c] = "done" =>
          handle[c] = Absent /\ spooled[c] = Absent /\ written[c] = 0

VaultInit ==
    /\ driver \in Drivers /\ algo \in Algos
    /\ element = [n \in Names |-> Absent]
    /\ meta = [n \in Names |-> Absent]
    /\ bin = [n \in Names |-> Absent]
    /\ content = [c \in Calls |-> <<>>]
    /\ op = [c \in Calls |-> "none"]
    /\ pc = [c \in Calls |-> "done"]
    /\ name = [c \in Calls |-> CHOOSE n \in Names : TRUE]
    /\ payload = [c \in Calls |-> <<>>]
    /\ metaLength = [c \in Calls |-> 0]
    /\ handle = [c \in Calls |-> Absent]
    /\ spooled = [c \in Calls |-> Absent]
    /\ written = [c \in Calls |-> 0]
    /\ result = [c \in Calls |-> "none"]
    /\ alone = [c \in Calls |-> FALSE]
    /\ dropped = [c \in Calls |-> FALSE]
    /\ faults = 0

Goto(c, label) == pc' = [pc EXCEPT ![c] = label]
Return(c, value) == Goto(c, "done") /\ result' = [result EXCEPT ![c] = value]

Fault == faults < MaxFaults /\ faults' = faults + 1

\* What a call has open is gone when it returns.
Forget(c) ==
    /\ handle' = [handle EXCEPT ![c] = Absent]
    /\ spooled' = [spooled EXCEPT ![c] = Absent]
    /\ written' = [written EXCEPT ![c] = 0]

\* c is a call on n from here on.
Enter(c, n) ==
    alone' = [d \in Calls |-> IF d = c THEN Active(n) = {} /\ bin[n] = Absent
                              ELSE alone[d] /\ name[d] # n]

\* removeIfExists, whose error nobody looks at: the object may stay.
Removed(object, c) == {[object EXCEPT ![name[c]] = Absent], object}
Missed(object, c) ==
    dropped' = [dropped EXCEPT ![c] = @ \/ object[name[c]] # Absent]

-----------------------------------------------------------------------------
(* Put.                                                                    *)

\* Mutation: Has looks at the key instead of the binary.
HasElement(n) == element[n] # Absent

\* Mutation: Put does not look.
HasNothing(n) == FALSE

\* What Has answers when the driver can look.
Has(n) == bin[n] # Absent

Start(c, o, n) ==
    /\ op[c] = "none"
    /\ Cardinality({d \in Calls : pc[d] # "done"}) < MaxActive
    /\ op' = [op EXCEPT ![c] = o]
    /\ name' = [name EXCEPT ![c] = n]

\* A look that fails, for any error of Stat or of HeadObject, answers that there
\* is nothing, and Put goes on over the entry that is there.
CallPut(c, n, u) ==
    /\ Start(c, "put", n)
    /\ payload' = [payload EXCEPT ![c] = u.payload]
    /\ metaLength' = [metaLength EXCEPT ![c] = u.metaLength]
    /\ \/ /\ Has(n)
          /\ Return(c, "exists")
          /\ UNCHANGED ghosts
       \/ /\ ~Has(n)
          /\ Goto(c, "element") /\ Enter(c, n)
          /\ UNCHANGED <<result, dropped, faults>>
       \/ /\ Has(n) /\ Fault
          /\ dropped' = [dropped EXCEPT ![c] = TRUE]
          /\ Goto(c, "element") /\ Enter(c, n)
          /\ UNCHANGED result
    /\ UNCHANGED <<config, objects, local>>

\* createVaultElement.  If GetWriter or the write fails the object is removed,
\* unless that fails too, before the deferred Close, which uploads what was
\* written; an error of Close is dropped.  If Marshal fails nothing is touched.
CreateVaultElement(c) ==
    /\ pc[c] = "element"
    /\ \/ /\ element' = [element EXCEPT ![name[c]] = c]
          /\ Goto(c, "meta")
          /\ UNCHANGED <<result, dropped, faults>>
       \/ /\ driver = "s3" /\ Fault
          /\ dropped' = [dropped EXCEPT ![c] = TRUE]
          /\ Goto(c, "meta")
          /\ UNCHANGED <<element, result>>
       \/ /\ Fault
          /\ \E e \in {element[name[c]], Absent, Partial} :
                /\ element' = [element EXCEPT ![name[c]] = e]
                /\ dropped' = [dropped EXCEPT ![c] = @ \/ e = Partial]
          /\ Return(c, "error")
    /\ UNCHANGED <<config, meta, bin, content, frame, local, alone>>

MetaText(c, length) == [i \in 1..length |-> c]

\* A file is opened without O_TRUNC: what is behind the new text stays.
MetaOver(c, length) ==
    LET old == IF meta[name[c]] = Absent THEN <<>> ELSE meta[name[c]]
    IN  [i \in 1..Max({length, Len(old)}) |-> IF i <= length THEN c ELSE old[i]]

\* The metadata are written; or the keys and metadata are removed again; or the
\* metadata cannot be encoded, and the keys stay.
WriteMeta(c) ==
    /\ pc[c] = "meta"
    /\ \/ /\ IF driver = "fs"
             THEN meta' = [meta EXCEPT ![name[c]] = MetaOver(c, metaLength[c])] /\ UNCHANGED spooled
             ELSE spooled' = [spooled EXCEPT ![c] = MetaText(c, metaLength[c])] /\ UNCHANGED meta
          /\ Goto(c, "bin")
          /\ UNCHANGED <<result, faults>>
       \/ /\ Fault
          /\ Goto(c, "undoElement")
          /\ \/ UNCHANGED <<meta, spooled>>
             \/ \E k \in 0..(metaLength[c] - 1) :
                   IF driver = "fs"
                   THEN meta' = [meta EXCEPT ![name[c]] = MetaOver(c, k)] /\ UNCHANGED spooled
                   ELSE spooled' = [spooled EXCEPT ![c] = MetaText(c, k)] /\ UNCHANGED meta
          /\ UNCHANGED result
       \/ /\ Fault
          /\ Return(c, "error")
          /\ UNCHANGED <<meta, spooled>>
    /\ UNCHANGED <<config, element, bin, content, frame, handle, written, alone, dropped>>

\* GetWriter(binfile): the file is created if there is none.
OpenBin(c) ==
    /\ pc[c] = "bin"
    /\ \/ /\ IF driver = "fs" /\ bin[name[c]] = Absent
             THEN bin' = [bin EXCEPT ![name[c]] = c] ELSE UNCHANGED bin
          /\ handle' = [handle EXCEPT ![c] = IF driver = "fs" THEN bin'[name[c]] ELSE c]
          /\ Goto(c, "copy")
          /\ UNCHANGED faults
       \/ /\ Fault
          /\ Goto(c, "undoElement")
          /\ UNCHANGED <<bin, handle>>
    /\ UNCHANGED <<config, element, meta, content, frame, spooled, written, result, alone, dropped>>

Pieces(c) == Encrypt(algo, c, payload[c])

\* The cells of file after piece was written from offset on.
WriteAt(file, offset, piece) ==
    [i \in 1..Max({Len(file), offset + Len(piece)}) |->
        IF i > offset /\ i <= offset + Len(piece) THEN piece[i - offset] ELSE file[i]]

Offset(c) == Len(FlattenSeq(SubSeq(Pieces(c), 1, written[c])))

CopyPiece(c) ==
    /\ pc[c] = "copy"
    /\ written[c] < Len(Pieces(c))
    /\ content' = [content EXCEPT ![handle[c]] = WriteAt(@, Offset(c), Pieces(c)[written[c] + 1])]
    /\ written' = [written EXCEPT ![c] = @ + 1]
    /\ UNCHANGED <<config, element, meta, bin, frame, pc, handle, spooled, result, ghosts>>

Copied(c) ==
    /\ pc[c] = "copy"
    /\ written[c] = Len(Pieces(c))
    /\ Goto(c, "close")
    /\ UNCHANGED <<config, objects, frame, local, result, ghosts>>

\* The source or the writer fails; the GCM encrypter drops an error of the
\* source, before its only write, and answers 0 and nil.
CopyFails(c) ==
    /\ pc[c] = "copy"
    /\ Fault
    /\ \/ /\ Goto(c, "undoElement") /\ UNCHANGED dropped
       \/ /\ algo = "aes_gcm" /\ written[c] = 0
          /\ dropped' = [dropped EXCEPT ![c] = TRUE]
          /\ Goto(c, "close")
    /\ UNCHANGED <<config, objects, frame, local, result, alone>>

\* removeIfExists of .vault, .meta and, once it was open, .bin.
UndoElement(c) ==
    /\ pc[c] = "undoElement"
    /\ element' \in Removed(element, c) /\ Missed(element', c)
    /\ Goto(c, "undoMeta")
    /\ UNCHANGED <<config, meta, bin, content, frame, local, result, alone, faults>>

\* Mutation: the metadata are left behind.
UndoMetaNever(c) ==
    /\ pc[c] = "undoMeta"
    /\ Goto(c, IF handle[c] = Absent THEN "closeFailed" ELSE "undoBin")
    /\ UNCHANGED <<config, objects, frame, local, result, ghosts>>

UndoMeta(c) ==
    /\ pc[c] = "undoMeta"
    /\ meta' \in Removed(meta, c) /\ Missed(meta', c)
    /\ Goto(c, IF handle[c] = Absent THEN "closeFailed" ELSE "undoBin")
    /\ UNCHANGED <<config, element, bin, content, frame, local, result, alone, faults>>

UndoBin(c) ==
    /\ pc[c] = "undoBin"
    /\ bin' \in Removed(bin, c) /\ Missed(bin', c)
    /\ Goto(c, "closeFailed")
    /\ UNCHANGED <<config, element, meta, content, frame, local, result, alone, faults>>

-----------------------------------------------------------------------------
(* The deferred calls of Close, the binary first, which only S3 feels: they *)
(* upload, after a failure too, and nobody looks at their error.            *)

Verdict(c) == IF pc[c] \in {"close", "closeMeta"} THEN "ok" ELSE "error"

CloseBin(c) ==
    /\ pc[c] \in {"close", "closeFailed"}
    /\ IF driver = "fs"
       THEN Return(c, Verdict(c)) /\ Forget(c) /\ UNCHANGED <<bin, dropped, faults>>
       ELSE /\ \/ handle[c] = Absent /\ UNCHANGED <<bin, dropped, faults>>
               \/ handle[c] = c /\ bin' = [bin EXCEPT ![name[c]] = c] /\ UNCHANGED <<dropped, faults>>
               \/ handle[c] = c /\ Fault /\ dropped' = [dropped EXCEPT ![c] = TRUE] /\ UNCHANGED bin
            /\ Goto(c, IF pc[c] = "close" THEN "closeMeta" ELSE "closeMetaFailed")
            /\ UNCHANGED <<local, result>>
    /\ UNCHANGED <<config, element, meta, content, frame, alone>>

\* Mutation: the temporary files stay open.
CloseMetaAndLeak(c) ==
    /\ pc[c] \in {"closeMeta", "closeMetaFailed"}
    /\ Return(c, Verdict(c))
    /\ UNCHANGED <<config, objects, frame, local, ghosts>>

CloseMeta(c) ==
    /\ pc[c] \in {"closeMeta", "closeMetaFailed"}
    /\ \/ spooled[c] = Absent /\ UNCHANGED <<meta, dropped, faults>>
       \/ spooled[c] # Absent /\ meta' = [meta EXCEPT ![name[c]] = spooled[c]] /\ UNCHANGED <<dropped, faults>>
       \/ spooled[c] # Absent /\ Fault /\ dropped' = [dropped EXCEPT ![c] = TRUE] /\ UNCHANGED meta
    /\ Return(c, Verdict(c))
    /\ Forget(c)
    /\ UNCHANGED <<config, element, bin, content, frame, alone>>

-----------------------------------------------------------------------------
(* Remove, Get, and the end of the process.                                *)

CallRemove(c, n) ==
    /\ Start(c, "remove", n)
    /\ Goto(c, "removeBin")
    /\ Enter(c, n)
    /\ UNCHANGED <<config, objects, payload, metaLength, local, result, dropped, faults>>

RemoveObjects(c) ==
    /\ \/ pc[c] = "removeBin" /\ bin' \in Removed(bin, c)
          /\ Goto(c, "removeElement")
          /\ UNCHANGED <<element, meta, result>>
       \/ pc[c] = "removeElement" /\ element' \in Removed(element, c)
          /\ Goto(c, "removeMeta")
          /\ UNCHANGED <<bin, meta, result>>
       \/ pc[c] = "removeMeta" /\ meta' \in Removed(meta, c)
          /\ Return(c, "ok")
          /\ UNCHANGED <<bin, element>>
    /\ UNCHANGED <<config, content, frame, local, ghosts>>

\* The keys of an entry, not a call if .vault is missing or cannot be decrypted.
getVaultElement(n) == element[n]

\* Get, which changes nothing, with the keys .vault had when it was read, which
\* may be before the binary is.
Get(key, n) ==
    IF key \notin Calls \/ bin[n] = Absent THEN Failure
    ELSE Decrypt(algo, key, content[bin[n]])

\* A document that is cut short, or has anything of other keys in it or behind
\* it, does not parse.
GetMeta(key, n) ==
    IF key \in Calls /\ meta[n] # Absent /\ meta[n] = MetaText(key, metaLength[key])
    THEN Answer(meta[n]) ELSE Failure

\* Files stay as they are, temporary files are never uploaded.
Crash ==
    /\ Fault
    /\ pc' = [c \in Calls |-> "done"]
    /\ result' = [c \in Calls |-> IF pc[c] # "done" THEN "crashed" ELSE result[c]]
    /\ handle' = [c \in Calls |-> Absent]
    /\ spooled' = [c \in Calls |-> Absent]
    /\ written' = [c \in Calls |-> 0]
    /\ UNCHANGED <<config, objects, frame, alone, dropped>>

VaultNext ==
    \/ \E c \in Calls, n \in Names :
        \/ \E u \in Uploads : CallPut(c, n, u)
        \/ CallRemove(c, n)
    \/ \E c \in Calls :
        \/ CreateVaultElement(c) \/ WriteMeta(c) \/ OpenBin(c) \/ CopyPiece(c)
        \/ Copied(c) \/ CopyFails(c) \/ UndoElement(c) \/ UndoMeta(c) \/ UndoBin(c)
        \/ CloseBin(c) \/ CloseMeta(c) \/ RemoveObjects(c)
    \/ Crash

VaultSpec == VaultInit /\ [][VaultNext]_vars

-----------------------------------------------------------------------------
(* Properties.                                                             *)

ReadBack(n) == Get(getVaultElement(n), n)

\* A Put that was acknowledged, met no other call on its name and lost no
\* error can be read back: the binary is its payload, for every cipher and
\* driver, and the metadata are its own, on the file system perhaps with the
\* end of a longer file behind them that a crash or a failure had left.
AcknowledgedReadable ==
    \A c \in Calls :
        op[c] = "put" /\ result[c] = "ok" /\ alone[c] /\ ~dropped[c] =>
            /\ ReadBack(name[c]) = Answer(payload[c])
            /\ IsPrefix(MetaText(c, metaLength[c]), meta[name[c]])
            /\ driver = "s3" => GetMeta(getVaultElement(name[c]), name[c]) = Answer(MetaText(c, metaLength[c]))

\* On the file system a Put that fails, and met no other call and lost no
\* error, leaves no binary, so that it can be tried again, and nothing of its
\* own but the keys, and these only if its metadata could not be encoded.
FailedLeavesNothing ==
    [][\A c \in Calls :
          op[c] = "put" /\ result[c] = "none" /\ result'[c] = "error"
                        /\ alone[c] /\ ~dropped'[c] /\ driver = "fs" =>
              /\ bin'[name[c]] = Absent
              /\ ~Contains(meta'[name[c]], c)
              /\ element'[name[c]] = c => pc[c] = "meta"]_vars

\* With aes_gcm a Get never answers with half a binary, or with one that
\* belongs to other keys, whatever runs beside it or crashed before it.
AuthenticatedRead ==
    \A n \in Names, key \in Calls :
        algo = "aes_gcm" /\ Get(key, n).ok =>
            \E c \in Calls : op[c] = "put" /\ name[c] = n /\ Get(key, n).data = payload[c]

\* Once no call works on a name that has a binary, no step changes any of its
\* objects, and only a removal begins to, or a Put that could not look.
SettledStays ==
    [][\A n \in Names :
          Active(n) = {} /\ bin[n] # Absent =>
              /\ element'[n] = element[n] /\ meta'[n] = meta[n] /\ bin'[n] = bin[n]
              /\ content'[bin[n]] = content[bin[n]]
              /\ \A c \in Active(n)' : op'[c] = "remove" \/ dropped'[c]]_vars

\* What the Put that made the binary was given is what Get answers.
Whole(n) == {c \in Calls : bin[n] = c /\ ReadBack(n) = Answer(payload[c])}

EntryOf(n) ==
    IF Active(n) = {}
    THEN IF bin[n] = Absent THEN [state |-> "none"]
         ELSE IF Whole(n) = {} THEN [state |-> "broken"]
         ELSE [state |-> "whole", content |-> payload[CHOOSE c \in Whole(n) : TRUE]]
    ELSE IF \E c \in Active(n) : op[c] = "put" /\ alone[c]
         THEN [state |-> "writing", content |-> payload[CHOOSE c \in Active(n) : TRUE]]
         ELSE [state |-> "shared"]

entry == [n \in Names |-> EntryOf(n)]
busy == [n \in Names |-> Active(n)]

Once == INSTANCE WriteOnce WITH
    Contents <- {u.payload : u \in Uploads}, request <- op, failures <- faults

\* Calls that meet or not, fail or crash: an entry is written once, unless the
\* look of a later Put fails.
ImplementsWriteOnce == Once!OnceSpec

=============================================================================
