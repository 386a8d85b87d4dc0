----------------------------- MODULE VaultCipher -----------------------------
(***************************************************************************)
(* The ciphers of the vault (plugins/vault/vault_cipher.go) by what they   *)
(* do to the length and the order of a stream.  The block ciphers and GCM  *)
(* are the standard library's: an encrypted unit is a cell that remembers  *)
(* its key and its place, and only the same key at the same place gives    *)
(* the plain text back.                                                    *)
(***************************************************************************)
EXTENDS Naturals, Sequences, SequencesExt, FiniteSetsExt

CONSTANTS
    BlockSize,  \* aes.BlockSize
    CopySize    \* the bytes that io.Copy moves at a time

ASSUME CipherAssumption ==
    /\ BlockSize \in 2..255
    /\ CopySize \in Nat \ {0}

Noise == 256          \* what a wrong key makes of a byte
NoKey == "noKey"

Answer(data) == [ok |-> TRUE, data |-> data]
Failure == [ok |-> FALSE, data |-> <<>>]

\* The least padlen from 1 on that completes a block.
PadLength(len, blocklen) == blocklen - (len % blocklen)

pad(data, blocklen) ==
    LET padlen == PadLength(Len(data), blocklen)
    IN  data \o [i \in 1..padlen |-> padlen]

unpad(data, blocklen) ==
    IF Len(data) % blocklen # 0 \/ Len(data) = 0
    THEN Failure
    ELSE LET padlen == data[Len(data)]
         IN  IF /\ padlen \in 1..blocklen
                /\ \A i \in Len(data) - padlen + 1..Len(data) : data[i] = padlen
             THEN Answer(SubSeq(data, 1, Len(data) - padlen))
             ELSE Failure

\* The pieces of at most size bytes in which a loop of reads sees the source.
Chunks(data, size) ==
    [k \in 1..(Len(data) + size - 1) \div size |->
        SubSeq(data, (k - 1) * size + 1, Min({k * size, Len(data)}))]

Cell(key, place, total, plain) ==
    [key |-> key, place |-> place, total |-> total, plain |-> plain]

\* The plain text of every cell of a piece whose first cell has place first.
Cells(key, first, total, plain) ==
    [i \in 1..Len(plain) |-> Cell(key, first + i - 1, total, plain[i])]

NoopEncrypter(data) ==
    LET pieces == Chunks(data, CopySize)
    IN  [k \in DOMAIN pieces |-> Cells(NoKey, 0, 0, pieces[k])]

\* Mutation: the key stream starts again for every piece.
StreamEncrypterByPiece(key, data) ==
    LET pieces == Chunks(data, CopySize)
    IN  [k \in DOMAIN pieces |-> Cells(key, 1, 0, pieces[k])]

\* AesOFBEncrypter and AesCTREncrypter: the key stream depends on the place.
StreamEncrypter(key, data) ==
    LET pieces == Chunks(data, CopySize)
    IN  [k \in DOMAIN pieces |-> Cells(key, (k - 1) * CopySize + 1, 0, pieces[k])]

\* Blocks of BlockSize - 1 bytes, each padded to one block and chained.
AesCBCEncrypter(key, data) ==
    LET blocks == Chunks(data, BlockSize - 1)
    IN  [k \in DOMAIN blocks |-> <<Cell(key, k, 0, pad(blocks[k], BlockSize))>>]

\* Mutation: every piece is sealed on its own, to save memory.
AesGCMEncrypterByPiece(key, data) ==
    LET pieces == Chunks(data, CopySize)
    IN  [k \in DOMAIN pieces |->
            Cells(key, 1, Len(pieces[k]), Append(pieces[k], Noise))]

\* One write of nonce, text and tag; the cell after the text is the tag.
AesGCMEncrypter(key, data) ==
    <<Cells(key, 1, Len(data), Append(data, Noise))>>

\* The writes that encrypting data makes.
Encrypt(algo, key, data) ==
    CASE algo = "no_op" -> NoopEncrypter(data)
      [] algo \in {"aes_ofb", "aes_ctr"} -> StreamEncrypter(key, data)
      [] algo = "aes_cbc" -> AesCBCEncrypter(key, data)
      [] algo = "aes_gcm" -> AesGCMEncrypter(key, data)

NoopDecrypter(cells) == Answer([i \in DOMAIN cells |-> cells[i].plain])

StreamDecrypter(key, cells) ==
    Answer([i \in DOMAIN cells |->
        IF cells[i].key = key /\ cells[i].place = i THEN cells[i].plain ELSE Noise])

\* A block of another key or place decrypts to noise, which unpad refuses.
AesCBCDecrypter(key, cells) ==
    LET block(i) == IF cells[i].key = key /\ cells[i].place = i
                    THEN unpad(cells[i].plain, BlockSize)
                    ELSE Failure
    IN  IF \E i \in DOMAIN cells : ~block(i).ok
        THEN Failure
        ELSE Answer(FlattenSeq([i \in DOMAIN cells |-> block(i).data]))

\* The text is authentic as a whole or refused; less than a nonce panics.
AesGCMDecrypter(key, cells) ==
    IF /\ cells # <<>>
       /\ \A i \in DOMAIN cells :
             cells[i].key = key /\ cells[i].place = i /\ cells[i].total + 1 = Len(cells)
    THEN Answer([i \in 1..Len(cells) - 1 |-> cells[i].plain])
    ELSE Failure

Decrypt(algo, key, cells) ==
    CASE algo = "no_op" -> NoopDecrypter(cells)
      [] algo \in {"aes_ofb", "aes_ctr"} -> StreamDecrypter(key, cells)
      [] algo = "aes_cbc" -> AesCBCDecrypter(key, cells)
      [] algo = "aes_gcm" -> AesGCMDecrypter(key, cells)

=============================================================================
