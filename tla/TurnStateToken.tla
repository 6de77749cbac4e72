--------------------------- MODULE TurnStateToken ---------------------------
(***************************************************************************)
(* parseTurnState of fernet.go: what the opaque value of the turn state    *)
(* header gives away.  A value is what the parsing looks at: its number of *)
(* base64 characters and of padding characters behind them, whether all    *)
(* are printable, whether they are of the alphabet, and the version byte   *)
(* and the eight bytes of the issue time they begin with.                  *)
(***************************************************************************)
EXTENDS Integers

CONSTANTS
    MinTime,    \* minFernetTime, 2020
    MaxTime,    \* maxFernetTime, 2100
    MaxBytes    \* max_state_bytes of the configuration

ASSUME TokenAssumption == {MinTime, MaxTime, MaxBytes} \subseteq Nat /\ MinTime < MaxTime

Values == [chars : Nat, padding : Nat, printable : BOOLEAN, alphabet : BOOLEAN,
           version : 0..255, seconds : Nat]

\* Mutant: the HMAC behind the ciphertext is forgotten.
WithoutHMAC == 1 + 8 + 16
FixedBytes == 1 + 8 + 16 + 32       \* version, time, IV, HMAC
FernetVersion == 128
BlockBytes == 16

\* base64.RawURLEncoding: four characters for three bytes, and a last group
\* of two or three for one or two; one character alone is no group.
Decodable(value) == value.alphabet /\ value.chars % 4 # 1
DecodedBytes(value) == (value.chars * 6) \div 8

CipherBytes(value) == DecodedBytes(value) - FixedBytes
Blocks(value) == CipherBytes(value) \div BlockBytes

Aligned(value) == CipherBytes(value) % BlockBytes = 0

\* The error returns of parseTurnState.
Parses(value) ==
    /\ value.chars + value.padding > 0
    /\ value.chars + value.padding <= MaxBytes
    /\ value.printable
    /\ Decodable(value)
    /\ DecodedBytes(value) >= FixedBytes + BlockBytes
    /\ value.version = FernetVersion
    /\ Aligned(value)
    /\ value.seconds >= MinTime
    /\ value.seconds < MaxTime

-----------------------------------------------------------------------------
(* Fernet, as upstream mints it: the cipher text of whole blocks between a *)
(* version, time and IV of 25 bytes and an HMAC of 32.                     *)

\* PKCS7 pads the plain text to whole blocks, a full one if it was aligned.
MintedBytes(plain) == 25 + BlockBytes * (plain \div BlockBytes + 1) + 32

EncodedChars(bytes) == (bytes * 8 + 5) \div 6

=============================================================================
