----------------------------- MODULE MCBashSerial -----------------------------
EXTENDS BashSerial

\* Odd and even parity, with the highest bit and without.
SomeBytes == [n \in 1 .. MaxByte |-> <<1, 126, 128, 222>>[(n % 4) + 1]]
=============================================================================
