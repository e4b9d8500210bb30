\* size_t of 8 bits and a 200-byte buffer.  A 200-byte write fills it; a
\* 100-byte write after it makes index + length wrap to 44, so no grow
\* happens.  Lengths this large relative to size_t (a negative length
\* converted to size_t) are what makes the sum wrap.
CONSTANTS
    Width = 8
    Capacities = {200}
    Lengths = {100, 200}
    MaxSize = 512

SPECIFICATION Spec

INVARIANT NoOverrun
