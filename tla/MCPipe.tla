------------------------------- MODULE MCPipe -------------------------------
EXTENDS Pipe
CONSTANTS w1, w2, r1
TwoWriters == {w1, w2}
OneReader == {r1}
WriterAndReader == {w1, r1}
=============================================================================
