SPECIFICATION Ps2Spec
CONSTANTS
  Keys <- MCTwoKeys
  Printable <- MCPrintable
  Letters <- MCLetters
  Configs <- MCOneConfig
  Packets <- MCButton
  MaxKeys = 2
  MaxPackets = 2
  Early = {TRUE, FALSE}
  BufSize = 3
  Width = 4
  Height = 4
INVARIANTS
  KbFifo
  MouseSound
PROPERTIES
  OutputDrains
