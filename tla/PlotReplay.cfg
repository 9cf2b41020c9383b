SPECIFICATION Spec
CONSTANTS
  Colour = {black, red}
  Black = black
  Index = {0, 1}
  Width = {1, 2}
  Height = {1, 2}
  Font = {0, 1}
  Rotation = {0, 1}
  SubPages = 2
  Programs <- MCPrograms
INVARIANTS TypeOK ReplayReadsOnly
PROPERTIES ReplayRegenerates ReplayRestores ReplayIsLocal
