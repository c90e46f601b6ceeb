\* Text and graphic modes, with and without a picture.
SPECIFICATION Spec
CONSTANTS
    Text <- MCText
    Graphic <- MCGraphic
    FontX = 1
    FontY = 2
    Numerals <- MCNumerals
    Letters <- MCLetters
    Minus = "-"
    Chars = {"0", "1", "a", "-"}
    Bits = 3
    Strings <- MCStrings
    Glyph <- MCGlyph
    Pictures <- MCPictures
    Leftover <- MCLeftover
    Shift <- MCShift
PROPERTIES
    OnlyTheScreen
    ImplementsTerminal
    ReadsBack
