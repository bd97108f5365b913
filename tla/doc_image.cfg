SPECIFICATION Spec
CONSTANTS
    PipeCap = 1
    MaxLines = 1
PROPERTY NoVideoMeansImage
