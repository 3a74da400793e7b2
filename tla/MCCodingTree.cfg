SPECIFICATION Spec
CONSTANTS
    Width = 1
    Height = 2
    WidthInMinCbs = 2
    HeightInMinCbs = 5
    CtbDepth = 2
    QpBdOffset = 12
    Layouts <- MCColumn
    Qps <- MCQps
    Offsets = {0, 3}
    MaxTus = 1
INVARIANTS TypeOK QpsAgree ElementsAgree PictureCovered
